-------------------------- MODULE GovernedCallsProofs --------------------------
(***************************************************************************)
(* What holds of a governed call whatever the configuration, the request,  *)
(* the answers of the backends and the operations that fail (MaxFaults is  *)
(* any number):                                                            *)
(*                                                                         *)
(*   RetryCostsNothing     a key is released only by a call that was not   *)
(*                         charged by a model;                             *)
(*   DataReachesTheApproved  text goes to models the policy allows;        *)
(*   CoveredAtTheCall      a model is called under leases that cover it;   *)
(*   HoldsAreResolved      a decided call leaves nothing held but what     *)
(*                         failed to settle and was logged;                *)
(*   DataIsScreened        nobody is shown personal data the plan masks;   *)
(*   CostIsOnTheRow        what a call cost is on its row of the log;      *)
(*   SpendIsBooked         what a call cost is in the ledgers it is billed *)
(*                         to, once, and in no other.                      *)
(*                                                                         *)
(* Each has an inductive invariant of its own (PaidInv, ApprovedInv,       *)
(* CoverInv, ResolveInv, ScreenInv, AuditInv, MoneyInv) over what the      *)
(* handler still has to do (`todo`) as much as over what it has done; the  *)
(* first part says what lists of pending jobs are made of.                 *)
(***************************************************************************)
EXTENDS GovernedCalls, WellFoundedInduction, TLAPS

(***************************************************************************)
(* Lists of pending jobs.                                                  *)
(***************************************************************************)
\* A list, without saying of what: `lost` and `usd` range over replies and sums.
IsSeq(s) == s \in Seq(Range(s))

\* A list of anything is one of its own elements.
LEMMA OwnRange ==
  ASSUME NEW S, NEW s \in Seq(S)
  PROVE  IsSeq(s)
BY DEF IsSeq, Range

\* What a list holds is its head and what its tail holds.
LEMMA TailOfJobs ==
  ASSUME NEW s, IsSeq(s), s # <<>>
  PROVE  /\ IsSeq(Tail(s))
         /\ Range(s) = {Head(s)} \union Range(Tail(s))
<1> DEFINE S == Range(s)
<1>1. s \in Seq(S) /\ Len(s) \in Nat /\ Len(s) > 0 /\ DOMAIN s = 1 .. Len(s)
  BY DEF IsSeq
<1>2. /\ Tail(s) \in Seq(S) /\ Len(Tail(s)) = Len(s) - 1
      /\ DOMAIN Tail(s) = 1 .. Len(Tail(s))
      /\ \A i \in 1 .. Len(s) - 1 : Tail(s)[i] = s[i + 1]
  <2>1. Tail(s) \in Seq(S) /\ Len(Tail(s)) = Len(s) - 1  BY <1>1
  <2>2. \A i \in 1 .. Len(s) - 1 : Tail(s)[i] = s[i + 1]  BY <1>1
  <2>3. DOMAIN Tail(s) = 1 .. Len(Tail(s))  BY <2>1
  <2> QED BY <2>1, <2>2, <2>3
<1>3. IsSeq(Tail(s))
  BY <1>2, OwnRange
<1>4. ASSUME NEW x \in Range(s) PROVE x \in {Head(s)} \union Range(Tail(s))
  <2>1. PICK i \in 1 .. Len(s) : x = s[i]  BY <1>1, <1>4 DEF Range
  <2>2. CASE i = 1  BY <2>1, <2>2, <1>1
  <2>3. CASE i # 1
    <3>1. i - 1 \in 1 .. Len(s) - 1 /\ Tail(s)[i - 1] = s[i]  BY <2>1, <2>3, <1>1, <1>2
    <3>2. i - 1 \in DOMAIN Tail(s)  BY <3>1, <1>2
    <3> QED BY <3>1, <3>2, <2>1 DEF Range
  <2> QED BY <2>2, <2>3
<1>5. Head(s) \in Range(s)  BY <1>1 DEF Range
<1>6. Range(Tail(s)) \subseteq Range(s)  BY <1>2, <1>1 DEF Range
<1> QED BY <1>3, <1>4, <1>5, <1>6

\* Two lists put together hold what either holds.
LEMMA CatOfJobs ==
  ASSUME NEW s, NEW t, IsSeq(s), IsSeq(t)
  PROVE  IsSeq(s \o t) /\ Range(s \o t) = Range(s) \union Range(t)
<1> DEFINE S == Range(s) \union Range(t)
<1>1. s \in Seq(S) /\ t \in Seq(S)
  BY DEF IsSeq
<1>2. s \o t \in Seq(S) /\ Len(s \o t) = Len(s) + Len(t) /\ Len(s) \in Nat /\ Len(t) \in Nat
      /\ DOMAIN s = 1 .. Len(s) /\ DOMAIN t = 1 .. Len(t)
      /\ DOMAIN (s \o t) = 1 .. Len(s) + Len(t)
      /\ \A i \in 1 .. Len(s) + Len(t) :
           (s \o t)[i] = IF i <= Len(s) THEN s[i] ELSE t[i - Len(s)]
  BY <1>1
<1>3. Range(s \o t) \subseteq S  BY <1>2, <1>1 DEF Range
<1>4. ASSUME NEW x \in Range(s) PROVE x \in Range(s \o t)
  <2>1. PICK i \in 1 .. Len(s) : x = s[i]  BY <1>2 DEF Range
  <2> QED BY <2>1, <1>2 DEF Range
<1>5. ASSUME NEW x \in Range(t) PROVE x \in Range(s \o t)
  <2>1. PICK i \in 1 .. Len(t) : x = t[i]  BY <1>2 DEF Range
  <2>2. i + Len(s) \in 1 .. Len(s) + Len(t) /\ (s \o t)[i + Len(s)] = t[i]  BY <2>1, <1>2
  <2> QED BY <2>1, <2>2, <1>2 DEF Range
<1>6. Range(s \o t) = S  BY <1>3, <1>4, <1>5
<1> QED BY <1>6, <1>2 DEF IsSeq

\* The two ways a job enters a list.
LEMMA OneJob ==
  /\ IsSeq(<<>>) /\ Range(<<>>) = {}
  /\ \A c, do, usd : /\ IsSeq(JobIf(c, do, usd))
                     /\ Range(JobIf(c, do, usd)) = IF c THEN {[do |-> do, usd |-> usd]} ELSE {}
  /\ \A status, usd, lost :
       /\ IsSeq(Row(status, usd, lost))
       /\ Range(Row(status, usd, lost)) =
            {[do |-> "audit", usd |-> usd, status |-> status, lost |-> lost]}
<1>1. IsSeq(<<>>) /\ Range(<<>>) = {}  BY DEF IsSeq, Range
<1>2. ASSUME NEW x PROVE IsSeq(<<x>>) /\ Range(<<x>>) = {x}  BY DEF IsSeq, Range
<1>3. ASSUME NEW c, NEW do, NEW usd
      PROVE /\ IsSeq(JobIf(c, do, usd))
            /\ Range(JobIf(c, do, usd)) = IF c THEN {[do |-> do, usd |-> usd]} ELSE {}
  <2>1. CASE c  BY <2>1, <1>2 DEF JobIf, Job
  <2>2. CASE ~c  BY <2>2, <1>1 DEF JobIf, Job
  <2> QED BY <2>1, <2>2
<1>4. ASSUME NEW status, NEW usd, NEW lost
      PROVE /\ IsSeq(Row(status, usd, lost))
            /\ Range(Row(status, usd, lost)) =
                 {[do |-> "audit", usd |-> usd, status |-> status, lost |-> lost]}
  BY <1>2 DEF Row
<1> QED BY <1>1, <1>3, <1>4

\* The ways the handlers build lists of jobs.
LEMMA Lists ==
  /\ IsSeq(<<>>)
  /\ \A s, t : IsSeq(s) /\ IsSeq(t) => IsSeq(s \o t)
  /\ \A s : IsSeq(s) /\ s # <<>> => IsSeq(Tail(s))
  /\ \A c, do, usd : IsSeq(JobIf(c, do, usd))
  /\ \A status, usd, lost : IsSeq(Row(status, usd, lost))
<1>1. IsSeq(<<>>)  BY OneJob
<1>2. ASSUME NEW s, NEW t, IsSeq(s), IsSeq(t) PROVE IsSeq(s \o t)  BY <1>2, CatOfJobs
<1>3. ASSUME NEW s, IsSeq(s), s # <<>> PROVE IsSeq(Tail(s))  BY <1>3, TailOfJobs
<1>4. ASSUME NEW c, NEW do, NEW usd PROVE IsSeq(JobIf(c, do, usd))  BY OneJob
<1>5. ASSUME NEW status, NEW usd, NEW lost PROVE IsSeq(Row(status, usd, lost))  BY OneJob
<1> QED BY <1>1, <1>2, <1>3, <1>4, <1>5

\* The batches the handlers share are lists.
LEMMA Batches ==
  /\ IsSeq(ReleaseWithSafety) /\ IsSeq(SettleBilling)
  /\ \A usd : IsSeq(IncurSafety(usd))
  /\ \A status, usd : IsSeq(RejectionRow(status, usd))
  /\ \A status, usd, lost : IsSeq(Row(status, usd, lost) \o SettleBilling)
<1>1. IsSeq(ReleaseWithSafety)  BY Lists DEF ReleaseWithSafety
<1>2. IsSeq(SettleBilling)  BY Lists DEF SettleBilling
<1>3. ASSUME NEW usd PROVE IsSeq(IncurSafety(usd))  BY Lists DEF IncurSafety
<1>4. ASSUME NEW status, NEW usd PROVE IsSeq(RejectionRow(status, usd))
  BY Lists DEF RejectionRow
<1>5. ASSUME NEW status, NEW usd, NEW lost PROVE IsSeq(Row(status, usd, lost) \o SettleBilling)
  BY <1>2, Lists
<1> QED BY <1>1, <1>2, <1>3, <1>4, <1>5

\* What is made of an answer, whatever the guard saw in it.
LEMMA Endings ==
  /\ ScreenAnswer => \/ AnswerBlocked \/ AnswerUnscreened \/ AnswerLost
                     \/ \E readable : AnswerServed(readable)
  /\ ScreenDocument => \/ DocumentBlocked \/ DocumentUnscreened \/ DocumentLost
                       \/ \E readable : DocumentServed(readable)
<1>1. ASSUME ScreenAnswer
      PROVE  AnswerBlocked \/ AnswerUnscreened \/ AnswerLost \/ \E r : AnswerServed(r)
  BY <1>1 DEF ScreenAnswer
<1>2. ASSUME ScreenDocument
      PROVE  DocumentBlocked \/ DocumentUnscreened \/ DocumentLost \/ \E r : DocumentServed(r)
  BY <1>2 DEF ScreenDocument
<1> QED BY <1>1, <1>2

\* The pending work of a call is always a list.
LEMMA TodoStep ==
  ASSUME IsSeq(todo), [Next]_vars
  PROVE  IsSeq(todo')
<1> USE Lists, Batches
<1>1. ASSUME Debit \/ Book \/ FreeLease \/ FreeHold \/ ReturnHold \/ SettleLease
     \/ SettleBillingDone \/ WriteAudit \/ OperationIsLogged
     \/ AuditFails PROVE IsSeq(todo')
  BY <1>1 DEF Debit, Done, Keep, Due, Usd, Book, FreeLease, FreeHold, ReturnHold,
       SettleLease, SettleBillingDone, WriteAudit, OperationIsLogged, Fault, AuditFails
<1>2. ASSUME StreamReleaseIsLogged PROVE IsSeq(todo')
  BY <1>2 DEF StreamReleaseIsLogged, Due, Fault, Keep
<1>3. ASSUME OperationThrows \/ ReserveThrows \/ CheckPause PROVE IsSeq(todo')
  BY <1>3 DEF OperationThrows, Due, Fault, ReserveThrows, At, CheckPause, Answer
<1>4. ASSUME EvaluateChat PROVE IsSeq(todo')
  BY <1>4 DEF EvaluateChat, At, Answer, Following
<1>5. ASSUME LoadHierarchicalPath PROVE IsSeq(todo')
  BY <1>5 DEF LoadHierarchicalPath, At, Answer, Following
<1>6. ASSUME ScreenContext PROVE IsSeq(todo')
  BY <1>6 DEF ScreenContext, At, Answer, Inspected, Following
<1>7. ASSUME RunInputSafety PROVE IsSeq(todo')
  <2>1. \/ UNCHANGED todo
        \/ \E usd : todo' = IncurSafety(usd) \o RejectionRow("safety_blocked", usd)
        \/ todo' = IncurSafety(safety) \/ todo' = <<>>
    BY <1>7 DEF RunInputSafety, Inspected, Answer, At
  <2> QED BY <1>7, <2>1 DEF Answer
<1>8. ASSUME ReserveFlatHold PROVE IsSeq(todo')
  BY <1>8 DEF ReserveFlatHold, AcquireCreditHold, At, Answer
<1>9. ASSUME ReserveFlatLease PROVE IsSeq(todo')
  BY <1>9 DEF ReserveFlatLease, ReserveBudget, At, Answer
<1>10. ASSUME ReserveHierarchical PROVE IsSeq(todo')
  BY <1>10 DEF ReserveHierarchical, At, Answer
<1>11. ASSUME ProviderAnswers PROVE IsSeq(todo')
  BY <1>11 DEF ProviderAnswers, At, ModelRan
<1>12. ASSUME ProviderFails PROVE IsSeq(todo')
  BY <1>12 DEF ProviderFails, At, Answer
<1>13. ASSUME ProviderFallsBack PROVE IsSeq(todo')
  BY <1>13 DEF ProviderFallsBack, At, Answer
<1>14. ASSUME GrowChatHold PROVE IsSeq(todo')
  BY <1>14 DEF GrowChatHold, GrowHold, At, Answer
<1>15. ASSUME GrowChatLease PROVE IsSeq(todo')
  BY <1>15 DEF GrowChatLease, GrowLease, At, Answer
<1>16. ASSUME GrowChatThrows PROVE IsSeq(todo')
  BY <1>16 DEF GrowChatThrows, GrowThrows, At, Answer, Fault
<1>17. ASSUME ScreenAnswer PROVE IsSeq(todo')
  <2>1. AnswerBlocked \/ AnswerUnscreened \/ AnswerLost \/ \E r : AnswerServed(r)
    BY <1>17, Endings
  <2>2. CASE AnswerBlocked  BY <2>2 DEF AnswerBlocked, Answer
  <2>3. CASE AnswerUnscreened  BY <2>3 DEF AnswerUnscreened, Answer
  <2>4. CASE AnswerLost  BY <2>4 DEF AnswerLost, Answer
  <2>5. ASSUME NEW r, AnswerServed(r) PROVE IsSeq(todo')  BY <2>5 DEF AnswerServed, Answer
  <2> QED BY <2>1, <2>2, <2>3, <2>4, <2>5
<1>18. ASSUME StreamOpens PROVE IsSeq(todo')
  BY <1>18 DEF StreamOpens, At
<1>19. ASSUME StreamReleased PROVE IsSeq(todo')
  BY <1>19 DEF StreamReleased, At, Answer
<1>20. ASSUME FirstDelta PROVE IsSeq(todo')
  BY <1>20 DEF FirstDelta, At
<1>21. ASSUME StreamEnds PROVE IsSeq(todo')
  BY <1>21 DEF StreamEnds, At, SettleStream, Answer
<1>22. ASSUME StreamCut PROVE IsSeq(todo')
  BY <1>22 DEF StreamCut, At, SettleStream, Answer
<1>23. ASSUME EvaluateEmbeddings PROVE IsSeq(todo')
  BY <1>23 DEF EvaluateEmbeddings, At, Answer
<1>24. ASSUME ScreenEmbeddings PROVE IsSeq(todo')
  BY <1>24 DEF ScreenEmbeddings, At, Answer
<1>25. ASSUME ReserveEmbeddingHold PROVE IsSeq(todo')
  BY <1>25 DEF ReserveEmbeddingHold, AcquireCreditHold, At, Answer
<1>26. ASSUME ReserveEmbeddingLease PROVE IsSeq(todo')
  BY <1>26 DEF ReserveEmbeddingLease, ReserveBudget, At, Answer
<1>27. ASSUME EmbeddingAnswers PROVE IsSeq(todo')
  BY <1>27 DEF EmbeddingAnswers, At, ModelRan, Answer
<1>28. ASSUME EmbeddingFails PROVE IsSeq(todo')
  BY <1>28 DEF EmbeddingFails, At, Answer
<1>29. ASSUME EmbeddingFallsBack PROVE IsSeq(todo')
  BY <1>29 DEF EmbeddingFallsBack, At, Answer
<1>30. ASSUME GrowEmbeddingHold PROVE IsSeq(todo')
  BY <1>30 DEF GrowEmbeddingHold, GrowHold, At, Answer
<1>31. ASSUME GrowEmbeddingLease PROVE IsSeq(todo')
  BY <1>31 DEF GrowEmbeddingLease, GrowLease, At, Answer
<1>32. ASSUME GrowEmbeddingThrows PROVE IsSeq(todo')
  BY <1>32 DEF GrowEmbeddingThrows, GrowThrows, At, Answer, Fault
<1>33. ASSUME EvaluateDocument PROVE IsSeq(todo')
  BY <1>33 DEF EvaluateDocument, At, Answer
<1>34. ASSUME ReserveDocumentHold PROVE IsSeq(todo')
  BY <1>34 DEF ReserveDocumentHold, AcquireCreditHold, At, Answer
<1>35. ASSUME ReserveDocumentLease PROVE IsSeq(todo')
  BY <1>35 DEF ReserveDocumentLease, ReserveBudget, At, Answer
<1>36. ASSUME ExtractAnswers PROVE IsSeq(todo')
  BY <1>36 DEF ExtractAnswers, At
<1>37. ASSUME ExtractFails PROVE IsSeq(todo')
  BY <1>37 DEF ExtractFails, At, Answer
<1>38. ASSUME ScreenDocument PROVE IsSeq(todo')
  <2>1. DocumentBlocked \/ DocumentUnscreened \/ DocumentLost \/ \E r : DocumentServed(r)
    BY <1>38, Endings
  <2>2. CASE DocumentBlocked  BY <2>2 DEF DocumentBlocked, Answer
  <2>3. CASE DocumentUnscreened  BY <2>3 DEF DocumentUnscreened, Answer
  <2>4. CASE DocumentLost  BY <2>4 DEF DocumentLost, Answer
  <2>5. ASSUME NEW r, DocumentServed(r) PROVE IsSeq(todo')  BY <2>5 DEF DocumentServed,
       Answer
  <2> QED BY <2>1, <2>2, <2>3, <2>4, <2>5
<1>39. ASSUME UNCHANGED vars PROVE IsSeq(todo')
  BY <1>39 DEF vars
<1> QED BY <1>1, <1>2, <1>3, <1>4, <1>5, <1>6, <1>7, <1>8, <1>9, <1>10, <1>11, <1>12,
     <1>13, <1>14, <1>15, <1>16, <1>17, <1>18, <1>19, <1>20, <1>21, <1>22, <1>23, <1>24,
     <1>25, <1>26, <1>27, <1>28, <1>29, <1>30, <1>31, <1>32, <1>33, <1>34, <1>35, <1>36,
     <1>37, <1>38, <1>39 DEF Next, LedgerNext, ChatNext, EmbeddingsNext, DocumentsNext

(***************************************************************************)
(* A retry of a released key is free: what can still happen to the reply   *)
(* of a call whose model has charged.                                      *)
(***************************************************************************)
AfterPaid(jobs) ==
  \A j \in Range(jobs) : /\ j.do \in {"settleLease", "audit", "settleBilling"}
                         /\ j.do = "audit" => j.lost = None \/ j.lost.retry = FALSE

PaidInv ==
  /\ DOMAIN spent = {"classifier", "forgotten", "model"}
  /\ spent.model # 0 =>
       /\ pc \in {"answer", "reply"}
       /\ pc = "reply" => reply.retry = FALSE \/ reply = Crash
       /\ AfterPaid(todo)

\* What is put in order once a model has charged never reopens the key.
LEMMA PaidBatches ==
  /\ AfterPaid(<<>>)
  /\ AfterPaid(SettleBilling)
  /\ \A c, usd : AfterPaid(JobIf(c, "settleLease", usd))
  /\ \A status, usd : AfterPaid(Row(status, usd, None) \o SettleBilling)
  /\ \A status, usd, st, code : AfterPaid(Row(status, usd, Final(st, code)) \o SettleBilling)
  /\ \A c, d, status, usd :
       AfterPaid(JobIf(c, "settleLease", usd) \o Row(status, usd, None)
                 \o JobIf(d, "settleBilling", usd))
  /\ \A c, d, status, usd, st, code :
       AfterPaid(JobIf(c, "settleLease", usd) \o Row(status, usd, Final(st, code))
                 \o JobIf(d, "settleBilling", usd))
<1>1. AfterPaid(<<>>)  BY OneJob DEF AfterPaid
<1>2. ASSUME NEW s, NEW t, IsSeq(s), IsSeq(t), AfterPaid(s), AfterPaid(t)
      PROVE AfterPaid(s \o t)
  BY <1>2, CatOfJobs DEF AfterPaid
<1>3. ASSUME NEW c, NEW do, NEW usd, do \in {"settleLease", "settleBilling"}
      PROVE AfterPaid(JobIf(c, do, usd)) /\ IsSeq(JobIf(c, do, usd))
  BY <1>3, OneJob DEF AfterPaid
<1>4. ASSUME NEW status, NEW usd, NEW lost, lost = None \/ lost.retry = FALSE
      PROVE AfterPaid(Row(status, usd, lost)) /\ IsSeq(Row(status, usd, lost))
  BY <1>4, OneJob DEF AfterPaid
<1>5. AfterPaid(SettleBilling) /\ IsSeq(SettleBilling)
  BY <1>3 DEF SettleBilling
<1>6. ASSUME NEW st, NEW code PROVE Final(st, code).retry = FALSE
  BY DEF Final, Refuse
<1>7. ASSUME NEW status, NEW usd, NEW lost, lost = None \/ lost.retry = FALSE
      PROVE AfterPaid(Row(status, usd, lost) \o SettleBilling)
  <2>1. AfterPaid(Row(status, usd, lost)) /\ IsSeq(Row(status, usd, lost))  BY <1>4, <1>7
  <2> QED BY <2>1, <1>2, <1>5
<1>8. ASSUME NEW c, NEW d, NEW status, NEW usd, NEW lost, lost = None \/ lost.retry = FALSE
      PROVE AfterPaid(JobIf(c, "settleLease", usd) \o Row(status, usd, lost)
                      \o JobIf(d, "settleBilling", usd))
  <2>1. AfterPaid(Row(status, usd, lost)) /\ IsSeq(Row(status, usd, lost))  BY <1>4, <1>8
  <2>2. /\ AfterPaid(JobIf(c, "settleLease", usd) \o Row(status, usd, lost))
        /\ IsSeq(JobIf(c, "settleLease", usd) \o Row(status, usd, lost))
    BY <2>1, <1>2, <1>3, CatOfJobs
  <2> QED BY <2>2, <1>2, <1>3
<1>9. \A c, usd : AfterPaid(JobIf(c, "settleLease", usd))  BY <1>3
<1>10. \A status, usd : AfterPaid(Row(status, usd, None) \o SettleBilling)  BY <1>7
<1>11. ASSUME NEW status, NEW usd, NEW st, NEW code
       PROVE AfterPaid(Row(status, usd, Final(st, code)) \o SettleBilling)
  BY <1>6, <1>7
<1>12. ASSUME NEW c, NEW d, NEW status, NEW usd
       PROVE AfterPaid(JobIf(c, "settleLease", usd) \o Row(status, usd, None)
                       \o JobIf(d, "settleBilling", usd))
  BY <1>8
<1>13. ASSUME NEW c, NEW d, NEW status, NEW usd, NEW st, NEW code
       PROVE AfterPaid(JobIf(c, "settleLease", usd) \o Row(status, usd, Final(st, code))
                       \o JobIf(d, "settleBilling", usd))
  BY <1>6, <1>8
<1> QED BY <1>1, <1>5, <1>9, <1>10, <1>11, <1>12, <1>13

\* No step reopens the key of a call that was charged for.
LEMMA PaidStep ==
  ASSUME IsSeq(todo), PaidInv, [Next]_vars
  PROVE  PaidInv'
<1>1. ASSUME Debit \/ Book \/ FreeLease \/ FreeHold \/ ReturnHold \/ OperationThrows
     \/ StreamReleaseIsLogged PROVE PaidInv'
  <2>1. UNCHANGED spent /\ todo # <<>>
        /\ Head(todo).do \notin {"settleLease", "audit", "settleBilling"}
    BY <1>1 DEF Debit, Done, Keep, Due, Book, FreeLease, FreeHold, ReturnHold,
         OperationThrows, StreamReleaseIsLogged
  <2>2. spent.model = 0  BY <2>1, TailOfJobs, PaidInv DEF PaidInv, AfterPaid
  <2> QED BY <2>1, <2>2 DEF PaidInv
<1>2. ASSUME SettleLease \/ SettleBillingDone \/ WriteAudit
     \/ OperationIsLogged PROVE PaidInv'
  <2>1. UNCHANGED <<spent, pc, reply>> /\ todo # <<>> /\ todo' = Tail(todo)
    BY <1>2 DEF SettleLease, SettleBillingDone, WriteAudit, OperationIsLogged, Done, Keep,
         Due
  <2>2. AfterPaid(todo) => AfterPaid(todo')  BY <2>1, TailOfJobs DEF AfterPaid
  <2> QED BY <2>1, <2>2 DEF PaidInv
<1>3. ASSUME AuditFails PROVE PaidInv'
  <2>1. /\ UNCHANGED <<spent, pc>> /\ todo # <<>> /\ todo' = Tail(todo)
        /\ Head(todo).do = "audit"
        /\ reply' = reply \/ (Head(todo).lost # None /\ reply' = Head(todo).lost)
    BY <1>3 DEF AuditFails, Keep, Due
  <2>2. AfterPaid(todo) => AfterPaid(todo') /\ (Head(todo).lost = None
       \/ Head(todo).lost.retry = FALSE)  BY <2>1, TailOfJobs DEF AfterPaid
  <2> QED BY <2>1, <2>2 DEF PaidInv
\* Before the model has charged.
<1>4. ASSUME ReserveThrows PROVE PaidInv'
  BY PaidInv, <1>4 DEF ReserveThrows, At, PaidInv
<1>5. ASSUME CheckPause PROVE PaidInv'
  BY PaidInv, <1>5 DEF CheckPause, At, PaidInv
<1>6. ASSUME EvaluateChat PROVE PaidInv'
  BY PaidInv, <1>6 DEF EvaluateChat, At, PaidInv
<1>7. ASSUME LoadHierarchicalPath PROVE PaidInv'
  BY PaidInv, <1>7 DEF LoadHierarchicalPath, At, PaidInv
<1>8. ASSUME ReserveFlatHold PROVE PaidInv'
  BY PaidInv, <1>8 DEF ReserveFlatHold, AcquireCreditHold, At, PaidInv
<1>9. ASSUME ReserveFlatLease PROVE PaidInv'
  BY PaidInv, <1>9 DEF ReserveFlatLease, ReserveBudget, At, PaidInv
<1>10. ASSUME ReserveHierarchical PROVE PaidInv'
  BY PaidInv, <1>10 DEF ReserveHierarchical, At, PaidInv
<1>11. ASSUME ProviderFails PROVE PaidInv'
  BY PaidInv, <1>11 DEF ProviderFails, At, PaidInv
<1>12. ASSUME ProviderFallsBack PROVE PaidInv'
  BY PaidInv, <1>12 DEF ProviderFallsBack, At, PaidInv
<1>13. ASSUME GrowChatHold PROVE PaidInv'
  BY PaidInv, <1>13 DEF GrowChatHold, GrowHold, At, PaidInv
<1>14. ASSUME GrowChatLease PROVE PaidInv'
  BY PaidInv, <1>14 DEF GrowChatLease, GrowLease, At, PaidInv
<1>15. ASSUME GrowChatThrows PROVE PaidInv'
  BY PaidInv, <1>15 DEF GrowChatThrows, GrowThrows, At, PaidInv
<1>16. ASSUME StreamOpens PROVE PaidInv'
  BY PaidInv, <1>16 DEF StreamOpens, At, PaidInv
<1>17. ASSUME StreamReleased PROVE PaidInv'
  BY PaidInv, <1>17 DEF StreamReleased, At, PaidInv
<1>18. ASSUME FirstDelta PROVE PaidInv'
  BY PaidInv, <1>18 DEF FirstDelta, At, PaidInv
<1>19. ASSUME EvaluateEmbeddings PROVE PaidInv'
  BY PaidInv, <1>19 DEF EvaluateEmbeddings, At, PaidInv
<1>20. ASSUME ScreenEmbeddings PROVE PaidInv'
  BY PaidInv, <1>20 DEF ScreenEmbeddings, At, PaidInv
<1>21. ASSUME ReserveEmbeddingHold PROVE PaidInv'
  BY PaidInv, <1>21 DEF ReserveEmbeddingHold, AcquireCreditHold, At, PaidInv
<1>22. ASSUME ReserveEmbeddingLease PROVE PaidInv'
  BY PaidInv, <1>22 DEF ReserveEmbeddingLease, ReserveBudget, At, PaidInv
<1>23. ASSUME EmbeddingFails PROVE PaidInv'
  BY PaidInv, <1>23 DEF EmbeddingFails, At, PaidInv
<1>24. ASSUME EmbeddingFallsBack PROVE PaidInv'
  BY PaidInv, <1>24 DEF EmbeddingFallsBack, At, PaidInv
<1>25. ASSUME GrowEmbeddingHold PROVE PaidInv'
  BY PaidInv, <1>25 DEF GrowEmbeddingHold, GrowHold, At, PaidInv
<1>26. ASSUME GrowEmbeddingLease PROVE PaidInv'
  BY PaidInv, <1>26 DEF GrowEmbeddingLease, GrowLease, At, PaidInv
<1>27. ASSUME GrowEmbeddingThrows PROVE PaidInv'
  BY PaidInv, <1>27 DEF GrowEmbeddingThrows, GrowThrows, At, PaidInv
<1>28. ASSUME EvaluateDocument PROVE PaidInv'
  BY PaidInv, <1>28 DEF EvaluateDocument, At, PaidInv
<1>29. ASSUME ReserveDocumentHold PROVE PaidInv'
  BY PaidInv, <1>29 DEF ReserveDocumentHold, AcquireCreditHold, At, PaidInv
<1>30. ASSUME ReserveDocumentLease PROVE PaidInv'
  BY PaidInv, <1>30 DEF ReserveDocumentLease, ReserveBudget, At, PaidInv
<1>31. ASSUME ExtractFails PROVE PaidInv'
  BY PaidInv, <1>31 DEF ExtractFails, At, PaidInv
<1>32. ASSUME ScreenContext PROVE PaidInv'
  <2>1. pc \notin {"answer", "reply"} /\ \E r : Inspected(r) \/ UNCHANGED spent
    BY <1>32 DEF ScreenContext, At
  <2> QED BY <2>1, PaidInv DEF PaidInv, Inspected
<1>33. ASSUME RunInputSafety PROVE PaidInv'
  <2>1. pc \notin {"answer", "reply"} /\ \E r : Inspected(r) \/ UNCHANGED spent
    BY <1>33 DEF RunInputSafety, At
  <2> QED BY <2>1, PaidInv DEF PaidInv, Inspected
\* The model has charged.
<1>34. ASSUME ProviderAnswers PROVE PaidInv'
  <2>1. DOMAIN spent' = DOMAIN spent
    BY <1>34 DEF ProviderAnswers, ModelRan
  <2>2. pc' = "answer" /\ AfterPaid(todo')
    BY <1>34, PaidBatches DEF ProviderAnswers, ModelRan, Answer, Final, Refuse
  <2> QED BY <2>1, <2>2, PaidInv DEF PaidInv
<1>35. ASSUME ExtractAnswers PROVE PaidInv'
  <2>1. DOMAIN spent' = DOMAIN spent
    BY <1>35 DEF ExtractAnswers
  <2>2. pc' = "answer" /\ AfterPaid(todo')
    BY <1>35, PaidBatches DEF ExtractAnswers, Answer, Final, Refuse
  <2> QED BY <2>1, <2>2, PaidInv DEF PaidInv
<1>36. ASSUME EmbeddingAnswers PROVE PaidInv'
  <2>1. DOMAIN spent' = DOMAIN spent
    BY <1>36 DEF EmbeddingAnswers, ModelRan
  <2>2. pc' = "reply" /\ reply'.retry = FALSE /\ AfterPaid(todo')
    BY <1>36, PaidBatches DEF EmbeddingAnswers, ModelRan, Answer, Final, Refuse
  <2> QED BY <2>1, <2>2, PaidInv DEF PaidInv
<1>37. ASSUME StreamEnds PROVE PaidInv'
  <2>1. DOMAIN spent' = DOMAIN spent
    BY <1>37 DEF StreamEnds, SettleStream
  <2>2. pc' = "reply" /\ reply'.retry = FALSE /\ AfterPaid(todo')
    BY <1>37, PaidBatches DEF StreamEnds, SettleStream, Answer, Final, Refuse
  <2> QED BY <2>1, <2>2, PaidInv DEF PaidInv
<1>38. ASSUME StreamCut PROVE PaidInv'
  <2>1. DOMAIN spent' = DOMAIN spent
    BY <1>38 DEF StreamCut, SettleStream
  <2>2. pc' = "reply" /\ reply'.retry = FALSE /\ AfterPaid(todo')
    BY <1>38, PaidBatches DEF StreamCut, SettleStream, Answer, Final, Refuse
  <2> QED BY <2>1, <2>2, PaidInv DEF PaidInv
<1>39. ASSUME ScreenAnswer PROVE PaidInv'
  <2> DEFINE Over == /\ pc' = "reply" /\ AfterPaid(todo')
                     /\ reply'.retry = FALSE \/ reply' = Crash
  <2>1. AnswerBlocked \/ AnswerUnscreened \/ AnswerLost \/ \E r : AnswerServed(r)
    BY <1>39, Endings
  <2>2. ASSUME AnswerBlocked PROVE Over
    BY <2>2, PaidBatches DEF AnswerBlocked, Answer, Final, Refuse, Crash
  <2>3. ASSUME AnswerUnscreened PROVE Over
    BY <2>3, PaidBatches DEF AnswerUnscreened, Answer, Final, Refuse, Crash
  <2>4. ASSUME AnswerLost PROVE Over
    BY <2>4, PaidBatches DEF AnswerLost, Answer, Final, Refuse, Crash
  <2>5. ASSUME NEW r, AnswerServed(r) PROVE Over
    BY <2>5, PaidBatches DEF AnswerServed, Answer, Final, Refuse, Crash
  <2>6. UNCHANGED spent  BY <1>39 DEF ScreenAnswer
  <2>7. Over  BY <2>1, <2>2, <2>3, <2>4, <2>5
  <2> QED BY <2>6, <2>7, PaidInv DEF PaidInv
<1>40. ASSUME ScreenDocument PROVE PaidInv'
  <2> DEFINE Over == /\ pc' = "reply" /\ AfterPaid(todo')
                     /\ reply'.retry = FALSE \/ reply' = Crash
  <2>1. DocumentBlocked \/ DocumentUnscreened \/ DocumentLost \/ \E r : DocumentServed(r)
    BY <1>40, Endings
  <2>2. ASSUME DocumentBlocked PROVE Over
    BY <2>2, PaidBatches DEF DocumentBlocked, Answer, Final, Refuse, Crash
  <2>3. ASSUME DocumentUnscreened PROVE Over
    BY <2>3, PaidBatches DEF DocumentUnscreened, Answer, Final, Refuse, Crash
  <2>4. ASSUME DocumentLost PROVE Over
    BY <2>4, PaidBatches DEF DocumentLost, Answer, Final, Refuse, Crash
  <2>5. ASSUME NEW r, DocumentServed(r) PROVE Over
    BY <2>5, PaidBatches DEF DocumentServed, Answer, Final, Refuse, Crash
  <2>6. UNCHANGED spent  BY <1>40 DEF ScreenDocument
  <2>7. Over  BY <2>1, <2>2, <2>3, <2>4, <2>5
  <2> QED BY <2>6, <2>7, PaidInv DEF PaidInv
<1>41. ASSUME UNCHANGED vars PROVE PaidInv'
  BY <1>41 DEF vars, PaidInv
<1> QED BY <1>1, <1>2, <1>3, <1>4, <1>5, <1>6, <1>7, <1>8, <1>9, <1>10, <1>11, <1>12,
     <1>13, <1>14, <1>15, <1>16, <1>17, <1>18, <1>19, <1>20, <1>21, <1>22, <1>23, <1>24,
     <1>25, <1>26, <1>27, <1>28, <1>29, <1>30, <1>31, <1>32, <1>33, <1>34, <1>35, <1>36,
     <1>37, <1>38, <1>39, <1>40, <1>41 DEF Next, LedgerNext, ChatNext, EmbeddingsNext,
     DocumentsNext

\* A call whose reply lets the idempotency layer run it again was not charged by
\* a model, whatever the deployment, the answers of the backends and the failures;
\* an error thrown past the handler is the one exception.
THEOREM RetryCostsNothing == Spec => []RetryIsFree
<1>1. CallInit => IsSeq(todo) /\ PaidInv
  BY OneJob DEF CallInit, PaidInv
<1>2. IsSeq(todo) /\ PaidInv /\ [Next]_vars => IsSeq(todo)' /\ PaidInv'
  BY TodoStep, PaidStep
<1>3. PaidInv => RetryIsFree
  BY DEF PaidInv, RetryIsFree, Finished, Crashed
<1> QED BY <1>1, <1>2, <1>3, PTL DEF Spec

(***************************************************************************)
(* Whom the text of a feature may reach.                                   *)
(***************************************************************************)

\* Every set of naturals that is not empty has a least element; so a bounded
\* one has a greatest.
LEMMA LeastNumber ==
  ASSUME NEW T, T \subseteq Nat, T # {}
  PROVE  \E x \in T : \A y \in T : x <= y
<1> DEFINE R == {ss \in Nat \X Nat : ss[1] < ss[2]}
<1>1. IsWellFoundedOn(R, Nat)
  BY NatLessThanWellFounded DEF OpToRel
<1> HIDE DEF R
<1>2. PICK x \in T : \A y \in T : <<y, x>> \notin R
  BY <1>1, WFMin
<1>3. \A y \in T : <<y, x>> \notin R => x <= y
  BY DEF R
<1> QED BY <1>2, <1>3

\* A set of numbers up to a bound has a greatest.
LEMMA GreatestNumber ==
  ASSUME NEW n \in Nat, NEW T, T \subseteq 1 .. n, T # {}
  PROVE  Max(T) \in T
<1> DEFINE D == {n - x : x \in T}
<1>1. PICK d \in D : \A e \in D : d <= e
  <2>1. D \subseteq Nat  OBVIOUS
  <2>2. D # {}  OBVIOUS
  <2> HIDE DEF D
  <2> QED BY <2>1, <2>2, LeastNumber
<1>2. PICK x \in T : d = n - x  BY <1>1
<1>3. \A y \in T : x >= y
  <2> SUFFICES ASSUME NEW y \in T PROVE x >= y  OBVIOUS
  <2>1. d <= n - y  BY <1>1
  <2> QED BY <2>1, <1>2
<1> QED BY <1>3 DEF Max

\* The names a request uses are defined in the configuration.
Defined(config, request) ==
  /\ request.feature \in DOMAIN config.features
  /\ request.userType = config.userType
  /\ RequestedClass(config, request) \in DOMAIN config.models

\* nextPermittedCheaperClass never leaves the classes of the user's type.
LEMMA CheaperIsPermitted ==
  ASSUME NEW c \in Calls, NEW class,
         NextPermittedCheaperClass(class, c.config.permitted, c.config) # None
  PROVE  NextPermittedCheaperClass(class, c.config.permitted, c.config)
           \in c.config.permitted \cap DOMAIN c.config.models
<1> DEFINE order == IF c.config.order = None THEN ClassTiers ELSE c.config.order
           at    == {i \in DOMAIN order : order[i] = class}
           below == {j \in DOMAIN order :
                       /\ at # {} /\ j < Min(at)
                       /\ order[j] \in c.config.permitted \cap DOMAIN c.config.models}
<1>1. NextPermittedCheaperClass(class, c.config.permitted, c.config) =
        IF below = {} THEN None ELSE order[Max(below)]
  BY DEF NextPermittedCheaperClass
<1>2. PICK n \in Nat : DOMAIN order = 1 .. n
  <2>1. CASE c.config.order = None
    <3>1. DOMAIN ClassTiers = 1 .. 3  BY DEF ClassTiers
    <3> QED BY <2>1, <3>1
  <2>2. CASE c.config.order # None
    <3>1. c.config.order \in Seq(DOMAIN c.config.models)  BY <2>2, LoadedCalls
    <3> QED BY <2>2, <3>1
  <2> QED BY <2>1, <2>2
<1>3. below # {}  BY <1>1
<1>4. below \subseteq 1 .. n  BY <1>2
<1>5. \A j \in below : order[j] \in c.config.permitted \cap DOMAIN c.config.models  OBVIOUS
<1> HIDE DEF below, order
<1>6. Max(below) \in below  BY <1>3, <1>4, GreatestNumber
<1> QED BY <1>1, <1>3, <1>5, <1>6

\* A decision that is neither an error nor a block names a class of the user's
\* type and a provider the data class of the feature approves, at its price; a
\* fallback does so when the class asked for was permitted in the first place.
LEMMA DecisionIsApproved ==
  ASSUME NEW c \in Calls, NEW request, NEW usage, NEW tokens, NEW force \in BOOLEAN,
         LET d == EvaluateAiRequest(c.config, request, usage, tokens, force)
         IN d.kind # "error" /\ d.kind # "block",
         force => /\ Defined(c.config, request)
                  /\ RequestedClass(c.config, request) \in c.config.permitted
  PROVE  LET d == EvaluateAiRequest(c.config, request, usage, tokens, force)
         IN /\ Defined(c.config, request)
            /\ RequestedClass(c.config, request) \in c.config.permitted
            /\ d.class \in c.config.permitted
            /\ DataAllows(c.config, c.config.features[request.feature], d.class,
                          ProviderOf[d.model])
            /\ d.model \in Models
            /\ d.estimate = EstimateForModel(c.config, d.model, tokens)
<1> DEFINE d         == EvaluateAiRequest(c.config, request, usage, tokens, force)
           requested == RequestedClass(c.config, request)
           feature   == c.config.features[request.feature]
           class     == EffectiveClass(c.config, requested, usage)
           model     == ResolveModel(c.config, class, force)
           estimate  == EstimateForModel(c.config, model, tokens)
           Block(code, in) == Decision(c.config, "block", code, in, FALSE, tokens)
<1>1. Defined(c.config, request)
  BY DEF EvaluateAiRequest, Defined
<1>2. \A code, in : Block(code, in).kind = "block"
  BY DEF Decision
<1>3. d = IF ~force /\ requested \notin c.config.permitted
          THEN Block("model_class_not_permitted", requested)
          ELSE IF ~DataAllows(c.config, feature, class, ProviderOf[model])
          THEN Block("data_sensitivity_not_permitted", class)
          ELSE IF force THEN Decision(c.config, "fallback", None, class, TRUE, tokens)
          ELSE IF Breaches(c.config, usage, estimate, tokens) THEN Block("budget", class)
          ELSE Decision(c.config, IF class = requested THEN "allow" ELSE "degrade",
                        None, class, FALSE, tokens)
  BY <1>1 DEF EvaluateAiRequest, Defined
<1>4. /\ requested \in c.config.permitted
      /\ DataAllows(c.config, feature, class, ProviderOf[model])
      /\ d = Decision(c.config, d.kind, None, class, force, tokens)
  <2>1. ~(~force /\ requested \notin c.config.permitted)  BY <1>2, <1>3
  <2>2. DataAllows(c.config, feature, class, ProviderOf[model])  BY <1>2, <1>3, <2>1
  <2>3. CASE force
    <3>1. d = Decision(c.config, "fallback", None, class, TRUE, tokens)
      BY <1>3, <2>1, <2>2, <2>3
    <3>2. d.kind = "fallback"  BY <3>1 DEF Decision
    <3> QED BY <2>1, <2>2, <2>3, <3>1, <3>2
  <2>4. CASE ~force
    <3>1. ~Breaches(c.config, usage, estimate, tokens)  BY <1>2, <1>3, <2>1, <2>2, <2>4
    <3>2. d = Decision(c.config, IF class = requested THEN "allow" ELSE "degrade",
                       None, class, FALSE, tokens)
      BY <1>3, <2>1, <2>2, <2>4, <3>1
    <3>3. d.kind = IF class = requested THEN "allow" ELSE "degrade"  BY <3>2 DEF Decision
    <3> QED BY <2>1, <2>2, <2>4, <3>2, <3>3
  <2> QED BY <2>3, <2>4
<1>5. d.class = class /\ d.model = model /\ d.estimate = estimate
  BY <1>4 DEF Decision
<1>6. class \in c.config.permitted /\ class \in DOMAIN c.config.models
  <2>1. requested \in DOMAIN c.config.models  BY <1>1 DEF Defined
  <2> QED BY <1>4, <2>1, CheaperIsPermitted DEF EffectiveClass
<1>7. model \in Models
  <2>1. c.config.models[class] \in Range(c.config.models)  BY <1>6 DEF Range
  <2>2. /\ c.config.models[class].primary \in Models
        /\ c.config.models[class].fallback \in Models \union {None}
    BY <2>1, LoadedCalls
  <2> QED BY <2>2 DEF ResolveModel
<1> QED BY <1>1, <1>4, <1>5, <1>6, <1>7

\* A guard that shows the text to its classifier has one and was asked to.
LEMMA ClassifierAsked ==
  ASSUME NEW guard, NEW pl, NEW tx, NEW image, NEW scan \in Scans, NEW verdict \in Verdicts,
         InspectInput(guard, pl, tx, image, scan, verdict).shown # None
  PROVE  pl.injection = "block" /\ guard.classifier # None
<1>1. ScreenText(guard, pl, tx, scan).action \in {"allow", "block", "unavailable", "crash"}
  BY DEF ScreenText, Scans
<1> HIDE DEF Scans, Verdicts
<1> QED BY <1>1 DEF InspectInput, Verdicts

\* Once a call is past its decision, and until its reply.
Decided == pc \notin {"pause", "evaluate", "reply"} /\ ~IsDocument

ClassifierApproved(s) ==
  s[2] = "classifier" /\ Feature.dataClass # None =>
    LET allowed == call.config.dataClasses[Feature.dataClass].providers
    IN allowed = None \/ s[1] \in allowed \union LocalProviders

ApprovedInv ==
  /\ call \in Calls /\ plan = ResolveSafetyPlan(call.config, Feature)
  /\ pc \in {"path", "screen", "guard"} => ~IsDocument
  /\ Decided =>
       /\ Defined(call.config, call.request)
       /\ RequestedClass(call.config, call.request) \in call.config.permitted
       /\ decision.class \in call.config.permitted
       /\ DataAllows(call.config, Feature, decision.class, ProviderOf[decision.model])
  /\ \A s \in shown : ClassifierApproved(s)

\* A step that takes no decision and asks no classifier.
Quiet ==
  /\ UNCHANGED <<call, plan, decision>>
  /\ \A s \in shown' : s \in shown \/ s[2] # "classifier"
  /\ \/ pc' = pc \/ pc' \in {"reply", "evaluate"}
     \/ /\ pc \notin {"pause", "evaluate", "reply"}
        /\ pc' \in {"path", "screen", "guard"} => pc \in {"path", "screen", "guard"}

\* Such a step shows the text to nobody new but the model decided on.
LEMMA QuietStep ==
  ASSUME ApprovedInv, Quiet
  PROVE  ApprovedInv'
<1>1. call' \in Calls /\ plan' = ResolveSafetyPlan(call'.config, Feature') /\ Feature' = Feature
  BY DEF ApprovedInv, Quiet, Feature
<1>2. pc' \in {"path", "screen", "guard"} => ~IsDocument'
  BY DEF ApprovedInv, Quiet, IsDocument
<1>3. Decided' => Decided
  BY DEF Quiet, Decided, IsDocument
<1>4. \A s \in shown' : ClassifierApproved(s)'
  BY <1>1 DEF ApprovedInv, Quiet, ClassifierApproved
<1> QED
  BY <1>1, <1>2, <1>3, <1>4 DEF ApprovedInv, Quiet

\* What a run of the guard over a text of the call shows to whom.
LEMMA AskedIsApproved ==
  ASSUME ApprovedInv, Defined(call.config, call.request), plan.injection = "block",
         call.guard.classifier # None, NEW given
  PROVE  ClassifierApproved(<<ProviderOf[call.guard.classifier], "classifier", given>>)
<1> DEFINE p == ProviderOf[call.guard.classifier]
<1>1. ValidConfig(call.config) /\ call.guard.classifier = call.config.safety.injectionModel
  BY LoadedCalls DEF ApprovedInv
<1>2. Feature \in Range(call.config.features)
  BY DEF Defined, Feature, Range
<1>3. InjectionModelAllowed(call.config, Feature)
  BY <1>1, <1>2 DEF ValidConfig
<1>4. plan = ResolveSafetyPlan(call.config, Feature)
  BY DEF ApprovedInv
<1> QED BY <1>1, <1>3, <1>4 DEF InjectionModelAllowed, ClassifierApproved

\* A run of the guard shows the text to the classifier the policy allows.
LEMMA InspectionIsApproved ==
  ASSUME ApprovedInv, Decided, NEW r, Inspected(r), UNCHANGED <<call, plan, decision>>,
         pc \in {"screen", "guard"},
         r.shown # None => plan.injection = "block" /\ call.guard.classifier # None
  PROVE  ApprovedInv'
<1>1. Defined(call.config, call.request)
  BY DEF ApprovedInv
<1>2. \A s \in shown' : ClassifierApproved(s)
  BY <1>1, AskedIsApproved DEF ApprovedInv, Inspected
<1>3. /\ \A s : ClassifierApproved(s)' <=> ClassifierApproved(s)
      /\ IsDocument' <=> IsDocument
      /\ Feature' = Feature
  BY DEF ClassifierApproved, Feature, IsDocument
<1> QED BY <1>2, <1>3 DEF ApprovedInv, Decided

\* A decision that goes on names an approved provider.
LEMMA DecisionStep ==
  ASSUME ApprovedInv, UNCHANGED <<call, plan, shown>>,
         pc' \in {"path", "screen", "guard"} => ~IsDocument,
         pc' # "reply" /\ ~IsDocument =>
           /\ Defined(call.config, call.request)
           /\ RequestedClass(call.config, call.request) \in call.config.permitted
           /\ decision'.class \in call.config.permitted
           /\ DataAllows(call.config, Feature, decision'.class, ProviderOf[decision'.model])
  PROVE  ApprovedInv'
<1>1. /\ \A s : ClassifierApproved(s)' <=> ClassifierApproved(s)
      /\ IsDocument' <=> IsDocument
      /\ Feature' = Feature
  BY DEF ClassifierApproved, Feature, IsDocument
<1> QED BY <1>1 DEF ApprovedInv, Decided

\* So does the decision for a fallback.
LEMMA FallbackStep ==
  ASSUME ApprovedInv, Decided, UNCHANGED <<call, plan>>,
         \A s \in shown' : s \in shown \/ s[2] # "classifier",
         pc' \notin {"path", "screen", "guard"},
         decision'.class \in call.config.permitted,
         DataAllows(call.config, Feature, decision'.class, ProviderOf[decision'.model])
  PROVE  ApprovedInv'
<1>1. /\ \A s : ClassifierApproved(s)' <=> ClassifierApproved(s)
      /\ IsDocument' <=> IsDocument
      /\ Feature' = Feature
  BY DEF ClassifierApproved, Feature, IsDocument
<1>2. \A s : s[2] # "classifier" => ClassifierApproved(s)
  BY DEF ClassifierApproved
<1> QED BY <1>1, <1>2 DEF ApprovedInv, Decided

\* Asked for a fallback, the policy knows what it knew before.
LEMMA ForcedIsNoError ==
  ASSUME NEW config, NEW request, NEW usage, NEW tokens, Defined(config, request)
  PROVE  EvaluateAiRequest(config, request, usage, tokens, TRUE).kind # "error"
BY DEF EvaluateAiRequest, Defined, Decision

\* No step takes the text where the policy does not allow it.
LEMMA ApprovedStep ==
  ASSUME ApprovedInv, [Next]_vars
  PROVE  ApprovedInv'
\* Steps that take no decision and ask no classifier.
<1>1. ASSUME Debit \/ Book \/ FreeLease \/ FreeHold \/ ReturnHold \/ SettleLease
     \/ SettleBillingDone \/ WriteAudit PROVE ApprovedInv'
  BY <1>1, QuietStep DEF Debit, Done, Keep, Book, FreeLease, FreeHold, ReturnHold,
       SettleLease, SettleBillingDone, WriteAudit, Quiet, Answer
<1>2. ASSUME OperationThrows \/ ReserveThrows \/ OperationIsLogged
     \/ StreamReleaseIsLogged \/ AuditFails \/ CheckPause PROVE ApprovedInv'
  BY <1>2, QuietStep DEF OperationThrows, ReserveThrows, At, OperationIsLogged, Keep,
       StreamReleaseIsLogged, AuditFails, CheckPause, Quiet, Answer
<1>3. ASSUME ReserveFlatHold PROVE ApprovedInv'
  BY <1>3, QuietStep DEF ReserveFlatHold, AcquireCreditHold, At, Quiet, Answer
<1>4. ASSUME ReserveFlatLease PROVE ApprovedInv'
  BY <1>4, QuietStep DEF ReserveFlatLease, ReserveBudget, At, Quiet, Answer
<1>5. ASSUME ReserveHierarchical PROVE ApprovedInv'
  BY <1>5, QuietStep DEF ReserveHierarchical, At, Quiet, Answer
<1>6. ASSUME ProviderAnswers PROVE ApprovedInv'
  BY <1>6, QuietStep DEF ProviderAnswers, At, ModelRan, Quiet, Answer
<1>7. ASSUME ProviderFails PROVE ApprovedInv'
  BY <1>7, QuietStep DEF ProviderFails, At, Quiet, Answer
<1>8. ASSUME GrowChatHold PROVE ApprovedInv'
  BY <1>8, QuietStep DEF GrowChatHold, GrowHold, At, Quiet, Answer
<1>9. ASSUME GrowChatLease PROVE ApprovedInv'
  BY <1>9, QuietStep DEF GrowChatLease, GrowLease, At, Quiet, Answer
<1>10. ASSUME GrowChatThrows PROVE ApprovedInv'
  BY <1>10, QuietStep DEF GrowChatThrows, GrowThrows, At, Quiet, Answer
<1>11. ASSUME StreamOpens PROVE ApprovedInv'
  BY <1>11, QuietStep DEF StreamOpens, At, Quiet, Answer
<1>12. ASSUME StreamReleased PROVE ApprovedInv'
  BY <1>12, QuietStep DEF StreamReleased, At, Quiet, Answer
<1>13. ASSUME FirstDelta PROVE ApprovedInv'
  BY <1>13, QuietStep DEF FirstDelta, At, Quiet, Answer
<1>14. ASSUME StreamEnds PROVE ApprovedInv'
  BY <1>14, QuietStep DEF StreamEnds, At, SettleStream, Quiet, Answer
<1>15. ASSUME StreamCut PROVE ApprovedInv'
  BY <1>15, QuietStep DEF StreamCut, At, SettleStream, Quiet, Answer
<1>16. ASSUME ScreenEmbeddings PROVE ApprovedInv'
  BY <1>16, QuietStep DEF ScreenEmbeddings, At, Quiet, Answer
<1>17. ASSUME ReserveEmbeddingHold PROVE ApprovedInv'
  BY <1>17, QuietStep DEF ReserveEmbeddingHold, AcquireCreditHold, At, Quiet, Answer
<1>18. ASSUME ReserveEmbeddingLease PROVE ApprovedInv'
  BY <1>18, QuietStep DEF ReserveEmbeddingLease, ReserveBudget, At, Quiet, Answer
<1>19. ASSUME EmbeddingAnswers PROVE ApprovedInv'
  BY <1>19, QuietStep DEF EmbeddingAnswers, At, ModelRan, Quiet, Answer
<1>20. ASSUME EmbeddingFails PROVE ApprovedInv'
  BY <1>20, QuietStep DEF EmbeddingFails, At, Quiet, Answer
<1>21. ASSUME GrowEmbeddingHold PROVE ApprovedInv'
  BY <1>21, QuietStep DEF GrowEmbeddingHold, GrowHold, At, Quiet, Answer
<1>22. ASSUME GrowEmbeddingLease PROVE ApprovedInv'
  BY <1>22, QuietStep DEF GrowEmbeddingLease, GrowLease, At, Quiet, Answer
<1>23. ASSUME GrowEmbeddingThrows PROVE ApprovedInv'
  BY <1>23, QuietStep DEF GrowEmbeddingThrows, GrowThrows, At, Quiet, Answer
<1>24. ASSUME ReserveDocumentHold PROVE ApprovedInv'
  BY <1>24, QuietStep DEF ReserveDocumentHold, AcquireCreditHold, At, Quiet, Answer
<1>25. ASSUME ReserveDocumentLease PROVE ApprovedInv'
  BY <1>25, QuietStep DEF ReserveDocumentLease, ReserveBudget, At, Quiet, Answer
<1>26. ASSUME ExtractAnswers PROVE ApprovedInv'
  BY <1>26, QuietStep DEF ExtractAnswers, At, Quiet, Answer
<1>27. ASSUME ExtractFails PROVE ApprovedInv'
  BY <1>27, QuietStep DEF ExtractFails, At, Quiet, Answer
<1>28. ASSUME LoadHierarchicalPath PROVE ApprovedInv'
  BY <1>28, QuietStep DEF LoadHierarchicalPath, At, Following, PathOrder, FlatOrder, Quiet,
       Answer
<1>29. ASSUME ScreenAnswer PROVE ApprovedInv'
  <2>1. AnswerBlocked \/ AnswerUnscreened \/ AnswerLost \/ \E r : AnswerServed(r)
    BY <1>29, Endings
  <2>2. pc' = "reply"
    BY <2>1 DEF AnswerBlocked, AnswerUnscreened, AnswerLost, AnswerServed, Answer
  <2>3. UNCHANGED <<call, plan, decision, shown>>
    BY <1>29 DEF ScreenAnswer
  <2> QED BY <2>2, <2>3, QuietStep DEF Quiet
<1>30. ASSUME ScreenDocument PROVE ApprovedInv'
  <2>1. DocumentBlocked \/ DocumentUnscreened \/ DocumentLost \/ \E r : DocumentServed(r)
    BY <1>30, Endings
  <2>2. pc' = "reply"
    BY <2>1 DEF DocumentBlocked, DocumentUnscreened, DocumentLost, DocumentServed, Answer
  <2>3. UNCHANGED <<call, plan, decision, shown>>
    BY <1>30 DEF ScreenDocument
  <2> QED BY <2>2, <2>3, QuietStep DEF Quiet
\* Steps that decide.
<1>31. ASSUME EvaluateChat PROVE ApprovedInv'
  <2> DEFINE d == ChatDecision(FALSE)
  <2>1. UNCHANGED <<call, plan, shown>> /\ decision' = d
    BY <1>31 DEF EvaluateChat
  <2>2. ~IsDocument /\ call \in Calls
    BY <1>31 DEF EvaluateChat, ApprovedInv, IsChat, IsDocument, IsStream, Hierarchical
  <2>3. pc' # "reply" => d.kind # "error" /\ d.kind # "block"
    BY <1>31 DEF EvaluateChat, Answer
  <2>4. d.kind # "error" /\ d.kind # "block" =>
          /\ Defined(call.config, call.request)
          /\ RequestedClass(call.config, call.request) \in call.config.permitted
          /\ d.class \in call.config.permitted
          /\ DataAllows(call.config, Feature, d.class, ProviderOf[d.model])
    BY <2>2, DecisionIsApproved DEF ChatDecision, EmbeddingDecision, Req, Feature
  <2> HIDE DEF d
  <2> QED BY <2>1, <2>2, <2>3, <2>4, DecisionStep
<1>32. ASSUME EvaluateEmbeddings PROVE ApprovedInv'
  <2> DEFINE d == EmbeddingDecision(FALSE)
  <2>1. UNCHANGED <<call, plan, shown>> /\ decision' = d
    BY <1>32 DEF EvaluateEmbeddings
  <2>2. ~IsDocument /\ call \in Calls
    BY <1>32 DEF EvaluateEmbeddings, ApprovedInv, IsEmbeddings, IsDocument
  <2>3. pc' # "reply" => d.kind # "error" /\ d.kind # "block"
    BY <1>32 DEF EvaluateEmbeddings, Answer
  <2>4. d.kind # "error" /\ d.kind # "block" =>
          /\ Defined(call.config, call.request)
          /\ RequestedClass(call.config, call.request) \in call.config.permitted
          /\ d.class \in call.config.permitted
          /\ DataAllows(call.config, Feature, d.class, ProviderOf[d.model])
    BY <2>2, DecisionIsApproved DEF ChatDecision, EmbeddingDecision, Req, Feature
  <2> HIDE DEF d
  <2> QED BY <2>1, <2>2, <2>3, <2>4, DecisionStep
<1>33. ASSUME EvaluateDocument PROVE ApprovedInv'
  <2>1. UNCHANGED <<call, plan, shown>> /\ IsDocument /\ pc' \in {"reply", "hold"}
    BY <1>33 DEF EvaluateDocument, Answer
  <2> QED BY <2>1, DecisionStep
<1>34. ASSUME ProviderFallsBack PROVE ApprovedInv'
  <2> DEFINE d == ChatDecision(TRUE)
  <2>1. /\ UNCHANGED <<call, plan>> /\ pc = "call" /\ ~IsDocument
        /\ \A s \in shown' : s \in shown \/ s[2] # "classifier"
    BY <1>34 DEF ProviderFallsBack, At, IsDocument, IsEmbeddings
  <2>2. CASE d.kind = "block"
    <3>1. pc' = "reply" /\ UNCHANGED decision  BY <1>34, <2>2 DEF ProviderFallsBack, Answer
    <3> HIDE DEF d
    <3> QED BY <2>1, <3>1, QuietStep DEF Quiet
  <2>3. CASE d.kind # "block"
    <3>1. pc' \in {"grow_hold", "call_fallback"} /\ decision' = d  BY <1>34, <2>3
         DEF ProviderFallsBack
    <3>2. /\ Defined(call.config, call.request)
          /\ RequestedClass(call.config, call.request) \in call.config.permitted
          /\ call \in Calls
      BY <2>1 DEF ApprovedInv, Decided
    <3>3. d.kind # "error"
      BY <3>2, ForcedIsNoError DEF ChatDecision, EmbeddingDecision, Req
    <3>4. /\ d.class \in call.config.permitted
          /\ DataAllows(call.config, Feature, d.class, ProviderOf[d.model])
      BY <3>2, <3>3, <2>3, DecisionIsApproved DEF ChatDecision, EmbeddingDecision, Req,
           Feature
    <3> HIDE DEF d
    <3> QED BY <2>1, <3>1, <3>2, <3>4, FallbackStep DEF Decided
  <2> QED BY <2>2, <2>3
<1>35. ASSUME EmbeddingFallsBack PROVE ApprovedInv'
  <2> DEFINE d == EmbeddingDecision(TRUE)
  <2>1. /\ UNCHANGED <<call, plan>> /\ pc = "call" /\ ~IsDocument
        /\ \A s \in shown' : s \in shown \/ s[2] # "classifier"
    BY <1>35 DEF EmbeddingFallsBack, At, IsDocument, IsEmbeddings
  <2>2. CASE d.kind = "block"
    <3>1. pc' = "reply" /\ UNCHANGED decision  BY <1>35, <2>2 DEF EmbeddingFallsBack, Answer
    <3> HIDE DEF d
    <3> QED BY <2>1, <3>1, QuietStep DEF Quiet
  <2>3. CASE d.kind # "block"
    <3>1. pc' \in {"grow_hold", "call_fallback"} /\ decision' = d  BY <1>35, <2>3
         DEF EmbeddingFallsBack
    <3>2. /\ Defined(call.config, call.request)
          /\ RequestedClass(call.config, call.request) \in call.config.permitted
          /\ call \in Calls
      BY <2>1 DEF ApprovedInv, Decided
    <3>3. d.kind # "error"
      BY <3>2, ForcedIsNoError DEF ChatDecision, EmbeddingDecision, Req
    <3>4. /\ d.class \in call.config.permitted
          /\ DataAllows(call.config, Feature, d.class, ProviderOf[d.model])
      BY <3>2, <3>3, <2>3, DecisionIsApproved DEF ChatDecision, EmbeddingDecision, Req,
           Feature
    <3> HIDE DEF d
    <3> QED BY <2>1, <3>1, <3>2, <3>4, FallbackStep DEF Decided
  <2> QED BY <2>2, <2>3
\* Steps that may ask the classifier.
<1>36. ASSUME ScreenContext PROVE ApprovedInv'
  <2>1. /\ UNCHANGED <<call, plan, decision>> /\ pc = "screen"
        /\ pc' \in {"reply", "guard"}
    BY <1>36 DEF ScreenContext, At, Answer, Following, PathOrder, FlatOrder
  <2>2. CASE UNCHANGED shown  BY <2>1, <2>2, QuietStep DEF Quiet
  <2>3. CASE shown' # shown
    <3>1. PICK verdict \in Verdicts :
            /\ plan.injection = "block"
            /\ Inspected(InspectInput(call.guard, ContextPlan, Req.context.text, FALSE, "up",
                                      verdict))
      BY <1>36, <2>3 DEF ScreenContext
    <3> DEFINE r == InspectInput(call.guard, ContextPlan, Req.context.text, FALSE, "up",
                                 verdict)
    <3>2. r.shown # None => call.guard.classifier # None
      BY ClassifierAsked DEF Scans
    <3>3. Inspected(r)  BY <3>1
    <3>4. Decided  BY <2>1 DEF ApprovedInv, Decided
    <3> HIDE DEF r
    <3> QED BY <2>1, <3>1, <3>2, <3>3, <3>4, InspectionIsApproved
  <2> QED BY <2>2, <2>3
<1>37. ASSUME RunInputSafety PROVE ApprovedInv'
  <2>1. UNCHANGED <<call, plan, decision>> /\ pc = "guard"
    BY <1>37 DEF RunInputSafety, At
  <2>2. PICK verdict \in Verdicts, scan \in Scans :
          /\ Inspected(InspectInput(call.guard, plan, text, Req.image, scan, verdict))
    BY <1>37 DEF RunInputSafety
  <2> DEFINE r == InspectInput(call.guard, plan, text, Req.image, scan, verdict)
  <2>3. r.shown # None => plan.injection = "block" /\ call.guard.classifier # None
    BY ClassifierAsked
  <2>4. Inspected(r)  BY <2>2
  <2>5. Decided  BY <2>1 DEF ApprovedInv, Decided
  <2>6. pc' \notin {"path", "screen", "guard"}
    BY <1>37 DEF RunInputSafety, Answer, At, Following, PathOrder, FlatOrder
  <2> HIDE DEF r
  <2> QED BY <2>1, <2>3, <2>4, <2>5, InspectionIsApproved
<1>38. ASSUME UNCHANGED vars PROVE ApprovedInv'
  BY <1>38, QuietStep DEF vars, Quiet
<1> QED BY <1>1, <1>2, <1>3, <1>4, <1>5, <1>6, <1>7, <1>8, <1>9, <1>10, <1>11, <1>12,
     <1>13, <1>14, <1>15, <1>16, <1>17, <1>18, <1>19, <1>20, <1>21, <1>22, <1>23, <1>24,
     <1>25, <1>26, <1>27, <1>28, <1>29, <1>30, <1>31, <1>32, <1>33, <1>34, <1>35, <1>36,
     <1>37, <1>38 DEF Next, LedgerNext, ChatNext, EmbeddingsNext, DocumentsNext

\* For every valid configuration, every request and every answer of a backend, the
\* text of a feature reaches models of its user's classes whose provider the data
\* class approves, and a classifier of such a provider or a local one; a document
\* goes to an OCR provider the policy does not name.
THEOREM DataReachesTheApproved == Spec => []DataStaysApproved
<1>1. CallInit => ApprovedInv
  BY DEF CallInit, ApprovedInv, Decided
<1>2. ApprovedInv /\ [Next]_vars => ApprovedInv'
  BY ApprovedStep
<1>3. ApprovedInv => DataStaysApproved
  BY DEF ApprovedInv, DataStaysApproved, Decided, At, ClassifierApproved
<1> QED BY <1>1, <1>2, <1>3, PTL DEF Spec

(***************************************************************************)
(* What is held while a model is called.                                   *)
(***************************************************************************)

\* Which ledgers the call holds something in: the others are None throughout.
NeedsLease == Hierarchical \/ ~CreditsOnly
NeedsHold  == UsesCredits /\ ~Hierarchical

Unheld == {"pause", "evaluate", "path", "screen", "guard", "hold", "reserve_path"}
Held   == {"call", "call_fallback", "grow_hold", "first", "stream"}

\* The fallback of a hierarchical call is made under what is held.
Priced == pc \in {"lease", "call", "call_fallback"} /\ ~(Hierarchical /\ pc = "call_fallback")

\* A decision names the price of its model for at least what is there.
DecidedWell(d) ==
  LET price == EstimateForModel(call.config, d.model, call.request.size)
  IN price \in Nat /\ d.estimate \in Nat /\ d.estimate >= price

CoverInv ==
  /\ safety \in Nat /\ reserved \in Nat /\ (IsChat \/ safety = 0)
  /\ todo # <<>> => pc \in {"answer", "reply"}
  /\ pc \in {"path", "screen"} => IsChat
  /\ pc \in {"path", "reserve_path"} => Hierarchical
  /\ pc \in {"hold", "lease", "grow_hold", "grow_lease"} => ~Hierarchical
  /\ pc \in {"grow_hold", "grow_lease", "call_fallback"} => ~IsDocument
  /\ Decided => DecidedWell(decision)
  /\ pc \in Unheld => lease = None /\ hold = None
  /\ pc = "lease" => lease = None /\ hold = IF NeedsHold THEN reserved ELSE None
  /\ pc \in Held => /\ lease = IF NeedsLease THEN reserved ELSE None
                    /\ hold = IF NeedsHold THEN reserved ELSE None
  /\ pc = "grow_lease" => /\ NeedsLease /\ lease = reserved
                          /\ hold = IF NeedsHold THEN reserved + Extra ELSE None
  /\ Priced /\ ~IsDocument => reserved >= decision.estimate + safety
  /\ Priced /\ IsDocument => reserved >= EstimatedPages * PageRate

\* More tokens cost no less.
LEMMA PriceGrows ==
  ASSUME NEW c \in Calls, NEW m \in Models, NEW tokens \in Nat, NEW size \in Nat,
         tokens >= size
  PROVE  /\ EstimateForModel(c.config, m, tokens) \in Nat
         /\ EstimateForModel(c.config, m, size) \in Nat
         /\ EstimateForModel(c.config, m, tokens) >= EstimateForModel(c.config, m, size)
<1> DEFINE p == ModelPrice(c.config, m)
<1>1. p \in Nat
  BY LoadedCalls, PolicyConstants DEF ModelPrice
<1> HIDE DEF p
<1>2. p * tokens \in Nat /\ p * size \in Nat /\ p * tokens >= p * size
  BY <1>1
<1> QED BY <1>2 DEF EstimateForModel, p

\* What a chat or an embeddings call is priced for is at least its size.
LEMMA TokensCover ==
  ASSUME call \in Calls
  PROVE  /\ ChatTokens \in Nat /\ ChatTokens >= call.request.size
         /\ EmbeddingTokens \in Nat /\ EmbeddingTokens >= call.request.size
         /\ call.request.size \in Nat
<1>1. call.request.size \in Nat /\ call.request.declared \in Nat \union {None}
      /\ DefaultTokens \in Nat
  BY LoadedCalls, PolicyConstants
<1> QED BY <1>1 DEF ChatTokens, EmbeddingTokens, Req

\* A run of the guard costs nothing or the price of the classifier.
LEMMA CostIsNat ==
  ASSUME NEW guard, NEW pl, NEW tx, NEW image, NEW scan \in Scans, NEW verdict \in Verdicts
  PROVE  InspectInput(guard, pl, tx, image, scan, verdict).cost \in Nat
<1>1. ScreenText(guard, pl, tx, scan).action \in {"allow", "block", "unavailable", "crash"}
  BY DEF ScreenText, Scans
<1> QED BY <1>1 DEF InspectInput, Verdicts, ClassifierCost

\* The call does not change, and nothing that is read off it does.
LEMMA SameCall ==
  ASSUME call' = call
  PROVE  /\ IsChat' = IsChat /\ IsDocument' = IsDocument
         /\ IsEmbeddings' = IsEmbeddings /\ Hierarchical' = Hierarchical
         /\ UsesCredits' = UsesCredits /\ CreditsOnly' = CreditsOnly
         /\ NeedsLease' = NeedsLease /\ NeedsHold' = NeedsHold
         /\ EstimatedPages' = EstimatedPages
BY DEF IsChat, IsDocument, IsEmbeddings, IsStream, Hierarchical, UsesCredits, CreditsOnly,
       Mode, NeedsLease, NeedsHold, EstimatedPages

\* Every call has one surface, and only chat has a tree of budgets.
LEMMA Surfaces ==
  /\ IsDocument => ~IsChat /\ ~IsEmbeddings /\ ~Hierarchical
  /\ IsEmbeddings => ~IsChat /\ ~Hierarchical
  /\ CreditsOnly => UsesCredits
  /\ Hierarchical => IsChat
BY DEF IsChat, IsDocument, IsEmbeddings, IsStream, Hierarchical, UsesCredits, CreditsOnly, Mode

\* Steps that leave what is held alone, because it is settled elsewhere.
LEMMA EndedStep ==
  ASSUME CoverInv, UNCHANGED <<call, safety, reserved>>,
         pc' = "reply" \/ (UNCHANGED <<pc, decision>> /\ pc \in {"answer", "reply"})
                       \/ (UNCHANGED decision /\ pc' = "answer" /\ Decided /\ pc # "answer")
                       \/ (UNCHANGED decision /\ pc' = "answer" /\ IsDocument)
  PROVE  CoverInv'
BY SameCall, Surfaces DEF CoverInv, Unheld, Held, Priced, Decided, DecidedWell

\* Steps on the way to the reservation, in the order of the surface.
LEMMA UnheldStep ==
  ASSUME CoverInv, UNCHANGED <<call, decision, reserved, lease, hold, todo>>,
         pc \in Unheld, pc' \in Unheld, safety' \in Nat, IsChat \/ safety' = safety,
         Decided' => Decided,
         pc' \in {"path", "screen"} => IsChat,
         pc' \in {"path", "reserve_path"} => Hierarchical,
         pc' = "hold" => ~Hierarchical
  PROVE  CoverInv'
BY SameCall DEF CoverInv, Unheld, Held, Priced, Decided, DecidedWell

\* A decision that goes on is priced for what is there.
LEMMA PricedWell ==
  ASSUME call \in Calls, NEW request, NEW usage, NEW tokens \in Nat, NEW force \in BOOLEAN,
         NEW d, d = EvaluateAiRequest(call.config, request, usage, tokens, force),
         d.kind # "error", d.kind # "block",
         force => /\ Defined(call.config, request)
                  /\ RequestedClass(call.config, request) \in call.config.permitted,
         tokens >= call.request.size, call.request.size \in Nat
  PROVE  DecidedWell(d)
<1>0. /\ d.model \in Models
      /\ d.estimate = EstimateForModel(call.config, d.model, tokens)
  BY DecisionIsApproved
<1> DEFINE m == d.model
           size == call.request.size
<1>1. m \in Models /\ size \in Nat /\ tokens >= size
  BY <1>0
<1> HIDE DEF m, size
<1>2. /\ EstimateForModel(call.config, m, tokens) \in Nat
      /\ EstimateForModel(call.config, m, size) \in Nat
      /\ EstimateForModel(call.config, m, tokens) >= EstimateForModel(call.config, m, size)
  BY <1>1, PriceGrows
<1> QED BY <1>0, <1>2 DEF DecidedWell, m, size

\* The first decision of chat and of embeddings is priced so.
LEMMA DecisionsCover ==
  ASSUME call \in Calls
  PROVE  /\ ChatDecision(FALSE).kind \notin {"error", "block"} =>
              DecidedWell(ChatDecision(FALSE))
         /\ EmbeddingDecision(FALSE).kind \notin {"error", "block"}
              => DecidedWell(EmbeddingDecision(FALSE))
<1>1. ASSUME ChatDecision(FALSE).kind \notin {"error", "block"}
      PROVE  DecidedWell(ChatDecision(FALSE))
  <2> DEFINE e == EvaluateAiRequest(call.config, Req, Usage, ChatTokens, FALSE)
  <2>1. ChatDecision(FALSE) = e  BY DEF ChatDecision
  <2>3. e.kind # "error" /\ e.kind # "block"  BY <1>1, <2>1
  <2>4. DecidedWell(e)  BY <2>3, TokensCover, PricedWell
  <2> QED BY <2>1, <2>4
<1>2. ASSUME EmbeddingDecision(FALSE).kind \notin {"error", "block"}
      PROVE  DecidedWell(EmbeddingDecision(FALSE))
  <2> DEFINE e == EvaluateAiRequest(call.config, call.request, call.usage, EmbeddingTokens,
                                    FALSE)
  <2>1. EmbeddingDecision(FALSE) = e  BY DEF EmbeddingDecision
  <2>3. e.kind # "error" /\ e.kind # "block"  BY <1>2, <2>1
  <2>4. DecidedWell(e)  BY <2>3, TokensCover, PricedWell
  <2> QED BY <2>1, <2>4
<1> QED BY <1>1, <1>2

\* The decision for a fallback is priced so.
LEMMA FallbacksCover ==
  ASSUME call \in Calls, Defined(call.config, call.request),
         RequestedClass(call.config, call.request) \in call.config.permitted
  PROVE  /\ ChatDecision(TRUE).kind # "block" => DecidedWell(ChatDecision(TRUE))
         /\ EmbeddingDecision(TRUE).kind # "block"
              => DecidedWell(EmbeddingDecision(TRUE))
<1>1. ASSUME ChatDecision(TRUE).kind # "block" PROVE DecidedWell(ChatDecision(TRUE))
  <2> DEFINE e == EvaluateAiRequest(call.config, call.request, Usage, ChatTokens, TRUE)
  <2>1. ChatDecision(TRUE) = e  BY DEF ChatDecision, Req
  <2>2. e.kind # "error"  BY ForcedIsNoError
  <2>3. e.kind # "error" /\ e.kind # "block"  BY <1>1, <2>1, <2>2
  <2>4. DecidedWell(e)  BY <2>3, TokensCover, PricedWell
  <2> QED BY <2>1, <2>4
<1>2. ASSUME EmbeddingDecision(TRUE).kind # "block" PROVE DecidedWell(EmbeddingDecision(TRUE))
  <2> DEFINE e == EvaluateAiRequest(call.config, call.request, call.usage, EmbeddingTokens,
                                    TRUE)
  <2>1. EmbeddingDecision(TRUE) = e  BY DEF EmbeddingDecision
  <2>2. e.kind # "error"  BY ForcedIsNoError
  <2>3. e.kind # "error" /\ e.kind # "block"  BY <1>2, <2>1, <2>2
  <2>4. DecidedWell(e)  BY <2>3, TokensCover, PricedWell
  <2> QED BY <2>1, <2>4
<1> QED BY <1>1, <1>2

\* The decision, at the price of at least what is there.
LEMMA PricedStep ==
  ASSUME CoverInv, UNCHANGED <<call, safety, reserved, lease, hold, todo>>,
         pc = "evaluate", pc' \in {"path", "screen", "guard", "hold"},
         pc' \in {"path", "screen"} => IsChat,
         pc' = "path" => Hierarchical,
         pc' = "hold" => ~Hierarchical,
         ~IsDocument => DecidedWell(decision')
  PROVE  CoverInv'
BY SameCall DEF CoverInv, Unheld, Held, Priced, Decided, DecidedWell

\* The steps that reserve.
LEMMA HoldStep ==
  ASSUME CoverInv, ApprovedInv, NEW estimate \in Nat, NEW jobs,
         AcquireCreditHold(estimate, jobs),
         ~IsDocument => estimate >= decision.estimate + safety,
         IsDocument => estimate >= EstimatedPages * PageRate
  PROVE  CoverInv'
<1>1. pc = "hold" /\ UNCHANGED <<call, safety, lease, decision>>
  BY DEF AcquireCreditHold, At
<1>2. CASE pc' = "reply"
  <2>1. UNCHANGED reserved  BY <1>2 DEF AcquireCreditHold, Answer
  <2> QED BY <1>1, <1>2, <2>1, EndedStep
<1>3. CASE pc' # "reply"
  <2>1. /\ pc' = "lease" /\ reserved' = estimate /\ UNCHANGED todo
        /\ hold' = IF UsesCredits THEN estimate ELSE None
    BY <1>3 DEF AcquireCreditHold, Answer
  <2>2. ~Hierarchical /\ lease = None  BY <1>1 DEF CoverInv, Unheld
  <2>3. IsDocument \/ Decided  BY <1>1 DEF Decided
  <2> QED BY <1>1, <2>1, <2>2, <2>3, SameCall
          DEF CoverInv, Unheld, Held, Priced, Decided, DecidedWell, NeedsHold
<1> QED BY <1>2, <1>3

\* The lease is granted under a hold of the same size, or the call is over.
LEMMA LeaseStep ==
  ASSUME CoverInv, NEW jobs, ReserveBudget(jobs)
  PROVE  CoverInv'
<1>1. pc = "lease" /\ UNCHANGED <<call, safety, reserved, decision, hold>>
  BY DEF ReserveBudget, At
<1>2. CASE pc' = "reply"
  BY <1>1, <1>2, EndedStep
<1>3. CASE pc' # "reply"
  <2>1. /\ pc' = "call" /\ UNCHANGED todo
        /\ lease' = IF CreditsOnly THEN None ELSE reserved
    BY <1>3 DEF ReserveBudget, Answer
  <2>2. ~Hierarchical /\ hold = IF NeedsHold THEN reserved ELSE None
    BY <1>1 DEF CoverInv
  <2>3. Decided' <=> Decided  BY <1>1, <2>1, SameCall DEF Decided
  <2> QED BY <1>1, <2>1, <2>2, <2>3, SameCall
          DEF CoverInv, Unheld, Held, Priced, DecidedWell, NeedsLease
<1> QED BY <1>2, <1>3

\* A fallback: dearer than what is held, or covered by it.
LEMMA FallsBackStep ==
  ASSUME CoverInv, UNCHANGED <<call, safety, reserved, lease, hold, todo>>, pc = "call",
         ~IsDocument,
         pc' = IF decision'.estimate + safety > reserved /\ ~Hierarchical
               THEN "grow_hold" ELSE "call_fallback",
         DecidedWell(decision')
  PROVE  CoverInv'
BY SameCall DEF CoverInv, Unheld, Held, Priced, Decided, DecidedWell

\* The hold grows by what the lease will, or the call is over.
LEMMA GrowHoldStep ==
  ASSUME CoverInv, NEW jobs, GrowHold(jobs)
  PROVE  CoverInv'
<1>1. pc = "grow_hold" /\ UNCHANGED <<call, safety, decision, lease>>
  BY DEF GrowHold, At
<1>2. CASE pc' = "reply"
  <2>1. UNCHANGED reserved  BY <1>2 DEF GrowHold, Answer
  <2> QED BY <1>1, <1>2, <2>1, EndedStep
<1>3. CASE pc' # "reply"
  <2>1. /\ UNCHANGED todo /\ hold' = IF UsesCredits THEN hold + Extra ELSE hold
        /\ \/ CreditsOnly /\ pc' = "call_fallback" /\ reserved' = reserved + Extra
           \/ ~CreditsOnly /\ pc' = "grow_lease" /\ reserved' = reserved
    BY <1>3 DEF GrowHold, Answer
  <2>2. /\ ~Hierarchical /\ ~IsDocument /\ Decided /\ DecidedWell(decision)
        /\ lease = (IF NeedsLease THEN reserved ELSE None)
        /\ hold = (IF NeedsHold THEN reserved ELSE None)
        /\ safety \in Nat /\ reserved \in Nat
    BY <1>1 DEF CoverInv, Held, Decided, DecidedWell
  <2>3. /\ reserved + Extra = decision.estimate + safety
        /\ pc' = "grow_lease" => Extra' = Extra
    BY <1>1, <2>1, <2>2 DEF Extra, DecidedWell
  <2>4. Decided'  BY <1>1, <2>1, <2>2, SameCall DEF Decided
  <2>5. NeedsHold <=> UsesCredits  BY <2>2 DEF NeedsHold
  <2>6. NeedsLease <=> ~CreditsOnly  BY <2>2 DEF NeedsLease
  <2>7. CASE CreditsOnly
    <3>1. /\ pc' = "call_fallback" /\ reserved' = decision.estimate + safety
          /\ hold' = reserved' /\ NeedsHold /\ lease = None /\ ~NeedsLease
      BY <2>1, <2>2, <2>3, <2>5, <2>6, <2>7, Surfaces
    <3> QED BY <1>1, <2>1, <2>2, <2>4, <3>1, SameCall
            DEF CoverInv, Unheld, Held, Priced, DecidedWell
  <2>8. CASE ~CreditsOnly
    <3>1. /\ pc' = "grow_lease" /\ reserved' = reserved /\ NeedsLease /\ lease' = reserved
          /\ hold' = IF NeedsHold THEN reserved + Extra ELSE None
      BY <1>1, <2>1, <2>2, <2>5, <2>6, <2>8
    <3> QED BY <1>1, <2>1, <2>2, <2>3, <2>4, <3>1, SameCall
            DEF CoverInv, Unheld, Held, Priced, DecidedWell
  <2> QED BY <2>7, <2>8
<1> QED BY <1>2, <1>3

\* The lease grows, and both cover the fallback, or the call is over.
LEMMA GrowLeaseStep ==
  ASSUME CoverInv, NEW jobs, GrowLease(jobs)
  PROVE  CoverInv'
<1>1. pc = "grow_lease" /\ UNCHANGED <<call, safety, decision, hold>>
  BY DEF GrowLease, At
<1>2. CASE pc' = "reply"
  <2>1. UNCHANGED reserved  BY <1>2 DEF GrowLease, Answer
  <2> QED BY <1>1, <1>2, <2>1, EndedStep
<1>3. CASE pc' # "reply"
  <2>1. /\ UNCHANGED todo /\ pc' = "call_fallback"
        /\ lease' = lease + Extra /\ reserved' = reserved + Extra
    BY <1>3 DEF GrowLease, Answer
  <2>2. /\ ~Hierarchical /\ ~IsDocument /\ Decided /\ decision.estimate \in Nat
        /\ NeedsLease /\ lease = reserved
        /\ hold = (IF NeedsHold THEN reserved + Extra ELSE None)
        /\ safety \in Nat /\ reserved \in Nat
    BY <1>1 DEF CoverInv, Held, Decided, DecidedWell
  <2>3. reserved + Extra = decision.estimate + safety
    BY <2>2 DEF Extra, DecidedWell
  <2>4. Decided'  BY <1>1, <2>1, <2>2, SameCall DEF Decided
  <2> QED BY <1>1, <2>1, <2>2, <2>3, <2>4, SameCall
          DEF CoverInv, Unheld, Held, Priced, DecidedWell
<1> QED BY <1>2, <1>3

\* No step calls a model for more than is held.
LEMMA CoverStep ==
  ASSUME ApprovedInv, CoverInv, [Next]_vars
  PROVE  CoverInv'
<1> USE Surfaces
\* Pending work of a call that has been answered or is being answered.
<1>1. ASSUME Debit \/ Book \/ FreeLease \/ FreeHold \/ ReturnHold \/ SettleLease
     \/ SettleBillingDone \/ WriteAudit \/ OperationIsLogged \/ StreamReleaseIsLogged
     \/ AuditFails PROVE CoverInv'
  <2>1. todo # <<>> /\ UNCHANGED <<call, safety, reserved, pc, decision>>
    BY <1>1 DEF Debit, Done, Keep, Due, Book, FreeLease, FreeHold, ReturnHold, SettleLease,
         SettleBillingDone, WriteAudit, OperationIsLogged, StreamReleaseIsLogged, AuditFails
  <2>2. pc \in {"answer", "reply"}  BY <2>1 DEF CoverInv
  <2> QED BY <2>1, <2>2, EndedStep
<1>2. ASSUME OperationThrows \/ ReserveThrows PROVE CoverInv'
  BY <1>2, EndedStep DEF OperationThrows, ReserveThrows
<1>3. ASSUME ProviderFails PROVE CoverInv'
  BY <1>3, EndedStep DEF ProviderFails, Answer
<1>4. ASSUME GrowChatThrows PROVE CoverInv'
  BY <1>4, EndedStep DEF GrowChatThrows, GrowThrows, Answer
<1>5. ASSUME StreamReleased PROVE CoverInv'
  BY <1>5, EndedStep DEF StreamReleased, Answer
<1>6. ASSUME StreamEnds PROVE CoverInv'
  BY <1>6, EndedStep DEF StreamEnds, SettleStream, Answer
<1>7. ASSUME StreamCut PROVE CoverInv'
  BY <1>7, EndedStep DEF StreamCut, SettleStream, Answer
<1>8. ASSUME EmbeddingAnswers PROVE CoverInv'
  BY <1>8, EndedStep DEF EmbeddingAnswers, Answer
<1>9. ASSUME EmbeddingFails PROVE CoverInv'
  BY <1>9, EndedStep DEF EmbeddingFails, Answer
<1>10. ASSUME GrowEmbeddingThrows PROVE CoverInv'
  BY <1>10, EndedStep DEF GrowEmbeddingThrows, GrowThrows, Answer
<1>11. ASSUME ExtractFails PROVE CoverInv'
  BY <1>11, EndedStep DEF ExtractFails, Answer
<1>12. ASSUME ProviderAnswers PROVE CoverInv'
  BY <1>12, EndedStep DEF ProviderAnswers, At, Decided, IsDocument
<1>13. ASSUME ExtractAnswers PROVE CoverInv'
  BY <1>13, EndedStep DEF ExtractAnswers, At, Decided, IsDocument
<1>14. ASSUME ScreenAnswer PROVE CoverInv'
  <2>1. AnswerBlocked \/ AnswerUnscreened \/ AnswerLost \/ \E r : AnswerServed(r)
    BY <1>14, Endings
  <2>2. pc' = "reply"
    BY <2>1 DEF AnswerBlocked, AnswerUnscreened, AnswerLost, AnswerServed, Answer
  <2>3. UNCHANGED <<call, safety, reserved>>
    BY <1>14 DEF ScreenAnswer
  <2> QED BY <2>2, <2>3, EndedStep
<1>15. ASSUME ScreenDocument PROVE CoverInv'
  <2>1. DocumentBlocked \/ DocumentUnscreened \/ DocumentLost \/ \E r : DocumentServed(r)
    BY <1>15, Endings
  <2>2. pc' = "reply"
    BY <2>1 DEF DocumentBlocked, DocumentUnscreened, DocumentLost, DocumentServed, Answer
  <2>3. UNCHANGED <<call, safety, reserved>>
    BY <1>15 DEF ScreenDocument
  <2> QED BY <2>2, <2>3, EndedStep
\* On the way to the reservation.
<1>16. ASSUME CheckPause PROVE CoverInv'
  <2>1. pc = "pause" /\ UNCHANGED <<call, reserved>> /\ UNCHANGED safety
    BY <1>16 DEF CheckPause, At, Answer, PathOrder, FlatOrder
  <2>2. CASE pc' = "reply"
    BY <2>1, <2>2, EndedStep
  <2>3. CASE pc' # "reply"
    <3>0. pc = "path" => Hierarchical  BY DEF CoverInv
    <3>1. /\ UNCHANGED <<decision, lease, hold, todo>>
          /\ pc' = "evaluate"
      BY <1>16, <2>1, <2>3, <3>0 DEF CheckPause, At, Answer, PathOrder, FlatOrder
    <3>2. Decided' => Decided  BY <2>1, <3>1, SameCall DEF Decided
    <3>3. safety' \in Nat /\ (pc = "path" => IsChat)  BY <2>1 DEF CoverInv
    <3> QED BY <2>1, <3>1, <3>2, <3>3, UnheldStep DEF Unheld
  <2> QED BY <2>2, <2>3
<1>17. ASSUME LoadHierarchicalPath PROVE CoverInv'
  <2>1. pc = "path" /\ UNCHANGED <<call, reserved>> /\ UNCHANGED safety
    BY <1>17 DEF LoadHierarchicalPath, At, Answer, Following, PathOrder, FlatOrder
  <2>2. CASE pc' = "reply"
    BY <2>1, <2>2, EndedStep
  <2>3. CASE pc' # "reply"
    <3>0. pc = "path" => Hierarchical  BY DEF CoverInv
    <3>1. /\ UNCHANGED <<decision, lease, hold, todo>>
          /\ pc' = "screen" /\ Hierarchical
      BY <1>17, <2>1, <2>3, <3>0 DEF LoadHierarchicalPath, At, Answer, Following,
           PathOrder, FlatOrder
    <3>2. Decided' => Decided  BY <2>1, <3>1, SameCall DEF Decided
    <3>3. safety' \in Nat /\ (pc = "path" => IsChat)  BY <2>1 DEF CoverInv
    <3> QED BY <2>1, <3>1, <3>2, <3>3, UnheldStep DEF Unheld
  <2> QED BY <2>2, <2>3
<1>18. ASSUME ScreenContext PROVE CoverInv'
  <2>1. pc = "screen" /\ UNCHANGED <<call, reserved, decision, lease, hold>>
    BY <1>18 DEF ScreenContext, At
  <2>2. CASE pc' = "reply"
    <3>1. UNCHANGED safety  BY <1>18, <2>2 DEF ScreenContext, Answer, Following, PathOrder,
         FlatOrder
    <3> QED BY <2>1, <2>2, <3>1, EndedStep
  <2>3. CASE pc' # "reply"
    <3>1. /\ UNCHANGED todo /\ pc' = "guard"
          /\ \/ UNCHANGED safety
             \/ \E verdict \in Verdicts :
                  safety' = InspectInput(call.guard, ContextPlan, Req.context.text, FALSE, "up",
                                         verdict).cost
      BY <1>18, <2>3 DEF ScreenContext, Answer, Following, PathOrder, FlatOrder
    <3>2. safety' \in Nat  BY <3>1, CostIsNat DEF CoverInv, Scans
    <3>3. IsChat  BY <2>1 DEF CoverInv
    <3> QED BY <2>1, <3>1, <3>2, <3>3, UnheldStep, SameCall DEF Unheld, Decided
  <2> QED BY <2>2, <2>3
<1>19. ASSUME RunInputSafety PROVE CoverInv'
  <2>1. pc = "guard" /\ IsChat /\ UNCHANGED <<call, reserved, decision, lease, hold>>
    BY <1>19 DEF RunInputSafety, At
  <2>2. CASE pc' = "reply"
    <3>1. UNCHANGED safety  BY <1>19, <2>2 DEF RunInputSafety, At, Answer, Following,
         PathOrder, FlatOrder
    <3> QED BY <2>1, <2>2, <3>1, EndedStep
  <2>3. CASE pc' # "reply"
    <3>1. /\ UNCHANGED todo /\ pc' = IF Hierarchical THEN "reserve_path" ELSE "hold"
          /\ \E verdict \in Verdicts, scan \in Scans :
               safety' = safety + InspectInput(call.guard, plan, text, Req.image, scan,
                                               verdict).cost
      BY <1>19, <2>3 DEF RunInputSafety, At, Answer, Following, PathOrder, FlatOrder
    <3>2. safety' \in Nat  BY <3>1, CostIsNat DEF CoverInv
    <3> QED BY <2>1, <3>1, <3>2, UnheldStep, SameCall DEF Unheld, Decided
  <2> QED BY <2>2, <2>3
<1>20. ASSUME ScreenEmbeddings PROVE CoverInv'
  <2>1. pc = "guard" /\ IsEmbeddings
        /\ UNCHANGED <<call, reserved, decision, lease, hold, safety>>
    BY <1>20 DEF ScreenEmbeddings, At
  <2>2. CASE pc' = "reply"  BY <2>1, <2>2, EndedStep
  <2>3. CASE pc' # "reply"
    <3>1. UNCHANGED todo /\ pc' = "hold"
      BY <1>20, <2>3 DEF ScreenEmbeddings, Answer
    <3> QED BY <2>1, <3>1, UnheldStep, SameCall DEF Unheld, Decided, CoverInv
  <2> QED BY <2>2, <2>3
\* The decision.
<1>21. ASSUME EvaluateChat PROVE CoverInv'
  <2> DEFINE d == ChatDecision(FALSE)
  <2>1. UNCHANGED <<call, safety, reserved, lease, hold>> /\ decision' = d /\ IsChat
        /\ pc = "evaluate"
    BY <1>21 DEF EvaluateChat, At
  <2>2. CASE pc' = "reply"  BY <2>1, <2>2, EndedStep
  <2>3. CASE pc' # "reply"
    <3>1. d.kind # "error" /\ d.kind # "block" /\ UNCHANGED todo
          /\ pc' = IF Hierarchical THEN "path" ELSE "screen"
      BY <1>21, <2>3 DEF EvaluateChat, Answer, Following, PathOrder, FlatOrder
    <3>2. DecidedWell(d)  BY <3>1, DecisionsCover DEF ApprovedInv
    <3> HIDE DEF d
    <3> QED BY <2>1, <3>1, <3>2, PricedStep
  <2> QED BY <2>2, <2>3
<1>22. ASSUME EvaluateEmbeddings PROVE CoverInv'
  <2> DEFINE d == EmbeddingDecision(FALSE)
  <2>1. UNCHANGED <<call, safety, reserved, lease, hold>> /\ decision' = d /\ IsEmbeddings
        /\ pc = "evaluate"
    BY <1>22 DEF EvaluateEmbeddings, At
  <2>2. CASE pc' = "reply"  BY <2>1, <2>2, EndedStep
  <2>3. CASE pc' # "reply"
    <3>1. d.kind # "error" /\ d.kind # "block" /\ UNCHANGED todo
          /\ pc' = "guard"
      BY <1>22, <2>3 DEF EvaluateEmbeddings, Answer, Following, PathOrder, FlatOrder
    <3>2. DecidedWell(d)  BY <3>1, DecisionsCover DEF ApprovedInv
    <3> HIDE DEF d
    <3> QED BY <2>1, <3>1, <3>2, PricedStep
  <2> QED BY <2>2, <2>3
<1>23. ASSUME EvaluateDocument PROVE CoverInv'
  <2>1. UNCHANGED <<call, safety, reserved, lease, hold>> /\ IsDocument /\ pc = "evaluate"
    BY <1>23 DEF EvaluateDocument, At
  <2>2. CASE pc' = "reply"  BY <2>1, <2>2, EndedStep
  <2>3. CASE pc' # "reply"
    <3>1. UNCHANGED todo /\ pc' = "hold"  BY <1>23, <2>3 DEF EvaluateDocument, Answer
    <3> QED BY <2>1, <3>1, PricedStep
  <2> QED BY <2>2, <2>3
\* The reservation.
<1>24. ASSUME ReserveFlatHold PROVE CoverInv'
  <2>1. PICK jobs : AcquireCreditHold(decision.estimate + safety, jobs)  BY <1>24
       DEF ReserveFlatHold
  <2>2. IsChat /\ pc = "hold"  BY <1>24 DEF ReserveFlatHold, AcquireCreditHold, At
  <2>3. decision.estimate \in Nat /\ safety \in Nat /\ (IsChat \/ safety = 0)
    BY <2>2 DEF CoverInv, Decided, DecidedWell
  <2> QED BY <2>1, <2>2, <2>3, HoldStep
<1>25. ASSUME ReserveEmbeddingHold PROVE CoverInv'
  <2>1. PICK jobs : AcquireCreditHold(decision.estimate, jobs)  BY <1>25
       DEF ReserveEmbeddingHold
  <2>2. IsEmbeddings /\ pc = "hold"  BY <1>25 DEF ReserveEmbeddingHold, AcquireCreditHold,
       At
  <2>3. decision.estimate \in Nat /\ safety \in Nat /\ (IsChat \/ safety = 0)
    BY <2>2 DEF CoverInv, Decided, DecidedWell
  <2> QED BY <2>1, <2>2, <2>3, HoldStep
<1>26. ASSUME ReserveDocumentHold PROVE CoverInv'
  <2>1. PICK jobs : AcquireCreditHold(EstimatedPages * PageRate, jobs)  BY <1>26
       DEF ReserveDocumentHold
  <2>2. IsDocument /\ pc = "hold"  BY <1>26 DEF ReserveDocumentHold, AcquireCreditHold, At
  <2>3. EstimatedPages * PageRate \in Nat
    <3>1. EstimatedPages \in Nat  BY LoadedCalls, DocumentConstants DEF EstimatedPages,
         ApprovedInv
    <3> QED BY <3>1, DocumentConstants
  <2> QED BY <2>1, <2>2, <2>3, HoldStep
<1>27. ASSUME ReserveFlatLease PROVE CoverInv'
  BY <1>27, LeaseStep DEF ReserveFlatLease
<1>28. ASSUME ReserveEmbeddingLease PROVE CoverInv'
  BY <1>28, LeaseStep DEF ReserveEmbeddingLease
<1>29. ASSUME ReserveDocumentLease PROVE CoverInv'
  BY <1>29, LeaseStep DEF ReserveDocumentLease
<1>30. ASSUME ReserveHierarchical PROVE CoverInv'
  <2>1. pc = "reserve_path" /\ UNCHANGED <<call, safety, decision, hold>>
    BY <1>30 DEF ReserveHierarchical, At
  <2>2. CASE pc' = "reply"
    <3>1. UNCHANGED reserved  BY <1>30, <2>2 DEF ReserveHierarchical, Answer
    <3> QED BY <2>1, <2>2, <3>1, EndedStep
  <2>3. CASE pc' # "reply"
    <3>1. /\ pc' = "call" /\ UNCHANGED todo /\ ~UsesCredits
          /\ lease' = decision.estimate + safety /\ reserved' = decision.estimate + safety
      BY <1>30, <2>3 DEF ReserveHierarchical, Answer
    <3>2. /\ Hierarchical /\ NeedsLease /\ ~NeedsHold /\ hold = None /\ Decided /\ Decided'
          /\ ~IsDocument
          /\ decision.estimate \in Nat /\ safety \in Nat
      BY <2>1, <3>1, SameCall DEF CoverInv, Unheld, NeedsLease, NeedsHold, Decided,
           DecidedWell
    <3> QED BY <2>1, <3>1, <3>2, SameCall DEF CoverInv, Unheld, Held, Priced, DecidedWell
  <2> QED BY <2>2, <2>3
\* The call, its fallback and its top-up.
<1>31. ASSUME StreamOpens PROVE CoverInv'
  <2>1. pc = "call" /\ pc' = "first"
        /\ UNCHANGED <<call, safety, reserved, decision, lease, hold, todo>>
    BY <1>31 DEF StreamOpens, At
  <2>2. Decided' => Decided  BY <2>1, SameCall DEF Decided
  <2> QED BY <2>1, <2>2, SameCall DEF CoverInv, Unheld, Held, Priced, DecidedWell
<1>32. ASSUME FirstDelta PROVE CoverInv'
  <2>1. pc = "first" /\ pc' = "stream"
        /\ UNCHANGED <<call, safety, reserved, decision, lease, hold, todo>>
    BY <1>32 DEF FirstDelta, At
  <2>2. Decided' => Decided  BY <2>1, SameCall DEF Decided
  <2> QED BY <2>1, <2>2, SameCall DEF CoverInv, Unheld, Held, Priced, DecidedWell
<1>33. ASSUME ProviderFallsBack PROVE CoverInv'
  <2> DEFINE d == ChatDecision(TRUE)
  <2>1. /\ UNCHANGED <<call, safety, reserved, lease, hold>> /\ pc = "call" /\ ~IsDocument
        /\ todo = <<>>
    BY <1>33 DEF ProviderFallsBack, At, IsDocument, IsEmbeddings
  <2>2. CASE d.kind = "block"
    <3>1. pc' = "reply"  BY <1>33, <2>2 DEF ProviderFallsBack, Answer
    <3> QED BY <2>1, <3>1, EndedStep
  <2>3. CASE d.kind # "block"
    <3>1. /\ decision' = d /\ UNCHANGED todo
          /\ pc' = IF d.estimate + safety > reserved /\ ~Hierarchical THEN "grow_hold"
                   ELSE "call_fallback"
      BY <1>33, <2>3 DEF ProviderFallsBack
    <3>2. /\ Defined(call.config, call.request)
          /\ RequestedClass(call.config, call.request) \in call.config.permitted
          /\ call \in Calls
      BY <2>1 DEF ApprovedInv, Decided
    <3>3. DecidedWell(d)  BY <2>3, <3>2, FallbacksCover
    <3> HIDE DEF d
    <3> QED BY <2>1, <3>1, <3>3, FallsBackStep DEF DecidedWell
  <2> QED BY <2>2, <2>3
<1>34. ASSUME EmbeddingFallsBack PROVE CoverInv'
  <2> DEFINE d == EmbeddingDecision(TRUE)
  <2>1. /\ UNCHANGED <<call, safety, reserved, lease, hold>> /\ pc = "call" /\ ~IsDocument
        /\ todo = <<>>
        /\ IsEmbeddings
    BY <1>34 DEF EmbeddingFallsBack, At, IsDocument, IsEmbeddings
  <2>2. CASE d.kind = "block"
    <3>1. pc' = "reply"  BY <1>34, <2>2 DEF EmbeddingFallsBack, Answer
    <3> QED BY <2>1, <3>1, EndedStep
  <2>3. CASE d.kind # "block"
    <3>1. /\ decision' = d /\ UNCHANGED todo
          /\ pc' = IF d.estimate > reserved THEN "grow_hold" ELSE "call_fallback"
      BY <1>34, <2>3 DEF EmbeddingFallsBack
    <3>2. /\ Defined(call.config, call.request)
          /\ RequestedClass(call.config, call.request) \in call.config.permitted
          /\ call \in Calls
      BY <2>1 DEF ApprovedInv, Decided
    <3>3. DecidedWell(d)  BY <2>3, <3>2, FallbacksCover
    <3> HIDE DEF d
    <3>4. safety = 0 /\ ~Hierarchical  BY <2>1 DEF CoverInv
    <3>5. pc' = IF d.estimate + safety > reserved /\ ~Hierarchical THEN "grow_hold"
                ELSE "call_fallback"
      BY <3>1, <3>3, <3>4 DEF DecidedWell
    <3> QED BY <2>1, <3>1, <3>3, <3>5, FallsBackStep DEF DecidedWell
  <2> QED BY <2>2, <2>3
<1>35. ASSUME GrowChatHold PROVE CoverInv'
  BY <1>35, GrowHoldStep DEF GrowChatHold
<1>36. ASSUME GrowEmbeddingHold PROVE CoverInv'
  BY <1>36, GrowHoldStep DEF GrowEmbeddingHold
<1>37. ASSUME GrowChatLease PROVE CoverInv'
  BY <1>37, GrowLeaseStep DEF GrowChatLease
<1>38. ASSUME GrowEmbeddingLease PROVE CoverInv'
  BY <1>38, GrowLeaseStep DEF GrowEmbeddingLease
<1>39. ASSUME UNCHANGED vars PROVE CoverInv'
  <2>1. UNCHANGED <<call, pc, decision, safety, reserved, lease, hold, todo>>  BY <1>39
       DEF vars
  <2> QED BY <2>1, SameCall DEF CoverInv, Unheld, Held, Priced, Decided, DecidedWell, Extra
<1> QED BY <1>1, <1>2, <1>3, <1>4, <1>5, <1>6, <1>7, <1>8, <1>9, <1>10, <1>11, <1>12,
     <1>13, <1>14, <1>15, <1>16, <1>17, <1>18, <1>19, <1>20, <1>21, <1>22, <1>23, <1>24,
     <1>25, <1>26, <1>27, <1>28, <1>29, <1>30, <1>31, <1>32, <1>33, <1>34, <1>35, <1>36,
     <1>37, <1>38, <1>39 DEF Next, LedgerNext, ChatNext, EmbeddingsNext, DocumentsNext

\* Nothing is held and nothing decided when a call comes in.
LEMMA CoversAtFirst == CallInit => ApprovedInv /\ CoverInv
<1> SUFFICES ASSUME CallInit PROVE ApprovedInv /\ CoverInv
  OBVIOUS
<1>1. ApprovedInv
  BY DEF CallInit, ApprovedInv, Decided, IsDocument
<1>2. /\ safety = 0 /\ reserved = 0 /\ todo = <<>> /\ pc = "pause"
      /\ lease = None /\ hold = None
  BY DEF CallInit
<1> QED BY <1>1, <1>2 DEF CoverInv, Unheld, Held, Priced, Decided, DecidedWell

\* A model is called only when what it may cost is held, on every surface that
\* asks the policy for a model, whatever was granted, refused or thrown before.
THEOREM CoveredAtTheCall == Spec => []CoveredBeforeRun
<1>1. CallInit => ApprovedInv /\ CoverInv
  BY CoversAtFirst
<1>2. ApprovedInv /\ CoverInv /\ [Next]_vars => ApprovedInv' /\ CoverInv'
  BY ApprovedStep, CoverStep
<1>3. ApprovedInv /\ CoverInv => CoveredBeforeRun
  <2> SUFFICES ASSUME ApprovedInv, CoverInv, pc \in {"call", "call_fallback"}
               PROVE  CoveredBeforeRun
    BY DEF CoveredBeforeRun, At
  <2>1. /\ lease = IF NeedsLease THEN reserved ELSE None
        /\ hold = IF NeedsHold THEN reserved ELSE None
        /\ safety \in Nat /\ reserved \in Nat
    BY DEF CoverInv, Held
  <2>2. NeedsLease \/ NeedsHold
    BY Surfaces DEF NeedsLease, NeedsHold
  <2>3. /\ lease # None => lease = reserved
        /\ hold # None => hold = reserved
        /\ lease # None \/ hold # None
    BY <2>1, <2>2, NoneIsNoNumber
  <2>4. IsDocument => reserved >= EstimatedPages * PageRate
    BY Surfaces DEF CoverInv, Priced, DecidedWell
  <2> DEFINE price == EstimateForModel(call.config, decision.model, call.request.size)
  <2>5. ASSUME IsChat \/ IsEmbeddings, ~Hierarchical \/ pc = "call"
        PROVE  reserved >= price + safety
    <3>1. ~IsDocument /\ Decided /\ Priced
      BY <2>5, Surfaces DEF Decided, Priced
    <3>2. /\ price \in Nat /\ decision.estimate \in Nat /\ decision.estimate >= price
          /\ reserved >= decision.estimate + safety
      BY <3>1 DEF CoverInv, DecidedWell
    <3> HIDE DEF price
    <3> QED BY <2>1, <3>2
  <2>6. IsEmbeddings => reserved >= price
    <3>1. ASSUME IsEmbeddings PROVE ~Hierarchical /\ safety = 0
      BY <3>1, Surfaces DEF CoverInv
    <3>2. ASSUME IsEmbeddings PROVE reserved >= price + safety
      BY <3>1, <3>2, <2>5
    <3>3. ASSUME IsEmbeddings PROVE price + 0 = price
      BY <3>1, <3>3, Surfaces DEF CoverInv, DecidedWell, Decided
    <3> HIDE DEF price
    <3> QED BY <3>1, <3>2, <3>3
  <2> QED BY <2>3, <2>4, <2>5, <2>6, Zenon DEF CoveredBeforeRun, At
<1> QED BY <1>1, <1>2, <1>3, PTL DEF Spec

(***************************************************************************)
(* What a decided call leaves held.                                        *)
(***************************************************************************)
LeaseJob(jobs) == \E j \in Range(jobs) : j.do \in {"freeLease", "settleLease"}
HoldJob(jobs, held) ==
  \E j \in Range(jobs) : \/ j.do \in {"freeHold", "settleBilling"}
                         \/ j.do = "returnHold" /\ j.usd = held
FreesHold(jobs)   == \E j \in Range(jobs) : j.do = "freeHold"
OnlyBilling(jobs) == \A j \in Range(jobs) : j.do = "settleBilling"

\* Nothing goes back in part, and a row that is lost never looks like a crash.
Orderly(jobs) ==
  \A j \in Range(jobs) : /\ j.do \notin {"returnHold", "returnExtra"}
                         /\ j.do = "audit" => j.lost = None \/ j.lost.status = 503

\* What goes back in part goes back first, and what is left of it is freed.
Queue(jobs, held) ==
  \/ Orderly(jobs)
  \/ /\ jobs # <<>> /\ Orderly(Tail(jobs))
     /\ \/ Head(jobs).do = "returnHold"
        \/ Head(jobs).do = "returnExtra" /\ (held # None => FreesHold(Tail(jobs)))

LeaseLogged ==
  Failed("settleLease") \/ (IsStream /\ (Failed("book") \/ Failed("freeLease")))
HoldLogged ==
  Failed("settleBilling") \/ Failed("returnHold") \/ (IsStream /\ Failed("freeHold"))

ResolveInv ==
  /\ IsSeq(faults)
  /\ catching = "stream" => IsStream
  /\ pc \in {"first", "stream"} => IsStream
  /\ hold # None => NeedsHold
  /\ lease # None => NeedsLease
  /\ Queue(todo, hold)
  /\ pc = "reply" /\ Crashed => OnlyBilling(todo)
  /\ pc \in {"answer", "reply"} /\ ~(pc = "reply" /\ Crashed) /\ lease # None =>
       LeaseJob(todo) \/ LeaseLogged
  /\ pc = "reply" /\ ~Crashed /\ hold # None => HoldJob(todo, hold) \/ HoldLogged

\* The status of a reply is the one it is made with.
LEMMA Statuses ==
  /\ \A status, code : /\ Refuse(status, code).status = status
                        /\ Final(status, code).status = status
  /\ Crash.status = 500
  /\ \A retryable \in BOOLEAN : AuditUnavailable(retryable).status = 503
BY DEF Refuse, Final, Crash, AuditUnavailable

\* What is at the head is done, and the rest is still to come.
LEMMA NextJob ==
  ASSUME NEW s, NEW held, IsSeq(s), s # <<>>
  PROVE  /\ LeaseJob(s) => Head(s).do \in {"freeLease", "settleLease"} \/ LeaseJob(Tail(s))
         /\ HoldJob(s, held) => \/ Head(s).do \in {"freeHold", "settleBilling"}
                                \/ Head(s).do = "returnHold" /\ Head(s).usd = held
                                \/ HoldJob(Tail(s), held)
         /\ OnlyBilling(s) => Head(s).do = "settleBilling" /\ OnlyBilling(Tail(s))
         /\ Orderly(s) => Orderly(Tail(s)) /\ Head(s).do \notin {"returnHold", "returnExtra"}
         /\ Queue(s, held) => Orderly(Tail(s))
         /\ Queue(s, held) /\ Head(s).do = "audit" =>
              Head(s).lost = None \/ Head(s).lost.status = 503
         /\ Queue(s, held) /\ Head(s).do = "returnExtra" /\ held # None => FreesHold(Tail(s))
<1>1. Range(s) = {Head(s)} \union Range(Tail(s))
  BY TailOfJobs
<1>2. Orderly(s) => Orderly(Tail(s)) /\ Head(s).do \notin {"returnHold", "returnExtra"}
  BY <1>1 DEF Orderly
<1>3. Queue(s, held) => Orderly(Tail(s))
  BY <1>2 DEF Queue
<1>4. Queue(s, held) /\ Head(s).do = "audit" =>
        Head(s).lost = None \/ Head(s).lost.status = 503
  BY <1>1 DEF Queue, Orderly
<1>5. Queue(s, held) /\ Head(s).do = "returnExtra" /\ held # None => FreesHold(Tail(s))
  BY <1>2 DEF Queue
<1>6. LeaseJob(s) => Head(s).do \in {"freeLease", "settleLease"} \/ LeaseJob(Tail(s))
  BY <1>1 DEF LeaseJob
<1>7. HoldJob(s, held) => \/ Head(s).do \in {"freeHold", "settleBilling"}
                          \/ Head(s).do = "returnHold" /\ Head(s).usd = held
                          \/ HoldJob(Tail(s), held)
  BY <1>1 DEF HoldJob
<1>8. OnlyBilling(s) => Head(s).do = "settleBilling" /\ OnlyBilling(Tail(s))
  BY <1>1 DEF OnlyBilling
<1> QED BY <1>2, <1>3, <1>4, <1>5, <1>6, <1>7, <1>8

\* A list of the one job that frees something frees it.
LEMMA KindsOfJobs ==
  /\ \A s, u : Range(s) = {[do |-> "settleLease", usd |-> u]} => LeaseJob(s)
  /\ \A s, u : Range(s) = {[do |-> "freeLease", usd |-> u]} => LeaseJob(s)
  /\ \A s, u, held : Range(s) = {[do |-> "settleBilling", usd |-> u]} => HoldJob(s, held)
  /\ \A s, u : Range(s) = {[do |-> "freeHold", usd |-> u]} => FreesHold(s)
  /\ \A s, held : Range(s) = {[do |-> "returnHold", usd |-> held]} => HoldJob(s, held)
<1>1. ASSUME NEW s, NEW u, Range(s) = {[do |-> "settleLease", usd |-> u]} PROVE LeaseJob(s)
  BY <1>1 DEF LeaseJob
<1>2. ASSUME NEW s, NEW u, Range(s) = {[do |-> "freeLease", usd |-> u]} PROVE LeaseJob(s)
  BY <1>2 DEF LeaseJob
<1>3. ASSUME NEW s, NEW u, NEW held, Range(s) = {[do |-> "settleBilling", usd |-> u]}
      PROVE HoldJob(s, held)
  BY <1>3 DEF HoldJob
<1>4. ASSUME NEW s, NEW u, Range(s) = {[do |-> "freeHold", usd |-> u]} PROVE FreesHold(s)
  BY <1>4 DEF FreesHold
<1>5. ASSUME NEW s, NEW held, Range(s) = {[do |-> "returnHold", usd |-> held]}
      PROVE HoldJob(s, held)
  BY <1>5 DEF HoldJob
<1> QED BY <1>1, <1>2, <1>3, <1>4, <1>5, Zenon

\* Orderly lists put together are orderly, and free what either frees.
LEMMA OrderlyLists ==
  /\ Orderly(<<>>) /\ OnlyBilling(<<>>)
  /\ \A s, t : IsSeq(s) /\ IsSeq(t) =>
       /\ Orderly(s) /\ Orderly(t) => Orderly(s \o t)
       /\ LeaseJob(s) \/ LeaseJob(t) => LeaseJob(s \o t)
       /\ FreesHold(s) \/ FreesHold(t) => FreesHold(s \o t)
       /\ \A held : HoldJob(s, held) \/ HoldJob(t, held) => HoldJob(s \o t, held)
  /\ \A c, do, usd : do \notin {"returnHold", "returnExtra", "audit"} =>
       Orderly(JobIf(c, do, usd))
  /\ \A c, usd : c => /\ LeaseJob(JobIf(c, "settleLease", usd))
                       /\ LeaseJob(JobIf(c, "freeLease", usd))
  /\ \A c, usd, held : c => /\ HoldJob(JobIf(c, "settleBilling", usd), held)
                            /\ FreesHold(JobIf(c, "freeHold", usd))
                            /\ HoldJob(JobIf(c, "returnHold", held), held)
  /\ \A c, usd : OnlyBilling(JobIf(c, "settleBilling", usd))
  /\ \A status, usd, lost : lost = None \/ lost.status = 503 => Orderly(Row(status, usd, lost))
  /\ \A s, held : FreesHold(s) => HoldJob(s, held)
<1>1. Orderly(<<>>) /\ OnlyBilling(<<>>)
  BY OneJob DEF Orderly, OnlyBilling
<1>2. ASSUME NEW s, NEW t, IsSeq(s), IsSeq(t)
      PROVE  /\ Orderly(s) /\ Orderly(t) => Orderly(s \o t)
             /\ LeaseJob(s) \/ LeaseJob(t) => LeaseJob(s \o t)
             /\ FreesHold(s) \/ FreesHold(t) => FreesHold(s \o t)
             /\ \A held : HoldJob(s, held) \/ HoldJob(t, held) => HoldJob(s \o t, held)
  <2>1. Range(s \o t) = Range(s) \union Range(t)  BY <1>2, CatOfJobs
  <2>2. Orderly(s) /\ Orderly(t) => Orderly(s \o t)  BY <2>1 DEF Orderly
  <2>3. LeaseJob(s) \/ LeaseJob(t) => LeaseJob(s \o t)  BY <2>1 DEF LeaseJob
  <2>4. FreesHold(s) \/ FreesHold(t) => FreesHold(s \o t)  BY <2>1 DEF FreesHold
  <2>5. \A held : HoldJob(s, held) \/ HoldJob(t, held) => HoldJob(s \o t, held)
    BY <2>1 DEF HoldJob
  <2> QED BY <2>2, <2>3, <2>4, <2>5
<1>3. ASSUME NEW c, NEW do, NEW usd, do \notin {"returnHold", "returnExtra", "audit"}
      PROVE  Orderly(JobIf(c, do, usd))
  BY <1>3, OneJob DEF Orderly
<1>4. ASSUME NEW c, NEW usd, c
      PROVE  LeaseJob(JobIf(c, "settleLease", usd)) /\ LeaseJob(JobIf(c, "freeLease", usd))
  <2>1. /\ Range(JobIf(c, "settleLease", usd)) = {[do |-> "settleLease", usd |-> usd]}
        /\ Range(JobIf(c, "freeLease", usd)) = {[do |-> "freeLease", usd |-> usd]}
    <3>1. \A x : Range(<<x>>) = {x}  BY DEF Range
    <3>2. /\ JobIf(c, "settleLease", usd) = <<[do |-> "settleLease", usd |-> usd]>>
          /\ JobIf(c, "freeLease", usd) = <<[do |-> "freeLease", usd |-> usd]>>
      BY <1>4, Zenon DEF JobIf, Job
    <3> QED BY <3>1, <3>2
  <2> QED BY <2>1, KindsOfJobs, Zenon
<1>5. ASSUME NEW c, NEW usd, NEW held, c
      PROVE  /\ HoldJob(JobIf(c, "settleBilling", usd), held)
             /\ FreesHold(JobIf(c, "freeHold", usd))
             /\ HoldJob(JobIf(c, "returnHold", held), held)
  <2>1. /\ Range(JobIf(c, "settleBilling", usd)) = {[do |-> "settleBilling", usd |-> usd]}
        /\ Range(JobIf(c, "freeHold", usd)) = {[do |-> "freeHold", usd |-> usd]}
        /\ Range(JobIf(c, "returnHold", held)) = {[do |-> "returnHold", usd |-> held]}
    <3>1. \A x : Range(<<x>>) = {x}  BY DEF Range
    <3>2. /\ JobIf(c, "settleBilling", usd) = <<[do |-> "settleBilling", usd |-> usd]>>
          /\ JobIf(c, "freeHold", usd) = <<[do |-> "freeHold", usd |-> usd]>>
          /\ JobIf(c, "returnHold", held) = <<[do |-> "returnHold", usd |-> held]>>
      BY <1>5, Zenon DEF JobIf, Job
    <3> QED BY <3>1, <3>2
  <2> QED BY <2>1, KindsOfJobs, Zenon
<1>6. ASSUME NEW c, NEW usd PROVE OnlyBilling(JobIf(c, "settleBilling", usd))
  BY OneJob DEF OnlyBilling
<1>7. ASSUME NEW status, NEW usd, NEW lost, lost = None \/ lost.status = 503
      PROVE  Orderly(Row(status, usd, lost))
  BY <1>7, OneJob DEF Orderly
<1>8. ASSUME NEW s, NEW held, FreesHold(s) PROVE HoldJob(s, held)
  BY <1>8 DEF FreesHold, HoldJob
<1> QED BY <1>1, <1>2, <1>3, <1>4, <1>5, <1>6, <1>7, <1>8

\* So are the batches the handlers share.
LEMMA OrderlyBatches ==
  /\ Orderly(SettleBilling) /\ OnlyBilling(SettleBilling)
  /\ \A held : UsesCredits => HoldJob(SettleBilling, held)
  /\ \A usd : Orderly(IncurSafety(usd))
  /\ \A status, usd : Orderly(RejectionRow(status, usd))
  /\ Orderly(ReleaseWithSafety)
  /\ lease # None => LeaseJob(ReleaseWithSafety)
  /\ hold # None /\ NeedsHold => FreesHold(ReleaseWithSafety)
<1> USE OrderlyLists, Lists
<1>1. Orderly(SettleBilling) /\ OnlyBilling(SettleBilling)
  BY DEF SettleBilling
<1>2. ASSUME NEW held, UsesCredits PROVE HoldJob(SettleBilling, held)
  BY <1>2 DEF SettleBilling
<1>3. ASSUME NEW usd PROVE Orderly(IncurSafety(usd))
  BY DEF IncurSafety
<1>4. ASSUME NEW status, NEW usd PROVE Orderly(RejectionRow(status, usd))
  <2> DEFINE lost == IF IsChat THEN AuditUnavailable(usd = 0) ELSE None
  <2>1. (usd = 0) \in BOOLEAN  OBVIOUS
  <2>2. lost = None \/ lost.status = 503  BY <2>1, Statuses
  <2> HIDE DEF lost
  <2>3. Orderly(Row(status, usd, lost))  BY <2>2
  <2> QED BY <2>3 DEF RejectionRow, lost
<1> DEFINE incur == JobIf(safety > 0 /\ (Hierarchical \/ ~CreditsOnly), "book", safety)
           free  == JobIf(lease # None, "freeLease", 0)
           back  == JobIf(~Hierarchical /\ UsesCredits /\ (reserved > 0 \/ hold # None),
                          "freeHold", safety)
<1>5. /\ IsSeq(incur) /\ IsSeq(free) /\ IsSeq(back)
      /\ Orderly(incur) /\ Orderly(free) /\ Orderly(back)
      /\ lease # None => LeaseJob(free)
      /\ hold # None /\ NeedsHold => FreesHold(back)
  BY DEF NeedsHold
<1>6. ReleaseWithSafety = (incur \o free) \o back
  BY DEF ReleaseWithSafety
<1> HIDE DEF incur, free, back
<1>7. /\ IsSeq(incur \o free) /\ Orderly(incur \o free)
      /\ lease # None => LeaseJob(incur \o free)
  BY <1>5
<1>8. /\ Orderly(ReleaseWithSafety)
      /\ lease # None => LeaseJob(ReleaseWithSafety)
      /\ hold # None /\ NeedsHold => FreesHold(ReleaseWithSafety)
  BY <1>5, <1>6, <1>7
<1> QED BY <1>1, <1>2, <1>3, <1>4, <1>8

\* Batches as the actions put them together.
LEMMA OrderlyEndings ==
  /\ \A status, usd : LET s == ReleaseWithSafety \o RejectionRow(status, usd) IN
       /\ IsSeq(s) /\ Orderly(s)
       /\ lease # None => LeaseJob(s)
       /\ hold # None /\ NeedsHold => FreesHold(s)
  /\ \A usd, status, u : Orderly(IncurSafety(usd) \o RejectionRow(status, u))
                         /\ IsSeq(IncurSafety(usd) \o RejectionRow(status, u))
  /\ \A usd, status, u : Orderly(IncurSafety(usd) \o Row(status, u, AuditUnavailable(TRUE)))
  /\ \A status, u : Orderly(Row(status, u, AuditUnavailable(TRUE)))
  /\ \A status, u, code : LET s == Row(status, u, Final(503, code)) \o SettleBilling IN
       Orderly(s) /\ (UsesCredits => \A held : HoldJob(s, held))
  /\ \A status, u : LET s == Row(status, u, None) \o SettleBilling IN
       Orderly(s) /\ (UsesCredits => \A held : HoldJob(s, held))
<1> USE OrderlyLists, Lists
<1>1. ASSUME NEW status, NEW usd
      PROVE  LET s == ReleaseWithSafety \o RejectionRow(status, usd) IN
             /\ IsSeq(s) /\ Orderly(s)
             /\ lease # None => LeaseJob(s)
             /\ hold # None /\ NeedsHold => FreesHold(s)
  BY Batches, OrderlyBatches
<1>2. ASSUME NEW usd, NEW status, NEW u
      PROVE  /\ Orderly(IncurSafety(usd) \o RejectionRow(status, u))
             /\ IsSeq(IncurSafety(usd) \o RejectionRow(status, u))
  BY Batches, OrderlyBatches
<1>3. ASSUME NEW status, NEW u PROVE Orderly(Row(status, u, AuditUnavailable(TRUE)))
  BY Statuses
<1>4. ASSUME NEW usd, NEW status, NEW u
      PROVE  Orderly(IncurSafety(usd) \o Row(status, u, AuditUnavailable(TRUE)))
  BY <1>3, Batches, OrderlyBatches
<1>5. ASSUME NEW status, NEW u, NEW lost, lost = None \/ lost.status = 503
      PROVE  LET s == Row(status, u, lost) \o SettleBilling IN
             Orderly(s) /\ (UsesCredits => \A held : HoldJob(s, held))
  <2>1. Orderly(Row(status, u, lost)) /\ IsSeq(Row(status, u, lost)) /\ IsSeq(SettleBilling)
    BY <1>5, Batches
  <2> QED BY <2>1, OrderlyBatches
<1>6. ASSUME NEW status, NEW u, NEW code
      PROVE  LET s == Row(status, u, Final(503, code)) \o SettleBilling IN
             Orderly(s) /\ (UsesCredits => \A held : HoldJob(s, held))
  BY <1>5, Statuses
<1> QED BY <1>1, <1>2, <1>3, <1>4, <1>5, <1>6

\* What settles a call whose model has run: its lease, its row and its hold.
Settlement(jobs) ==
  \E usd, lost : /\ lost = None \/ lost.status = 503
                 /\ jobs = JobIf(NeedsLease, "settleLease", usd) \o Row("ok", usd, lost)
                           \o JobIf(UsesCredits \/ UsesMeter, "settleBilling", usd)

\* It is orderly, and resolves what the call can hold.
LEMMA OrderlySettlement ==
  ASSUME NEW jobs, Settlement(jobs)
  PROVE  /\ Orderly(jobs)
         /\ NeedsLease => LeaseJob(jobs)
         /\ UsesCredits \/ UsesMeter => \A held : HoldJob(jobs, held)
<1>1. PICK usd, lost :
        /\ lost = None \/ lost.status = 503
        /\ jobs = JobIf(NeedsLease, "settleLease", usd) \o Row("ok", usd, lost)
                  \o JobIf(UsesCredits \/ UsesMeter, "settleBilling", usd)
  BY DEF Settlement
<1> DEFINE a == JobIf(NeedsLease, "settleLease", usd)
           b == Row("ok", usd, lost)
           c == JobIf(UsesCredits \/ UsesMeter, "settleBilling", usd)
<1>2. IsSeq(a) /\ IsSeq(b) /\ IsSeq(c)  BY Lists
<1>3. Orderly(a) /\ Orderly(b) /\ Orderly(c)  BY <1>1, OrderlyLists
<1>4. ASSUME NeedsLease PROVE LeaseJob(a)  BY <1>4, OrderlyLists, Zenon
<1>5. ASSUME UsesCredits \/ UsesMeter PROVE \A held : HoldJob(c, held)
  BY <1>5, OrderlyLists, Zenon
<1>6. jobs = (a \o b) \o c  BY <1>1
<1> HIDE DEF a, b, c
<1>7. IsSeq(a \o b) /\ Orderly(a \o b) /\ (NeedsLease => LeaseJob(a \o b))
  BY <1>2, <1>3, <1>4, Lists, OrderlyLists
<1>8. Orderly((a \o b) \o c)  BY <1>2, <1>3, <1>7, OrderlyLists
<1>9. NeedsLease => LeaseJob((a \o b) \o c)  BY <1>2, <1>7, OrderlyLists
<1>10. UsesCredits \/ UsesMeter => \A held : HoldJob((a \o b) \o c, held)
  BY <1>2, <1>5, <1>7, OrderlyLists
<1> QED BY <1>6, <1>8, <1>9, <1>10

\* Something goes back before the rest is put in order.
LEMMA ReturnsFirst ==
  ASSUME NEW wanted \in BOOLEAN, NEW do \in {"returnHold", "returnExtra"}, NEW u, NEW held,
         NEW jobs, IsSeq(jobs), Orderly(jobs),
         do = "returnExtra" /\ held # None => FreesHold(jobs)
  PROVE  LET s == JobIf(wanted, do, u) \o jobs IN
         /\ Queue(s, held)
         /\ LeaseJob(jobs) => LeaseJob(s)
         /\ FreesHold(jobs) => FreesHold(s)
         /\ wanted /\ do = "returnHold" /\ u = held => HoldJob(s, held)
<1>1. CASE wanted
  <2> DEFINE job == [do |-> do, usd |-> u]
  <2>1. JobIf(wanted, do, u) = <<job>>  BY <1>1, Zenon DEF JobIf, Job
  <2>2. IsSeq(<<job>>) /\ Range(<<job>>) = {job}
    BY DEF IsSeq, Range
  <2>3. /\ Head(<<job>> \o jobs) = job /\ Tail(<<job>> \o jobs) = jobs
        /\ <<job>> \o jobs # <<>>
    BY DEF IsSeq
  <2>4. job.do = do /\ job.usd = u  OBVIOUS
  <2> HIDE DEF job
  <2>5. Range(<<job>> \o jobs) = {job} \union Range(jobs)  BY <2>2, CatOfJobs
  <2>6. Queue(<<job>> \o jobs, held)  BY <2>3, <2>4 DEF Queue
  <2>7. LeaseJob(jobs) => LeaseJob(<<job>> \o jobs)  BY <2>5 DEF LeaseJob
  <2>8. FreesHold(jobs) => FreesHold(<<job>> \o jobs)  BY <2>5 DEF FreesHold
  <2>9. do = "returnHold" /\ u = held => HoldJob(<<job>> \o jobs, held)
    BY <2>4, <2>5 DEF HoldJob
  <2> QED BY <2>1, <2>6, <2>7, <2>8, <2>9, Zenon
<1>2. CASE ~wanted
  <2>1. JobIf(wanted, do, u) = <<>>  BY <1>2, Zenon DEF JobIf
  <2>2. <<>> \o jobs = jobs  BY DEF IsSeq
  <2> QED BY <1>2, <2>1, <2>2 DEF Queue
<1> QED BY <1>1, <1>2

\* What has failed has failed for good.
LEMMA FaultsGrow ==
  ASSUME IsSeq(faults), call' = call,
         faults' = faults \/ \E op : faults' = Append(faults, op)
  PROVE  /\ IsSeq(faults')
         /\ \A op : Failed(op) => Failed(op)'
         /\ \A op : faults' = Append(faults, op) => Failed(op)' /\ op \in Range(faults')
         /\ LeaseLogged => LeaseLogged'
         /\ HoldLogged => HoldLogged'
<1>1. ASSUME NEW op, faults' = Append(faults, op)
      PROVE  IsSeq(faults') /\ Range(faults') = Range(faults) \union {op}
  <2>1. Append(faults, op) = faults \o <<op>>  BY DEF IsSeq
  <2>2. IsSeq(<<op>>) /\ Range(<<op>>) = {op}  BY DEF IsSeq, Range
  <2> QED BY <1>1, <2>1, <2>2, CatOfJobs
<1>2. IsSeq(faults') /\ Range(faults) \subseteq Range(faults')
  BY <1>1
<1>3. \A op : Failed(op) => Failed(op)'
  BY <1>2 DEF Failed
<1>4. \A op : faults' = Append(faults, op) => Failed(op)' /\ op \in Range(faults')
  BY <1>1 DEF Failed
<1>5. IsStream' = IsStream  BY DEF IsStream
<1>6. LeaseLogged => LeaseLogged'
  BY <1>2, <1>5 DEF LeaseLogged, Failed
<1>7. HoldLogged => HoldLogged'
  BY <1>2, <1>5 DEF HoldLogged, Failed
<1> QED BY <1>2, <1>3, <1>4, <1>6, <1>7

\* The job at the head is done, or has failed and was logged.
LEMMA PopStep ==
  ASSUME ResolveInv, IsSeq(todo), todo # <<>>, todo' = Tail(todo),
         UNCHANGED <<call, pc, catching>>, IsSeq(faults'),
         reply' = reply \/ (reply'.status = 503 /\ Head(todo).do = "audit"),
         LeaseLogged => LeaseLogged', HoldLogged => HoldLogged',
         \/ lease' = None
         \/ lease' = lease /\ (Head(todo).do \in {"freeLease", "settleLease"} => LeaseLogged'),
         \/ hold' = None
         \/ /\ hold' = hold
            /\ Head(todo).do \in {"freeHold", "settleBilling", "returnHold"} => HoldLogged'
         \/ /\ hold # None /\ Head(todo).do = "returnExtra"
         \/ /\ hold # None /\ hold # Head(todo).usd /\ Head(todo).do = "returnHold"
  PROVE  ResolveInv'
<1>1. /\ IsStream' = IsStream /\ NeedsHold' = NeedsHold /\ NeedsLease' = NeedsLease
  BY SameCall DEF IsStream
<1>2. Orderly(todo') /\ Queue(todo', hold')
  BY NextJob DEF ResolveInv, Queue
<1>3. hold' # None => hold # None
  OBVIOUS
<1>4. lease' # None => lease # None /\ lease' = lease
  OBVIOUS
<1>5. Crashed' => Crashed
  BY Statuses DEF Crashed
<1>6. pc = "reply" /\ Crashed => OnlyBilling(todo) /\ OnlyBilling(todo') /\ Crashed'
  <2>1. OnlyBilling(todo) => OnlyBilling(todo') /\ Head(todo).do # "audit"
    BY NextJob
  <2> QED BY <2>1 DEF ResolveInv, Crashed
<1>7. ASSUME pc \in {"answer", "reply"}, ~(pc = "reply" /\ Crashed), lease' # None
      PROVE  LeaseJob(todo') \/ LeaseLogged'
  <2>1. LeaseJob(todo) \/ LeaseLogged  BY <1>4, <1>7 DEF ResolveInv
  <2>2. LeaseJob(todo) => Head(todo).do \in {"freeLease", "settleLease"} \/ LeaseJob(todo')
    BY NextJob
  <2> QED BY <2>1, <2>2, <1>4, <1>7
<1>8. ASSUME pc = "reply", ~Crashed, hold' # None
      PROVE  HoldJob(todo', hold') \/ HoldLogged'
  <2>1. HoldJob(todo, hold) \/ HoldLogged  BY <1>3, <1>8 DEF ResolveInv
  <2>2. CASE Head(todo).do = "returnExtra"
    <3>1. FreesHold(todo')  BY <2>2, <1>3, <1>8, NextJob DEF ResolveInv
    <3> QED BY <3>1, OrderlyLists
  <2>3. CASE /\ hold' = hold
             /\ Head(todo).do \in {"freeHold", "settleBilling", "returnHold"} => HoldLogged'
    BY <2>1, <2>3, NextJob
  <2>4. CASE hold # Head(todo).usd /\ Head(todo).do = "returnHold"
    <3>1. HoldJob(todo', hold) \/ HoldLogged  BY <2>1, <2>4, NextJob
    <3>2. HoldJob(todo', hold) => HoldJob(todo', hold')
      BY <1>2 DEF HoldJob, Orderly
    <3> QED BY <3>1, <3>2
  <2> QED BY <2>2, <2>3, <2>4, <1>8
<1>9. /\ IsSeq(faults)'
      /\ (catching = "stream" => IsStream)'
      /\ (pc \in {"first", "stream"} => IsStream)'
      /\ (hold # None => NeedsHold)'
      /\ (lease # None => NeedsLease)'
  BY <1>1, <1>3, <1>4 DEF ResolveInv
<1>10. (pc = "reply" /\ Crashed => OnlyBilling(todo))'
  BY <1>5, <1>6
<1>11. (pc \in {"answer", "reply"} /\ ~(pc = "reply" /\ Crashed) /\ lease # None =>
          LeaseJob(todo) \/ LeaseLogged)'
  BY <1>6, <1>7
<1>12. (pc = "reply" /\ ~Crashed /\ hold # None => HoldJob(todo, hold) \/ HoldLogged)'
  BY <1>6, <1>8
<1> QED BY <1>2, <1>9, <1>10, <1>11, <1>12 DEF ResolveInv

\* A handler has decided its reply and put what is left in order.
LEMMA RepliedStep ==
  ASSUME ResolveInv, call' = call, pc' = "reply", IsSeq(faults'),
         catching' = "stream" => catching = "stream" \/ IsStream,
         hold' # None => NeedsHold, lease' # None => NeedsLease,
         Queue(todo', hold'),
         \/ reply' = Crash /\ OnlyBilling(todo')
         \/ /\ reply'.status # 500
            /\ lease' # None => LeaseJob(todo') \/ LeaseLogged'
            /\ hold' # None => HoldJob(todo', hold')
  PROVE  ResolveInv'
<1>1. /\ IsStream' = IsStream /\ NeedsHold' = NeedsHold /\ NeedsLease' = NeedsLease
  BY SameCall DEF IsStream
<1>2. /\ IsSeq(faults)'
      /\ (catching = "stream" => IsStream)'
      /\ (pc \in {"first", "stream"} => IsStream)'
      /\ (hold # None => NeedsHold)'
      /\ (lease # None => NeedsLease)'
  BY <1>1 DEF ResolveInv
<1>3. Crashed' => reply'.status = 500
  BY Statuses DEF Crashed
<1>4. (pc = "reply" /\ Crashed => OnlyBilling(todo))'
  BY <1>3
<1>5. reply' = Crash => Crashed'  BY DEF Crashed, Crash, Refuse
<1>6. (pc \in {"answer", "reply"} /\ ~(pc = "reply" /\ Crashed) /\ lease # None =>
          LeaseJob(todo) \/ LeaseLogged)'
  BY <1>5
<1>7. (pc = "reply" /\ ~Crashed /\ hold # None => HoldJob(todo, hold) \/ HoldLogged)'
  BY <1>5
<1> QED BY <1>2, <1>4, <1>6, <1>7 DEF ResolveInv

\* A refusal before anything is held.
LEMMA RefusedStep ==
  ASSUME ResolveInv, CoverInv, call' = call, pc \in Unheld, pc' = "reply",
         UNCHANGED <<lease, hold, catching, faults>>,
         \/ reply' = Crash /\ todo' = <<>>
         \/ reply'.status # 500 /\ Orderly(todo')
  PROVE  ResolveInv'
<1>1. lease' = None /\ hold' = None /\ IsSeq(faults')
  BY DEF CoverInv, ResolveInv
<1>2. Queue(todo', hold') /\ (reply' = Crash => OnlyBilling(<<>>))
  BY OrderlyLists DEF Queue
<1> QED BY <1>1, <1>2, RepliedStep

\* The handler goes on: what it holds is what CoverInv says.
LEMMA GoesOnStep ==
  ASSUME ResolveInv, CoverInv', call' = call,
         pc' \in Unheld \union Held \union {"lease", "grow_lease"},
         pc' \in {"first", "stream"} => IsStream,
         faults' = faults, catching' = "stream" => catching = "stream"
  PROVE  ResolveInv'
<1>1. /\ IsStream' = IsStream /\ NeedsHold' = NeedsHold /\ NeedsLease' = NeedsLease
  BY SameCall DEF IsStream
<1>2. todo' = <<>> /\ Queue(todo', hold')
  BY OrderlyLists DEF CoverInv, Queue, Unheld, Held
<1>3. hold' # None => NeedsHold'
  BY DEF CoverInv, Unheld, Held
<1>4. lease' # None => NeedsLease'
  BY DEF CoverInv, Unheld, Held
<1>5. pc' \notin {"answer", "reply"}
  BY DEF Unheld, Held
<1> QED BY <1>1, <1>2, <1>3, <1>4, <1>5 DEF ResolveInv

\* A release, whatever is written to the log after it.
LEMMA ReleasedStep ==
  ASSUME ResolveInv, pc' = "reply", UNCHANGED <<call, lease, hold, faults>>,
         reply'.status # 500, catching' = "stream" => catching = "stream" \/ IsStream,
         \/ todo' = ReleaseWithSafety
         \/ \E status, usd : todo' = ReleaseWithSafety \o RejectionRow(status, usd)
  PROVE  ResolveInv'
<1>1. IsSeq(faults') /\ (hold' # None => NeedsHold) /\ (lease' # None => NeedsLease)
  BY DEF ResolveInv
<1>2. /\ Orderly(todo') /\ (lease # None => LeaseJob(todo'))
      /\ hold # None /\ NeedsHold => FreesHold(todo')
  <2>1. CASE todo' = ReleaseWithSafety  BY <2>1, OrderlyBatches
  <2>2. CASE \E status, usd : todo' = ReleaseWithSafety \o RejectionRow(status, usd)
    <3>1. PICK status, usd : todo' = ReleaseWithSafety \o RejectionRow(status, usd)
      BY <2>2
    <3> QED BY <3>1, OrderlyEndings
  <2> QED BY <2>1, <2>2
<1>3. /\ Queue(todo', hold')
      /\ lease' # None => LeaseJob(todo')
      /\ hold' # None => HoldJob(todo', hold')
  BY <1>1, <1>2, OrderlyLists DEF Queue
<1> QED BY <1>1, <1>3, RepliedStep

\* A model has run, and the ledgers settle what it cost.
LEMMA SettledStep ==
  ASSUME ResolveInv, pc' = "reply", UNCHANGED <<call, lease, hold, faults>>,
         reply'.status # 500, catching' = "stream" => catching = "stream" \/ IsStream,
         Settlement(todo')
  PROVE  ResolveInv'
<1>1. IsSeq(faults') /\ (hold' # None => NeedsHold) /\ (lease' # None => NeedsLease)
  BY DEF ResolveInv
<1>2. /\ Orderly(todo') /\ (NeedsLease => LeaseJob(todo'))
      /\ (UsesCredits \/ UsesMeter => \A held : HoldJob(todo', held))
  BY OrderlySettlement
<1>3. /\ Queue(todo', hold')
      /\ lease' # None => LeaseJob(todo')
      /\ hold' # None => HoldJob(todo', hold')
  BY <1>1, <1>2 DEF Queue, NeedsHold
<1> QED BY <1>1, <1>3, RepliedStep

\* An answer settles the lease before it is screened.
LEMMA AnsweredStep ==
  ASSUME ResolveInv, pc' = "answer", UNCHANGED <<call, lease, hold, faults>>,
         catching' \in {catching, "none"},
         \E usd : todo' = JobIf(NeedsLease, "settleLease", usd)
  PROVE  ResolveInv'
<1>1. /\ IsStream' = IsStream /\ NeedsHold' = NeedsHold /\ NeedsLease' = NeedsLease
  BY SameCall DEF IsStream
<1>2. /\ Orderly(todo') /\ (NeedsLease => LeaseJob(todo'))
  <2>1. PICK usd : todo' = JobIf(NeedsLease, "settleLease", usd)  OBVIOUS
  <2>2. Orderly(todo')  BY <2>1, OrderlyLists
  <2>3. ASSUME NeedsLease PROVE LeaseJob(todo')  BY <2>1, <2>3, OrderlyLists, Zenon
  <2> QED BY <2>2, <2>3
<1>3. Queue(todo', hold')  BY <1>2 DEF Queue
<1>4. lease' # None => LeaseJob(todo')  BY <1>2 DEF ResolveInv
<1> QED BY <1>1, <1>3, <1>4 DEF ResolveInv

\* What comes back is screened once the lease is settled; the wallet still pays.
LEMMA ScreenedStep ==
  ASSUME ResolveInv, pc = "answer", todo = <<>>, pc' = "reply",
         UNCHANGED <<call, lease, hold, faults, catching>>,
         \/ /\ reply'.status # 500
            /\ \/ \E status, usd, code :
                    todo' = Row(status, usd, Final(503, code)) \o SettleBilling
               \/ \E status, usd : todo' = Row(status, usd, None) \o SettleBilling
         \/ reply' = Crash /\ (todo' = <<>> \/ todo' = SettleBilling)
  PROVE  ResolveInv'
<1>1. IsSeq(faults') /\ (hold' # None => NeedsHold) /\ (lease' # None => NeedsLease)
  BY DEF ResolveInv
<1>2. ~LeaseJob(<<>>)  BY OneJob DEF LeaseJob
<1>3. lease' # None => LeaseLogged'
  <2>1. LeaseLogged' = LeaseLogged  BY DEF LeaseLogged, Failed, IsStream
  <2> QED BY <1>2, <2>1 DEF ResolveInv
<1>4. CASE reply' = Crash /\ (todo' = <<>> \/ todo' = SettleBilling)
  <2>1. Queue(todo', hold') /\ OnlyBilling(todo')
    BY <1>4, OrderlyLists, OrderlyBatches DEF Queue
  <2> QED BY <1>1, <1>4, <2>1, RepliedStep
<1>5. CASE /\ reply'.status # 500
           /\ \/ \E status, usd, code :
                   todo' = Row(status, usd, Final(503, code)) \o SettleBilling
              \/ \E status, usd : todo' = Row(status, usd, None) \o SettleBilling
  <2>1. Orderly(todo') /\ (UsesCredits => \A held : HoldJob(todo', held))
    <3>1. CASE \E status, usd, code :
                 todo' = Row(status, usd, Final(503, code)) \o SettleBilling
      <4>1. PICK status, usd, code :
              todo' = Row(status, usd, Final(503, code)) \o SettleBilling
        BY <3>1
      <4> QED BY <4>1, OrderlyEndings
    <3>2. CASE \E status, usd : todo' = Row(status, usd, None) \o SettleBilling
      <4>1. PICK status, usd : todo' = Row(status, usd, None) \o SettleBilling
        BY <3>2
      <4> QED BY <4>1, OrderlyEndings
    <3> QED BY <1>5, <3>1, <3>2
  <2>2. Queue(todo', hold') /\ (hold' # None => HoldJob(todo', hold'))
    BY <1>1, <2>1 DEF Queue, NeedsHold
  <2> QED BY <1>1, <1>3, <1>5, <2>2, RepliedStep
<1> QED BY <1>4, <1>5

\* The lease is refused: the credits go back first.
LEMMA LeaseResolves ==
  ASSUME ResolveInv, CoverInv, CoverInv', NEW jobs, ReserveBudget(jobs), IsSeq(jobs),
         Orderly(jobs)
  PROVE  ResolveInv'
<1>1. pc = "lease" /\ UNCHANGED <<call, hold, catching, faults>>
  BY DEF ReserveBudget, At
<1>2. CASE pc' = "reply"
  <2>1. /\ todo' = JobIf(hold # None, "returnHold", reserved) \o jobs
        /\ reply'.status # 500 /\ UNCHANGED lease
    BY <1>2, Statuses DEF ReserveBudget, Answer
  <2>2. /\ lease' = None /\ hold' = IF NeedsHold THEN reserved ELSE None
    BY <1>1, <2>1 DEF CoverInv
  <2>3. IsSeq(faults')  BY <1>1 DEF ResolveInv
  <2>4. /\ Queue(todo', hold)
        /\ hold # None /\ reserved = hold => HoldJob(todo', hold)
    BY <2>1, ReturnsFirst
  <2> QED BY <1>1, <1>2, <2>1, <2>2, <2>3, <2>4, RepliedStep
<1>3. CASE pc' # "reply"
  <2>1. pc' = "call"  BY <1>3 DEF ReserveBudget, Answer
  <2> QED BY <1>1, <2>1, GoesOnStep DEF Held
<1> QED BY <1>2, <1>3

\* The hold does not grow: all that is held goes back.
LEMMA GrowHoldResolves ==
  ASSUME ResolveInv, CoverInv', \E status, usd : GrowHold(RejectionRow(status, usd))
  PROVE  ResolveInv'
<1>1. UNCHANGED <<call, lease, catching, faults>>
  BY DEF GrowHold
<1>2. CASE pc' = "reply"
  <2>1. /\ UNCHANGED hold /\ reply'.status # 500
        /\ \E status, usd : todo' = ReleaseWithSafety \o RejectionRow(status, usd)
    BY <1>2, Statuses DEF GrowHold, Answer
  <2> QED BY <1>1, <1>2, <2>1, ReleasedStep
<1>3. CASE pc' # "reply"
  <2>1. pc' \in {"call_fallback", "grow_lease"}
    BY <1>3 DEF GrowHold, Answer
  <2> QED BY <1>1, <2>1, GoesOnStep DEF Held
<1> QED BY <1>2, <1>3

\* The lease does not grow: what the hold had gained goes back first.
LEMMA GrowLeaseResolves ==
  ASSUME ResolveInv, CoverInv', \E status, usd : GrowLease(RejectionRow(status, usd))
  PROVE  ResolveInv'
<1>1. UNCHANGED <<call, hold, catching, faults>>
  BY DEF GrowLease
<1>2. CASE pc' = "reply"
  <2> DEFINE wanted == UsesCredits
  <2>1. /\ UNCHANGED lease /\ reply'.status # 500
        /\ \E status, usd : todo' = JobIf(UsesCredits, "returnExtra", Extra)
                                    \o ReleaseWithSafety \o RejectionRow(status, usd)
    BY <1>2, Statuses DEF GrowLease, Answer
  <2>2. PICK status, usd : todo' = JobIf(UsesCredits, "returnExtra", Extra)
                                   \o ReleaseWithSafety \o RejectionRow(status, usd)
    BY <2>1
  <2> DEFINE rest == ReleaseWithSafety \o RejectionRow(status, usd)
             first == JobIf(UsesCredits, "returnExtra", Extra)
  <2>3. IsSeq(first) /\ IsSeq(ReleaseWithSafety) /\ IsSeq(RejectionRow(status, usd))
    BY Lists, Batches
  <2>4. todo' = first \o rest
    BY <2>2, <2>3 DEF IsSeq
  <2>5. IsSeq(faults') /\ (hold' # None => NeedsHold) /\ (lease' # None => NeedsLease)
    BY <1>1, <2>1 DEF ResolveInv
  <2>6. /\ IsSeq(rest) /\ Orderly(rest) /\ (lease # None => LeaseJob(rest))
        /\ hold # None /\ NeedsHold => FreesHold(rest)
    BY OrderlyEndings
  <2> HIDE DEF rest
  <2>7. UsesCredits \in BOOLEAN  BY DEF UsesCredits
  <2>8. /\ Queue(todo', hold) /\ (LeaseJob(rest) => LeaseJob(todo'))
        /\ FreesHold(rest) => FreesHold(todo')
    BY <1>1, <2>4, <2>5, <2>6, <2>7, ReturnsFirst
  <2>9. /\ lease' # None => LeaseJob(todo')
        /\ hold' # None => HoldJob(todo', hold')
    BY <1>1, <2>1, <2>5, <2>6, <2>8, OrderlyLists
  <2> QED BY <1>1, <1>2, <2>1, <2>5, <2>8, <2>9, RepliedStep
<1>3. CASE pc' # "reply"
  <2>1. pc' = "call_fallback"
    BY <1>3 DEF GrowLease, Answer
  <2> QED BY <1>1, <2>1, GoesOnStep DEF Held
<1> QED BY <1>2, <1>3

\* The top-up has thrown, and what it had added to the hold is back.
LEMMA GrowThrowsResolves ==
  ASSUME ResolveInv, CoverInv,
         \E with, status, usd : with.status # 500 /\ GrowThrows(with, RejectionRow(status, usd))
  PROVE  ResolveInv'
<1>1. /\ pc \in {"grow_hold", "grow_lease"} /\ pc' = "reply" /\ UNCHANGED <<call, lease>>
      /\ catching' = "none" /\ reply'.status # 500 /\ faults' = Append(faults, pc)
      /\ hold' = hold \/ (UsesCredits /\ pc = "grow_lease")
      /\ \E status, usd : todo' = ReleaseWithSafety \o RejectionRow(status, usd)
  BY DEF GrowThrows, At, Answer, Fault
<1>2. IsSeq(faults')  BY <1>1, FaultsGrow DEF ResolveInv
<1>3. ~Hierarchical  BY <1>1 DEF CoverInv
<1>4. hold' # None => NeedsHold /\ hold # None
  <2>1. CASE hold' = hold  BY <2>1 DEF ResolveInv
  <2>2. CASE UsesCredits /\ pc = "grow_lease"
    <3>1. NeedsHold  BY <1>3, <2>2 DEF NeedsHold
    <3>2. hold = reserved + Extra /\ reserved \in Nat /\ safety \in Nat
          /\ decision.estimate \in Nat
      BY <2>2, <3>1, <1>3, Surfaces DEF CoverInv, Decided, DecidedWell
    <3>3. hold \in Int  BY <3>2 DEF Extra
    <3> QED BY <3>1, <3>3, NoneIsNoNumber
  <2> QED BY <1>1, <2>1, <2>2
<1>5. lease' # None => NeedsLease  BY <1>1 DEF ResolveInv
<1>6. /\ Orderly(todo') /\ (lease # None => LeaseJob(todo'))
      /\ hold # None /\ NeedsHold => FreesHold(todo')
  BY <1>1, OrderlyEndings
<1>7. /\ Queue(todo', hold')
      /\ lease' # None => LeaseJob(todo')
      /\ hold' # None => HoldJob(todo', hold')
  BY <1>1, <1>4, <1>6, OrderlyLists DEF Queue
<1> QED BY <1>1, <1>2, <1>4, <1>5, <1>7, RepliedStep

\* No step leaves something held that nothing will release.
LEMMA ResolveStep ==
  ASSUME IsSeq(todo), CoverInv, CoverInv', ResolveInv, [Next]_vars
  PROVE  ResolveInv'
\* One job of the queue.
<1>1. ASSUME Debit PROVE ResolveInv'
  <2>1. /\ todo # <<>> /\ todo' = Tail(todo)
        /\ UNCHANGED <<call, pc, catching, reply, faults, lease, hold>>
        /\ Head(todo).do \in {"debit", "book", "audit"}
    BY <1>1 DEF Debit, Done, Keep, Due
  <2>2. IsSeq(faults')  BY <2>1 DEF ResolveInv
  <2>3. (LeaseLogged => LeaseLogged') /\ (HoldLogged => HoldLogged')  BY <2>1,
       FaultsGrow DEF ResolveInv
  <2> QED BY <2>1, <2>2, <2>3, PopStep
<1>2. ASSUME Book PROVE ResolveInv'
  <2>1. /\ todo # <<>> /\ todo' = Tail(todo)
        /\ UNCHANGED <<call, pc, catching, reply, faults, lease, hold>>
        /\ Head(todo).do \in {"debit", "book", "audit"}
    BY <1>2 DEF Book, Done, Keep, Due
  <2>2. IsSeq(faults')  BY <2>1 DEF ResolveInv
  <2>3. (LeaseLogged => LeaseLogged') /\ (HoldLogged => HoldLogged')  BY <2>1,
       FaultsGrow DEF ResolveInv
  <2> QED BY <2>1, <2>2, <2>3, PopStep
<1>3. ASSUME WriteAudit PROVE ResolveInv'
  <2>1. /\ todo # <<>> /\ todo' = Tail(todo)
        /\ UNCHANGED <<call, pc, catching, reply, faults, lease, hold>>
        /\ Head(todo).do \in {"debit", "book", "audit"}
    BY <1>3 DEF WriteAudit, Done, Keep, Due
  <2>2. IsSeq(faults')  BY <2>1 DEF ResolveInv
  <2>3. (LeaseLogged => LeaseLogged') /\ (HoldLogged => HoldLogged')  BY <2>1,
       FaultsGrow DEF ResolveInv
  <2> QED BY <2>1, <2>2, <2>3, PopStep
<1>4. ASSUME FreeLease PROVE ResolveInv'
  <2>1. /\ todo # <<>> /\ todo' = Tail(todo)
        /\ UNCHANGED <<call, pc, catching, reply, faults, hold>>
        /\ Head(todo).do = "freeLease" /\ lease' = None
    BY <1>4 DEF FreeLease, Done, Keep, Due
  <2>2. IsSeq(faults')  BY <2>1 DEF ResolveInv
  <2>3. (LeaseLogged => LeaseLogged') /\ (HoldLogged => HoldLogged')  BY <2>1,
       FaultsGrow DEF ResolveInv
  <2> QED BY <2>1, <2>2, <2>3, PopStep
<1>5. ASSUME SettleLease PROVE ResolveInv'
  <2>1. /\ todo # <<>> /\ todo' = Tail(todo)
        /\ UNCHANGED <<call, pc, catching, reply, faults, hold>>
        /\ Head(todo).do = "settleLease" /\ lease' = None
    BY <1>5 DEF SettleLease, Done, Keep, Due
  <2>2. IsSeq(faults')  BY <2>1 DEF ResolveInv
  <2>3. (LeaseLogged => LeaseLogged') /\ (HoldLogged => HoldLogged')  BY <2>1,
       FaultsGrow DEF ResolveInv
  <2> QED BY <2>1, <2>2, <2>3, PopStep
<1>6. ASSUME FreeHold PROVE ResolveInv'
  <2>1. /\ todo # <<>> /\ todo' = Tail(todo)
        /\ UNCHANGED <<call, pc, catching, reply, faults, lease>>
        /\ Head(todo).do = "freeHold" /\ hold' = None
    BY <1>6 DEF FreeHold, Done, Keep, Due
  <2>2. IsSeq(faults')  BY <2>1 DEF ResolveInv
  <2>3. (LeaseLogged => LeaseLogged') /\ (HoldLogged => HoldLogged')  BY <2>1,
       FaultsGrow DEF ResolveInv
  <2> QED BY <2>1, <2>2, <2>3, PopStep
<1>7. ASSUME SettleBillingDone PROVE ResolveInv'
  <2>1. /\ todo # <<>> /\ todo' = Tail(todo)
        /\ UNCHANGED <<call, pc, catching, reply, faults, lease>>
        /\ Head(todo).do = "settleBilling" /\ hold' = IF UsesCredits THEN None ELSE hold
    BY <1>7 DEF SettleBillingDone, Done, Keep, Due
  <2>2. IsSeq(faults')  BY <2>1 DEF ResolveInv
  <2>3. (LeaseLogged => LeaseLogged') /\ (HoldLogged => HoldLogged')  BY <2>1,
       FaultsGrow DEF ResolveInv
  <2>4. hold' = None  BY <2>1 DEF ResolveInv, NeedsHold
  <2> QED BY <2>1, <2>2, <2>3, <2>4, PopStep
<1>8. ASSUME ReturnHold PROVE ResolveInv'
  <2>1. /\ todo # <<>> /\ todo' = Tail(todo)
        /\ UNCHANGED <<call, pc, catching, reply, faults, lease>>
        /\ Head(todo).do \in {"returnHold", "returnExtra"}
        /\ hold' = None \/ (hold # None /\ hold # Head(todo).usd)
    BY <1>8 DEF ReturnHold, Done, Keep, Due, Usd
  <2>2. IsSeq(faults')  BY <2>1 DEF ResolveInv
  <2>3. (LeaseLogged => LeaseLogged') /\ (HoldLogged => HoldLogged')  BY <2>1,
       FaultsGrow DEF ResolveInv
  <2> QED BY <2>1, <2>2, <2>3, PopStep
<1>9. ASSUME OperationIsLogged PROVE ResolveInv'
  <2>1. /\ todo # <<>> /\ todo' = Tail(todo)
        /\ UNCHANGED <<call, pc, catching, reply, lease, hold>>
        /\ Head(todo).do \in {"settleLease", "settleBilling", "returnHold"}
        /\ faults' = Append(faults, Head(todo).do)
    BY <1>9 DEF OperationIsLogged, Keep, Due, Fault
  <2>2. /\ IsSeq(faults') /\ Head(todo).do \in Range(faults')
        /\ (LeaseLogged => LeaseLogged') /\ (HoldLogged => HoldLogged')
    BY <2>1, FaultsGrow DEF ResolveInv
  <2>3. Head(todo).do = "settleLease" => LeaseLogged'  BY <2>2 DEF LeaseLogged, Failed
  <2>4. Head(todo).do \in {"settleBilling", "returnHold"} => HoldLogged'  BY <2>2
       DEF HoldLogged, Failed
  <2> QED BY <2>1, <2>2, <2>3, <2>4, PopStep
<1>10. ASSUME AuditFails PROVE ResolveInv'
  <2>1. /\ todo # <<>> /\ todo' = Tail(todo) /\ UNCHANGED <<call, pc, catching, lease, hold>>
        /\ Head(todo).do = "audit" /\ faults' = Append(faults, "audit")
        /\ reply' = IF Head(todo).lost = None THEN reply ELSE Head(todo).lost
    BY <1>10 DEF AuditFails, Keep, Due, Fault
  <2>2. /\ IsSeq(faults')
        /\ (LeaseLogged => LeaseLogged') /\ (HoldLogged => HoldLogged')
    BY <2>1, FaultsGrow DEF ResolveInv
  <2>3. Head(todo).lost = None \/ Head(todo).lost.status = 503  BY <2>1, NextJob
       DEF ResolveInv
  <2> QED BY <2>1, <2>2, <2>3, PopStep
<1>11. ASSUME StreamReleaseIsLogged PROVE ResolveInv'
  <2>1. /\ todo # <<>> /\ UNCHANGED <<call, pc, catching, reply, lease, hold>>
        /\ Head(todo).do \in {"book", "freeLease", "freeHold"} /\ catching = "stream"
        /\ faults' = Append(faults, Head(todo).do)
        /\ \/ todo' = Tail(todo)
           \/ /\ Head(todo).do = "book" /\ Tail(todo) # <<>>
              /\ Head(Tail(todo)).do = "freeLease"
              /\ todo' = Tail(Tail(todo))
    BY <1>11 DEF StreamReleaseIsLogged, Keep, Due, Fault
  <2>2. /\ IsSeq(faults') /\ Head(todo).do \in Range(faults')
        /\ (LeaseLogged => LeaseLogged') /\ (HoldLogged => HoldLogged')
    BY <2>1, FaultsGrow DEF ResolveInv
  <2>3. IsStream'  BY <2>1 DEF ResolveInv, IsStream
  <2>4. Head(todo).do \in {"book", "freeLease"} => LeaseLogged'  BY <2>2, <2>3
       DEF LeaseLogged, Failed
  <2>5. Head(todo).do = "freeHold" => HoldLogged'  BY <2>2, <2>3 DEF HoldLogged, Failed
  <2>6. CASE todo' = Tail(todo)
    BY <2>1, <2>2, <2>4, <2>5, <2>6, PopStep
  <2>7. CASE /\ Head(todo).do = "book" /\ Tail(todo) # <<>> /\ Head(Tail(todo)).do = "freeLease"
             /\ todo' = Tail(Tail(todo))
    <3>1. Orderly(Tail(todo)) /\ IsSeq(Tail(todo))  BY <2>1, NextJob, TailOfJobs
         DEF ResolveInv
    <3>2. Orderly(todo')  BY <2>7, <3>1, NextJob
    <3>3. HoldJob(todo, hold) => HoldJob(todo', hold)
      <4>1. HoldJob(todo, hold) => HoldJob(Tail(todo), hold)  BY <2>1, <2>7, NextJob
      <4>2. HoldJob(Tail(todo), hold) => HoldJob(Tail(Tail(todo)), hold)  BY <2>7, <3>1, NextJob
      <4> QED BY <2>7, <4>1, <4>2
    <3>4. LeaseLogged'  BY <2>4, <2>7
    <3>5. pc = "reply" /\ Crashed => FALSE
      <4>1. OnlyBilling(todo) => Head(todo).do = "settleBilling"  BY <2>1, NextJob
      <4> QED BY <2>7, <4>1 DEF ResolveInv
    <3>6. Crashed' = Crashed  BY <2>1 DEF Crashed
    <3>7. NeedsHold' = NeedsHold /\ NeedsLease' = NeedsLease  BY <2>1, SameCall
    <3>8. Queue(todo', hold')  BY <3>2 DEF Queue
    <3>9. (pc = "reply" /\ ~Crashed /\ hold # None => HoldJob(todo, hold) \/ HoldLogged)'
      BY <2>1, <2>2, <3>3, <3>6 DEF ResolveInv
    <3>10. /\ (catching = "stream" => IsStream)' /\ (pc \in {"first", "stream"} => IsStream)'
           /\ (hold # None => NeedsHold)' /\ (lease # None => NeedsLease)'
      BY <2>1, <2>3, <3>7 DEF ResolveInv
    <3> QED BY <2>1, <2>2, <3>4, <3>5, <3>6, <3>8, <3>9, <3>10 DEF ResolveInv
  <2> QED BY <2>1, <2>6, <2>7
\* What throws, and what the catch blocks put in order.
<1>12. ASSUME OperationThrows PROVE ResolveInv'
  <2>1. /\ pc' = "reply" /\ UNCHANGED <<call, lease, hold>> /\ catching # "stream"
        /\ catching' \in {catching, "rerun"}
        /\ faults' = Append(faults, Head(todo).do)
        /\ \/ /\ todo' = ReleaseWithSafety \o RejectionRow("failed", safety)
              /\ \/ reply' = Refuse(502, "provider_unavailable")
                 \/ reply' = Refuse(503, "budget_unavailable")
           \/ todo' = <<>> /\ reply' = Crash
    BY <1>12 DEF OperationThrows, Fault
  <2>2. IsSeq(faults')  BY <2>1, FaultsGrow DEF ResolveInv
  <2>3. (hold' # None => NeedsHold) /\ (lease' # None => NeedsLease)  BY <2>1 DEF ResolveInv
  <2>4. CASE todo' = <<>> /\ reply' = Crash
    <3>1. Queue(todo', hold') /\ OnlyBilling(todo')  BY <2>4, OrderlyLists DEF Queue
    <3> QED BY <2>1, <2>2, <2>3, <2>4, <3>1, RepliedStep
  <2>5. CASE /\ todo' = ReleaseWithSafety \o RejectionRow("failed", safety)
             /\ \/ reply' = Refuse(502, "provider_unavailable")
                \/ reply' = Refuse(503, "budget_unavailable")
    <3>1. /\ Orderly(todo') /\ (lease # None => LeaseJob(todo'))
          /\ (hold # None /\ NeedsHold => FreesHold(todo'))
      BY <2>5, OrderlyEndings
    <3>2. reply'.status # 500  BY <2>5, Statuses
    <3>3. Queue(todo', hold') /\ (hold' # None => HoldJob(todo', hold'))
          /\ (lease' # None => LeaseJob(todo'))
      BY <3>1, <2>1, <2>3, OrderlyLists DEF Queue
    <3> QED BY <2>1, <2>2, <2>3, <3>2, <3>3, RepliedStep
  <2> QED BY <2>1, <2>4, <2>5
<1>13. ASSUME ReserveThrows PROVE ResolveInv'
  <2>1. /\ pc' = "reply" /\ UNCHANGED <<call, lease, hold, catching>> /\ todo' = <<>>
        /\ reply' = Crash
        /\ faults' = Append(faults, pc)
    BY <1>13 DEF ReserveThrows, Fault
  <2>2. IsSeq(faults')  BY <2>1, FaultsGrow DEF ResolveInv
  <2>3. (hold' # None => NeedsHold) /\ (lease' # None => NeedsLease)  BY <2>1 DEF ResolveInv
  <2>4. Queue(todo', hold') /\ OnlyBilling(todo')  BY <2>1, OrderlyLists DEF Queue
  <2> QED BY <2>1, <2>2, <2>3, <2>4, RepliedStep
\* On the way to the reservation.
<1>14. ASSUME CheckPause PROVE ResolveInv'
  <2>1. pc = "pause" /\ UNCHANGED <<call, catching, faults>>
    BY <1>14 DEF CheckPause, At, Answer
  <2>2. CASE pc' = "reply"
    <3>1. UNCHANGED <<lease, hold>>
      BY <1>14, <2>1, <2>2 DEF CheckPause, At, Answer
    <3>2. \/ reply' = Crash /\ todo' = <<>>
          \/ reply'.status # 500 /\ Orderly(todo')
      BY <1>14, <2>1, <2>2, Statuses, OrderlyLists, OrderlyBatches, OrderlyEndings
           DEF CheckPause, At, Answer
    <3> QED BY <2>1, <2>2, <3>1, <3>2, RefusedStep DEF Unheld
  <2>3. CASE pc' # "reply"
    <3>1. pc' = "evaluate"  BY <1>14, <2>1, <2>3 DEF CheckPause, At, Answer
    <3> QED BY <2>1, <3>1, GoesOnStep DEF Unheld, Held
  <2> QED BY <2>2, <2>3
<1>15. ASSUME EvaluateChat PROVE ResolveInv'
  <2>1. pc = "evaluate" /\ UNCHANGED <<call, catching, faults>>
    BY <1>15 DEF EvaluateChat, At, Answer, Following
  <2>2. CASE pc' = "reply"
    <3>1. UNCHANGED <<lease, hold>>
      BY <1>15, <2>1, <2>2 DEF EvaluateChat, At, Answer, Following, FlatOrder, PathOrder
    <3>2. \/ reply' = Crash /\ todo' = <<>>
          \/ reply'.status # 500 /\ Orderly(todo')
      <4>1. \/ reply' = Refuse(400, "unknown_name") /\ todo' = <<>>
            \/ reply' = Refuse(403, "policy_blocked") /\ todo' = RejectionRow("failed", 0)
            \/ reply' = Refuse(400, "unsupported") /\ todo' = <<>>
        BY <1>15, <2>1, <2>2 DEF EvaluateChat, At, Answer, Following, FlatOrder, PathOrder
      <4> QED BY <4>1, Statuses, OrderlyLists, OrderlyBatches, OrderlyEndings
    <3> QED BY <2>1, <2>2, <3>1, <3>2, RefusedStep DEF Unheld
  <2>3. CASE pc' # "reply"
    <3>1. pc' \in {"path", "screen"}  BY <1>15, <2>1, <2>3 DEF EvaluateChat, At, Answer,
         Following, FlatOrder, PathOrder
    <3> QED BY <2>1, <3>1, GoesOnStep DEF Unheld, Held
  <2> QED BY <2>2, <2>3
<1>16. ASSUME LoadHierarchicalPath PROVE ResolveInv'
  <2>1. pc = "path" /\ UNCHANGED <<call, catching, faults>> /\ Hierarchical
    BY <1>16 DEF LoadHierarchicalPath, At, Answer, Following, CoverInv
  <2>2. CASE pc' = "reply"
    <3>1. UNCHANGED <<lease, hold>>
      BY <1>16, <2>1, <2>2 DEF LoadHierarchicalPath, At, Answer, Following, FlatOrder,
           PathOrder
    <3>2. \/ reply' = Crash /\ todo' = <<>>
          \/ reply'.status # 500 /\ Orderly(todo')
      <4>1. \/ reply' = Refuse(400, "unsupported") /\ todo' = <<>>
            \/ reply' = Refuse(400, "invalid_request") /\ todo' = <<>>
            \/ /\ reply' = Refuse(403, "budget_exceeded")
               /\ todo' = Row("failed", 0, AuditUnavailable(TRUE))
        BY <1>16, <2>1, <2>2 DEF LoadHierarchicalPath, At, Answer, Following, FlatOrder,
             PathOrder
      <4>2. CASE reply' = Refuse(400, "unsupported") /\ todo' = <<>>
        BY <4>2, Statuses, OrderlyLists
      <4>3. CASE reply' = Refuse(400, "invalid_request") /\ todo' = <<>>
        BY <4>3, Statuses, OrderlyLists
      <4>4. CASE reply' = Refuse(403, "budget_exceeded")
                 /\ todo' = Row("failed", 0, AuditUnavailable(TRUE))
        <5>1. Orderly(Row("failed", 0, AuditUnavailable(TRUE)))  BY OrderlyEndings, Zenon
        <5>2. Orderly(todo')  BY <4>4, <5>1, Zenon
        <5>3. reply'.status # 500  BY <4>4, Statuses
        <5> QED BY <5>2, <5>3
      <4> QED BY <4>1, <4>2, <4>3, <4>4
    <3> QED BY <2>1, <2>2, <3>1, <3>2, RefusedStep DEF Unheld
  <2>3. CASE pc' # "reply"
    <3>1. pc' = "screen"  BY <1>16, <2>1, <2>3 DEF LoadHierarchicalPath, At, Answer,
         Following, FlatOrder, PathOrder
    <3> QED BY <2>1, <3>1, GoesOnStep DEF Unheld, Held
  <2> QED BY <2>2, <2>3
<1>17. ASSUME ScreenContext PROVE ResolveInv'
  <2>1. pc = "screen" /\ UNCHANGED <<call, catching, faults>>
    BY <1>17 DEF ScreenContext, At, Answer, Following
  <2>2. CASE pc' = "reply"
    <3>1. UNCHANGED <<lease, hold>>
      BY <1>17, <2>1, <2>2 DEF ScreenContext, At, Answer, Following, FlatOrder, PathOrder
    <3>2. \/ reply' = Crash /\ todo' = <<>>
          \/ reply'.status # 500 /\ Orderly(todo')
      <4>1. \/ \E usd : /\ reply' = Refuse(400, "grounding_context_rejected")
                         /\ todo' = IncurSafety(usd)
            \/ reply' = Refuse(503, "safety_unavailable") /\ todo' = <<>>
        BY <1>17, <2>1, <2>2 DEF ScreenContext, At, Answer, Following, FlatOrder, PathOrder
      <4> QED BY <4>1, Statuses, OrderlyLists, OrderlyBatches, OrderlyEndings
    <3> QED BY <2>1, <2>2, <3>1, <3>2, RefusedStep DEF Unheld
  <2>3. CASE pc' # "reply"
    <3>1. pc' = "guard"  BY <1>17, <2>1, <2>3 DEF ScreenContext, At, Answer, Following,
         FlatOrder, PathOrder
    <3> QED BY <2>1, <3>1, GoesOnStep DEF Unheld, Held
  <2> QED BY <2>2, <2>3
<1>18. ASSUME RunInputSafety PROVE ResolveInv'
  <2>1. pc = "guard" /\ UNCHANGED <<call, catching, faults>>
    BY <1>18 DEF RunInputSafety, At, Answer, Following
  <2>2. CASE pc' = "reply"
    <3>1. UNCHANGED <<lease, hold>>
      BY <1>18, <2>1, <2>2 DEF RunInputSafety, At, Answer, Following, FlatOrder, PathOrder
    <3>2. \/ reply' = Crash /\ todo' = <<>>
          \/ reply'.status # 500 /\ Orderly(todo')
      <4>1. \/ \E usd : /\ reply' = Refuse(403, "safety_blocked")
                         /\ todo' = IncurSafety(usd) \o RejectionRow("safety_blocked", usd)
            \/ reply' = Refuse(503, "safety_unavailable") /\ todo' = IncurSafety(safety)
            \/ reply' = Crash /\ todo' = <<>>
        BY <1>18, <2>1, <2>2 DEF RunInputSafety, At, Answer, Following, FlatOrder, PathOrder
      <4>2. ASSUME NEW usd, reply' = Refuse(403,
           "safety_blocked") /\ todo' = IncurSafety(usd) \o RejectionRow("safety_blocked",
           usd)
           PROVE  reply'.status # 500 /\ Orderly(todo')
        BY <4>2, Statuses, OrderlyEndings
      <4>3. CASE reply' = Refuse(503, "safety_unavailable") /\ todo' = IncurSafety(safety)
        BY <4>3, Statuses, OrderlyBatches
      <4>4. CASE reply' = Crash /\ todo' = <<>>
        BY <4>4
      <4> QED BY <4>1, <4>2, <4>3, <4>4
    <3> QED BY <2>1, <2>2, <3>1, <3>2, RefusedStep DEF Unheld
  <2>3. CASE pc' # "reply"
    <3>1. pc' \in {"hold", "reserve_path"}  BY <1>18, <2>1, <2>3 DEF RunInputSafety, At,
         Answer, Following, FlatOrder, PathOrder
    <3> QED BY <2>1, <3>1, GoesOnStep DEF Unheld, Held
  <2> QED BY <2>2, <2>3
<1>19. ASSUME EvaluateEmbeddings PROVE ResolveInv'
  <2>1. pc = "evaluate" /\ UNCHANGED <<call, catching, faults>>
    BY <1>19 DEF EvaluateEmbeddings, At, Answer
  <2>2. CASE pc' = "reply"
    <3>1. UNCHANGED <<lease, hold>>
      BY <1>19, <2>1, <2>2 DEF EvaluateEmbeddings, At, Answer
    <3>2. \/ reply' = Crash /\ todo' = <<>>
          \/ reply'.status # 500 /\ Orderly(todo')
      <4>1. \/ reply' = Refuse(400, "unknown_name") /\ todo' = <<>>
            \/ reply' = Refuse(403, "policy_blocked") /\ todo' = RejectionRow("failed", 0)
        BY <1>19, <2>1, <2>2 DEF EvaluateEmbeddings, At, Answer
      <4> QED BY <4>1, Statuses, OrderlyLists, OrderlyBatches, OrderlyEndings
    <3> QED BY <2>1, <2>2, <3>1, <3>2, RefusedStep DEF Unheld
  <2>3. CASE pc' # "reply"
    <3>1. pc' = "guard"  BY <1>19, <2>1, <2>3 DEF EvaluateEmbeddings, At, Answer
    <3> QED BY <2>1, <3>1, GoesOnStep DEF Unheld, Held
  <2> QED BY <2>2, <2>3
<1>20. ASSUME ScreenEmbeddings PROVE ResolveInv'
  <2>1. pc = "guard" /\ UNCHANGED <<call, catching, faults>>
    BY <1>20 DEF ScreenEmbeddings, At, Answer
  <2>2. CASE pc' = "reply"
    <3>1. UNCHANGED <<lease, hold>>
      BY <1>20, <2>1, <2>2 DEF ScreenEmbeddings, At, Answer
    <3>2. \/ reply' = Crash /\ todo' = <<>>
          \/ reply'.status # 500 /\ Orderly(todo')
      <4>1. \/ /\ reply' = Refuse(403, "safety_blocked")
               /\ todo' = RejectionRow("safety_blocked", 0)
            \/ reply' = Refuse(503, "safety_unavailable") /\ todo' = RejectionRow("failed", 0)
            \/ reply' = Crash /\ todo' = <<>>
        BY <1>20, <2>1, <2>2 DEF ScreenEmbeddings, At, Answer
      <4> QED BY <4>1, Statuses, OrderlyLists, OrderlyBatches, OrderlyEndings
    <3> QED BY <2>1, <2>2, <3>1, <3>2, RefusedStep DEF Unheld
  <2>3. CASE pc' # "reply"
    <3>1. pc' = "hold"  BY <1>20, <2>1, <2>3 DEF ScreenEmbeddings, At, Answer
    <3> QED BY <2>1, <3>1, GoesOnStep DEF Unheld, Held
  <2> QED BY <2>2, <2>3
<1>21. ASSUME EvaluateDocument PROVE ResolveInv'
  <2>1. pc = "evaluate" /\ UNCHANGED <<call, catching, faults>>
    BY <1>21 DEF EvaluateDocument, At, Answer
  <2>2. CASE pc' = "reply"
    <3>1. UNCHANGED <<lease, hold>>
      BY <1>21, <2>1, <2>2 DEF EvaluateDocument, At, Answer
    <3>2. \/ reply' = Crash /\ todo' = <<>>
          \/ reply'.status # 500 /\ Orderly(todo')
      <4>1. \/ reply' = Refuse(400, "invalid_request") /\ todo' = <<>>
            \/ reply' = Refuse(400, "unknown_name") /\ todo' = <<>>
            \/ reply' = Refuse(403, "policy_blocked") /\ todo' = RejectionRow("failed", 0)
        BY <1>21, <2>1, <2>2 DEF EvaluateDocument, At, Answer
      <4> QED BY <4>1, Statuses, OrderlyLists, OrderlyBatches, OrderlyEndings
    <3> QED BY <2>1, <2>2, <3>1, <3>2, RefusedStep DEF Unheld
  <2>3. CASE pc' # "reply"
    <3>1. pc' = "hold"  BY <1>21, <2>1, <2>3 DEF EvaluateDocument, At, Answer
    <3> QED BY <2>1, <3>1, GoesOnStep DEF Unheld, Held
  <2> QED BY <2>2, <2>3
<1>22. ASSUME ReserveFlatHold PROVE ResolveInv'
  <2>1. pc = "hold" /\ UNCHANGED <<call, catching, faults>>
    BY <1>22 DEF ReserveFlatHold, AcquireCreditHold, At, Answer
  <2>2. CASE pc' = "reply"
    <3>1. UNCHANGED <<lease, hold>>
      BY <1>22, <2>1, <2>2 DEF ReserveFlatHold, AcquireCreditHold, At, Answer
    <3>2. \/ reply' = Crash /\ todo' = <<>>
          \/ reply'.status # 500 /\ Orderly(todo')
      <4>1. /\ reply' = Refuse(402, "insufficient_credits")
            /\ todo' = IncurSafety(safety) \o Row("failed", safety, AuditUnavailable(TRUE))
        BY <1>22, <2>1, <2>2 DEF ReserveFlatHold, AcquireCreditHold, At, Answer
      <4>2. Orderly(IncurSafety(safety) \o Row("failed", safety, AuditUnavailable(TRUE)))
        BY OrderlyEndings, Zenon
      <4>3. Orderly(todo')  BY <4>1, <4>2, Zenon
      <4>4. reply'.status # 500  BY <4>1, Statuses
      <4> QED BY <4>3, <4>4
    <3> QED BY <2>1, <2>2, <3>1, <3>2, RefusedStep DEF Unheld
  <2>3. CASE pc' # "reply"
    <3>1. pc' = "lease"  BY <1>22, <2>1, <2>3 DEF ReserveFlatHold, AcquireCreditHold, At,
         Answer
    <3> QED BY <2>1, <3>1, GoesOnStep DEF Unheld, Held
  <2> QED BY <2>2, <2>3
<1>23. ASSUME ReserveEmbeddingHold PROVE ResolveInv'
  <2>1. pc = "hold" /\ UNCHANGED <<call, catching, faults>>
    BY <1>23 DEF ReserveEmbeddingHold, AcquireCreditHold, At, Answer
  <2>2. CASE pc' = "reply"
    <3>1. UNCHANGED <<lease, hold>>
      BY <1>23, <2>1, <2>2 DEF ReserveEmbeddingHold, AcquireCreditHold, At, Answer
    <3>2. \/ reply' = Crash /\ todo' = <<>>
          \/ reply'.status # 500 /\ Orderly(todo')
      BY <1>23, <2>1, <2>2, Statuses, OrderlyLists, OrderlyBatches, OrderlyEndings
           DEF ReserveEmbeddingHold, AcquireCreditHold, At, Answer
    <3> QED BY <2>1, <2>2, <3>1, <3>2, RefusedStep DEF Unheld
  <2>3. CASE pc' # "reply"
    <3>1. pc' = "lease"  BY <1>23, <2>1, <2>3 DEF ReserveEmbeddingHold, AcquireCreditHold,
         At, Answer
    <3> QED BY <2>1, <3>1, GoesOnStep DEF Unheld, Held
  <2> QED BY <2>2, <2>3
<1>24. ASSUME ReserveDocumentHold PROVE ResolveInv'
  <2>1. pc = "hold" /\ UNCHANGED <<call, catching, faults>>
    BY <1>24 DEF ReserveDocumentHold, AcquireCreditHold, At, Answer
  <2>2. CASE pc' = "reply"
    <3>1. UNCHANGED <<lease, hold>>
      BY <1>24, <2>1, <2>2 DEF ReserveDocumentHold, AcquireCreditHold, At, Answer
    <3>2. \/ reply' = Crash /\ todo' = <<>>
          \/ reply'.status # 500 /\ Orderly(todo')
      BY <1>24, <2>1, <2>2, Statuses, OrderlyLists, OrderlyBatches, OrderlyEndings
           DEF ReserveDocumentHold, AcquireCreditHold, At, Answer
    <3> QED BY <2>1, <2>2, <3>1, <3>2, RefusedStep DEF Unheld
  <2>3. CASE pc' # "reply"
    <3>1. pc' = "lease"  BY <1>24, <2>1, <2>3 DEF ReserveDocumentHold, AcquireCreditHold,
         At, Answer
    <3> QED BY <2>1, <3>1, GoesOnStep DEF Unheld, Held
  <2> QED BY <2>2, <2>3
<1>25. ASSUME ReserveHierarchical PROVE ResolveInv'
  <2>1. pc = "reserve_path" /\ UNCHANGED <<call, catching, faults>> /\ Hierarchical
    BY <1>25 DEF ReserveHierarchical, At, Answer, CoverInv
  <2>2. CASE pc' = "reply"
    <3>1. UNCHANGED <<lease, hold>>
      BY <1>25, <2>1, <2>2 DEF ReserveHierarchical, At, Answer
    <3>2. \/ reply' = Crash /\ todo' = <<>>
          \/ reply'.status # 500 /\ Orderly(todo')
      <4>1. \/ /\ reply' = Refuse(501, "not_implemented")
               /\ todo' = IncurSafety(safety) \o RejectionRow("failed", safety)
            \/ /\ reply' = Refuse(403, "budget_exceeded")
               /\ todo' = IncurSafety(safety) \o RejectionRow("failed", safety)
        BY <1>25, <2>1, <2>2 DEF ReserveHierarchical, At, Answer
      <4>2. CASE reply' = Refuse(501, "not_implemented")
                 /\ todo' = IncurSafety(safety) \o RejectionRow("failed", safety)
        BY <4>2, Statuses, OrderlyEndings
      <4>3. CASE reply' = Refuse(403, "budget_exceeded")
                 /\ todo' = IncurSafety(safety) \o RejectionRow("failed", safety)
        BY <4>3, Statuses, OrderlyEndings
      <4> QED BY <4>1, <4>2, <4>3
    <3> QED BY <2>1, <2>2, <3>1, <3>2, RefusedStep DEF Unheld
  <2>3. CASE pc' # "reply"
    <3>1. pc' = "call"  BY <1>25, <2>1, <2>3 DEF ReserveHierarchical, At, Answer
    <3> QED BY <2>1, <3>1, GoesOnStep DEF Unheld, Held
  <2> QED BY <2>2, <2>3
<1>26. ASSUME ReserveFlatLease PROVE ResolveInv'
  <2>1. PICK jobs : ReserveBudget(jobs) /\ IsSeq(jobs) /\ Orderly(jobs)
    BY <1>26, OrderlyBatches, OrderlyEndings, Batches DEF ReserveFlatLease
  <2> QED BY <2>1, LeaseResolves
<1>27. ASSUME ReserveEmbeddingLease PROVE ResolveInv'
  <2>1. PICK jobs : ReserveBudget(jobs) /\ IsSeq(jobs) /\ Orderly(jobs)
    BY <1>27, OrderlyBatches, OrderlyEndings, Batches DEF ReserveEmbeddingLease
  <2> QED BY <2>1, LeaseResolves
<1>28. ASSUME ReserveDocumentLease PROVE ResolveInv'
  <2>1. PICK jobs : ReserveBudget(jobs) /\ IsSeq(jobs) /\ Orderly(jobs)
    BY <1>28, OrderlyBatches, OrderlyEndings, Batches DEF ReserveDocumentLease
  <2> QED BY <2>1, LeaseResolves
\* The call, its fallback and its top-up.
<1>29. ASSUME ProviderFails PROVE ResolveInv'
  <2>1. /\ pc' = "reply" /\ UNCHANGED <<call, lease, hold, faults>> /\ reply'.status # 500
        /\ pc \in {"call", "call_fallback", "first"}
        /\ catching' = "stream" => catching = "stream" \/ pc = "first"
    BY <1>29, Statuses DEF ProviderFails, At, Answer
  <2>2. catching' = "stream" => catching = "stream" \/ IsStream  BY <2>1 DEF ResolveInv
  <2>3. \/ todo' = ReleaseWithSafety
        \/ \E status, usd : todo' = ReleaseWithSafety \o RejectionRow(status, usd)
    BY <1>29 DEF ProviderFails, Answer
  <2> QED BY <2>1, <2>2, <2>3, ReleasedStep
<1>30. ASSUME StreamReleased PROVE ResolveInv'
  <2>1. /\ pc' = "reply" /\ UNCHANGED <<call, lease, hold, faults>> /\ reply'.status # 500
        /\ pc \in {"call", "call_fallback", "first"}
        /\ catching' = "stream" => catching = "stream" \/ pc = "first"
    BY <1>30, Statuses DEF StreamReleased, At, Answer
  <2>2. catching' = "stream" => catching = "stream" \/ IsStream  BY <2>1 DEF ResolveInv
  <2>3. \/ todo' = ReleaseWithSafety
        \/ \E status, usd : todo' = ReleaseWithSafety \o RejectionRow(status, usd)
    BY <1>30 DEF StreamReleased, Answer
  <2> QED BY <2>1, <2>2, <2>3, ReleasedStep
<1>31. ASSUME EmbeddingFails PROVE ResolveInv'
  <2>1. /\ pc' = "reply" /\ UNCHANGED <<call, lease, hold, faults>> /\ reply'.status # 500
        /\ pc \in {"call", "call_fallback", "first"}
        /\ catching' = "stream" => catching = "stream" \/ pc = "first"
    BY <1>31, Statuses DEF EmbeddingFails, At, Answer
  <2>2. catching' = "stream" => catching = "stream" \/ IsStream  BY <2>1 DEF ResolveInv
  <2>3. \/ todo' = ReleaseWithSafety
        \/ \E status, usd : todo' = ReleaseWithSafety \o RejectionRow(status, usd)
    BY <1>31 DEF EmbeddingFails, Answer
  <2> QED BY <2>1, <2>2, <2>3, ReleasedStep
<1>32. ASSUME ExtractFails PROVE ResolveInv'
  <2>1. /\ pc' = "reply" /\ UNCHANGED <<call, lease, hold, faults>> /\ reply'.status # 500
        /\ pc \in {"call", "call_fallback", "first"}
        /\ catching' = "stream" => catching = "stream" \/ pc = "first"
    BY <1>32, Statuses DEF ExtractFails, At, Answer
  <2>2. catching' = "stream" => catching = "stream" \/ IsStream  BY <2>1 DEF ResolveInv
  <2>3. \/ todo' = ReleaseWithSafety
        \/ \E status, usd : todo' = ReleaseWithSafety \o RejectionRow(status, usd)
    BY <1>32 DEF ExtractFails, Answer
  <2> QED BY <2>1, <2>2, <2>3, ReleasedStep
<1>33. ASSUME ProviderFallsBack PROVE ResolveInv'
  <2>1. UNCHANGED <<call, lease, hold, faults>> /\ catching' \in {catching, "inner"}
    BY <1>33 DEF ProviderFallsBack
  <2>2. CASE ChatDecision(TRUE).kind = "block"
    <3>1. /\ pc' = "reply" /\ reply'.status # 500
          /\ \E status, usd : todo' = ReleaseWithSafety \o RejectionRow(status, usd)
      BY <1>33, <2>2, Statuses DEF ProviderFallsBack, Answer
    <3> QED BY <2>1, <3>1, ReleasedStep
  <2>3. CASE ChatDecision(TRUE).kind # "block"
    <3>1. pc' \in {"grow_hold", "call_fallback"}  BY <1>33, <2>3 DEF ProviderFallsBack
    <3> QED BY <2>1, <3>1, GoesOnStep DEF Held
  <2> QED BY <2>2, <2>3
<1>34. ASSUME EmbeddingFallsBack PROVE ResolveInv'
  <2>1. UNCHANGED <<call, lease, hold, faults>> /\ catching' \in {catching, "inner"}
    BY <1>34 DEF EmbeddingFallsBack
  <2>2. CASE EmbeddingDecision(TRUE).kind = "block"
    <3>1. /\ pc' = "reply" /\ reply'.status # 500
          /\ \E status, usd : todo' = ReleaseWithSafety \o RejectionRow(status, usd)
      BY <1>34, <2>2, Statuses DEF EmbeddingFallsBack, Answer
    <3> QED BY <2>1, <3>1, ReleasedStep
  <2>3. CASE EmbeddingDecision(TRUE).kind # "block"
    <3>1. pc' \in {"grow_hold", "call_fallback"}  BY <1>34, <2>3 DEF EmbeddingFallsBack
    <3> QED BY <2>1, <3>1, GoesOnStep DEF Held
  <2> QED BY <2>2, <2>3
<1>35. ASSUME GrowChatHold PROVE ResolveInv'
  <2>1. \E status, usd : GrowHold(RejectionRow(status, usd))  BY <1>35 DEF GrowChatHold
  <2> QED BY <2>1, GrowHoldResolves
<1>36. ASSUME GrowEmbeddingHold PROVE ResolveInv'
  <2>1. \E status, usd : GrowHold(RejectionRow(status, usd))  BY <1>36 DEF GrowEmbeddingHold
  <2> QED BY <2>1, GrowHoldResolves
<1>37. ASSUME GrowChatLease PROVE ResolveInv'
  <2>1. \E status, usd : GrowLease(RejectionRow(status, usd))  BY <1>37 DEF GrowChatLease
  <2> QED BY <2>1, GrowLeaseResolves
<1>38. ASSUME GrowEmbeddingLease PROVE ResolveInv'
  <2>1. \E status, usd : GrowLease(RejectionRow(status, usd))  BY <1>38
       DEF GrowEmbeddingLease
  <2> QED BY <2>1, GrowLeaseResolves
<1>39. ASSUME GrowChatThrows PROVE ResolveInv'
  <2>1. \E with, status, usd : with.status # 500 /\ GrowThrows(with, RejectionRow(status, usd))
    BY <1>39, Statuses DEF GrowChatThrows
  <2> QED BY <2>1, GrowThrowsResolves
<1>40. ASSUME GrowEmbeddingThrows PROVE ResolveInv'
  <2>1. \E with, status, usd : with.status # 500 /\ GrowThrows(with, RejectionRow(status, usd))
    BY <1>40, Statuses DEF GrowEmbeddingThrows
  <2> QED BY <2>1, GrowThrowsResolves
\* The model has answered.
<1>41. ASSUME ProviderAnswers PROVE ResolveInv'
  <2>1. /\ pc' = "answer" /\ UNCHANGED <<call, lease, hold, faults>>
        /\ catching' \in {catching, "none"}
        /\ \E usd : todo' = JobIf(NeedsLease, "settleLease", usd)
    BY <1>41, Surfaces DEF ProviderAnswers, ModelRan, NeedsLease
  <2> QED BY <2>1, AnsweredStep
<1>42. ASSUME ExtractAnswers PROVE ResolveInv'
  <2>1. /\ pc' = "answer" /\ UNCHANGED <<call, lease, hold, faults>>
        /\ catching' \in {catching, "none"}
        /\ \E usd : todo' = JobIf(NeedsLease, "settleLease", usd)
    BY <1>42, Surfaces DEF ExtractAnswers, ModelRan, NeedsLease
  <2> QED BY <2>1, AnsweredStep
<1>43. ASSUME StreamEnds PROVE ResolveInv'
  <2>1. /\ pc' = "reply" /\ UNCHANGED <<call, lease, hold, faults>> /\ reply'.status # 500
        /\ pc \in {"call", "call_fallback", "stream"}
        /\ catching' = "stream" => catching = "stream" \/ pc = "stream"
    BY <1>43, Statuses DEF StreamEnds, SettleStream, At, Answer
  <2>2. catching' = "stream" => catching = "stream" \/ IsStream  BY <2>1 DEF ResolveInv
  <2>3. Settlement(todo')
    BY <1>43, Statuses, Surfaces DEF StreamEnds, SettleStream, Answer, NeedsLease,
         Settlement
  <2> QED BY <2>1, <2>2, <2>3, SettledStep
<1>44. ASSUME StreamCut PROVE ResolveInv'
  <2>1. /\ pc' = "reply" /\ UNCHANGED <<call, lease, hold, faults>> /\ reply'.status # 500
        /\ pc \in {"call", "call_fallback", "stream"}
        /\ catching' = "stream" => catching = "stream" \/ pc = "stream"
    BY <1>44, Statuses DEF StreamCut, SettleStream, At, Answer
  <2>2. catching' = "stream" => catching = "stream" \/ IsStream  BY <2>1 DEF ResolveInv
  <2>3. Settlement(todo')
    BY <1>44, Statuses, Surfaces DEF StreamCut, SettleStream, Answer, NeedsLease, Settlement
  <2> QED BY <2>1, <2>2, <2>3, SettledStep
<1>45. ASSUME EmbeddingAnswers PROVE ResolveInv'
  <2>1. /\ pc' = "reply" /\ UNCHANGED <<call, lease, hold, faults>> /\ reply'.status # 500
        /\ pc \in {"call", "call_fallback", "stream"}
        /\ catching' = "stream" => catching = "stream" \/ pc = "stream"
    BY <1>45, Statuses DEF EmbeddingAnswers, ModelRan, At, Answer
  <2>2. catching' = "stream" => catching = "stream" \/ IsStream  BY <2>1 DEF ResolveInv
  <2>3. Settlement(todo')
    BY <1>45, Statuses, Surfaces DEF EmbeddingAnswers, ModelRan, Answer, NeedsLease,
         Settlement
  <2> QED BY <2>1, <2>2, <2>3, SettledStep
<1>46. ASSUME ScreenAnswer PROVE ResolveInv'
  <2>0. AnswerBlocked \/ AnswerUnscreened \/ AnswerLost \/ \E r : AnswerServed(r)
    BY <1>46, Endings
  <2>1. pc = "answer" /\ todo = <<>> /\ UNCHANGED <<call, lease, hold, faults, catching>>
    BY <1>46 DEF ScreenAnswer, At
  <2> DEFINE Crashes == reply' = Crash /\ (todo' = <<>> \/ todo' = SettleBilling)
             Ends == /\ reply'.status # 500
                     /\ \/ \E status, usd, code :
                             todo' = Row(status, usd, Final(503, code)) \o SettleBilling
                        \/ \E status, usd : todo' = Row(status, usd, None) \o SettleBilling
  <2>2. ASSUME AnswerBlocked PROVE pc' = "reply" /\ Ends
    BY <2>2, Statuses DEF AnswerBlocked, Answer
  <2>3. ASSUME AnswerUnscreened PROVE pc' = "reply" /\ Ends
    BY <2>3, Statuses DEF AnswerUnscreened, Answer
  <2>4. ASSUME AnswerLost PROVE pc' = "reply" /\ Crashes
    BY <2>4 DEF AnswerLost, Answer
  <2>5. ASSUME NEW r, AnswerServed(r) PROVE pc' = "reply" /\ Ends
    BY <2>5, Statuses DEF AnswerServed, Answer
  <2>6. pc' = "reply" /\ (Ends \/ Crashes)  BY <2>0, <2>2, <2>3, <2>4, <2>5
  <2> QED BY <2>1, <2>6, ScreenedStep
<1>47. ASSUME ScreenDocument PROVE ResolveInv'
  <2>0. DocumentBlocked \/ DocumentUnscreened \/ DocumentLost \/ \E r : DocumentServed(r)
    BY <1>47, Endings
  <2>1. pc = "answer" /\ todo = <<>> /\ UNCHANGED <<call, lease, hold, faults, catching>>
    BY <1>47 DEF ScreenDocument, At
  <2> DEFINE Crashes == reply' = Crash /\ (todo' = <<>> \/ todo' = SettleBilling)
             Ends == /\ reply'.status # 500
                     /\ \/ \E status, usd, code :
                             todo' = Row(status, usd, Final(503, code)) \o SettleBilling
                        \/ \E status, usd : todo' = Row(status, usd, None) \o SettleBilling
  <2>2. ASSUME DocumentBlocked PROVE pc' = "reply" /\ Ends
    BY <2>2, Statuses DEF DocumentBlocked, Answer
  <2>3. ASSUME DocumentUnscreened PROVE pc' = "reply" /\ Ends
    BY <2>3, Statuses DEF DocumentUnscreened, Answer
  <2>4. ASSUME DocumentLost PROVE pc' = "reply" /\ Crashes
    BY <2>4 DEF DocumentLost, Answer
  <2>5. ASSUME NEW r, DocumentServed(r) PROVE pc' = "reply" /\ Ends
    BY <2>5, Statuses DEF DocumentServed, Answer
  <2>6. pc' = "reply" /\ (Ends \/ Crashes)  BY <2>0, <2>2, <2>3, <2>4, <2>5
  <2> QED BY <2>1, <2>6, ScreenedStep
\* A stream goes on.
<1>48. ASSUME StreamOpens PROVE ResolveInv'
  <2>1. pc = "call" /\ pc' = "first" /\ UNCHANGED <<call, faults, catching>> /\ IsStream
    BY <1>48 DEF StreamOpens, At
  <2>2. IsStream  BY <2>1 DEF ResolveInv
  <2> QED BY <2>1, <2>2, GoesOnStep DEF Held
<1>49. ASSUME FirstDelta PROVE ResolveInv'
  <2>1. pc = "first" /\ pc' = "stream" /\ UNCHANGED <<call, faults, catching>>
    BY <1>49 DEF FirstDelta, At
  <2>2. IsStream  BY <2>1 DEF ResolveInv
  <2> QED BY <2>1, <2>2, GoesOnStep DEF Held
<1>50. ASSUME UNCHANGED vars PROVE ResolveInv'
  <2>1. UNCHANGED <<call, pc, lease, hold, todo, reply, catching, faults>>  BY <1>50
       DEF vars
  <2>2. IsStream' = IsStream /\ Crashed' = Crashed /\ LeaseLogged' = LeaseLogged
        /\ HoldLogged' = HoldLogged
    BY <2>1 DEF IsStream, Crashed, LeaseLogged, HoldLogged, Failed
  <2> QED BY <2>1, <2>2, SameCall DEF ResolveInv
<1> QED BY <1>1, <1>2, <1>3, <1>4, <1>5, <1>6, <1>7, <1>8, <1>9, <1>10, <1>11, <1>12,
     <1>13, <1>14, <1>15, <1>16, <1>17, <1>18, <1>19, <1>20, <1>21, <1>22, <1>23, <1>24,
     <1>25, <1>26, <1>27, <1>28, <1>29, <1>30, <1>31, <1>32, <1>33, <1>34, <1>35, <1>36,
     <1>37, <1>38, <1>39, <1>40, <1>41, <1>42, <1>43, <1>44, <1>45, <1>46, <1>47, <1>48,
     <1>49, <1>50 DEF Next, LedgerNext, ChatNext, EmbeddingsNext, DocumentsNext

\* Whatever is refused, thrown or logged, a decided call leaves no lease and no
\* hold but those whose own settlement failed.
THEOREM HoldsAreResolved == Spec => []HoldsResolved
<1> DEFINE Inv == IsSeq(todo) /\ ApprovedInv /\ CoverInv /\ ResolveInv
<1>1. CallInit => Inv
  <2> SUFFICES ASSUME CallInit PROVE Inv
    OBVIOUS
  <2>1. ApprovedInv /\ CoverInv  BY CoversAtFirst
  <2>2. /\ todo = <<>> /\ faults = <<>> /\ pc = "pause" /\ lease = None /\ hold = None
        /\ catching = "none"
    BY DEF CallInit
  <2>3. ResolveInv  BY <2>2, Lists, OrderlyLists DEF ResolveInv, Queue
  <2> QED BY <2>1, <2>2, <2>3, Lists
<1>2. Inv /\ [Next]_vars => Inv'
  <2> SUFFICES ASSUME Inv, [Next]_vars PROVE Inv'
    OBVIOUS
  <2>1. IsSeq(todo')  BY TodoStep
  <2>2. ApprovedInv' /\ CoverInv'  BY ApprovedStep, CoverStep
  <2>3. ResolveInv'  BY <2>2, ResolveStep
  <2> QED BY <2>1, <2>2, <2>3
<1>3. Inv => HoldsResolved
  <2> SUFFICES ASSUME Inv, pc = "reply", todo = <<>>, ~Crashed PROVE HoldsResolved
    BY DEF HoldsResolved, Finished
  <2>1. ~LeaseJob(todo) /\ ~HoldJob(todo, hold)
    BY OneJob DEF LeaseJob, HoldJob
  <2> QED BY <2>1 DEF ResolveInv, HoldsResolved, LeaseLogged, HoldLogged
<1> QED BY <1>1, <1>2, <1>3, PTL DEF Spec

(***************************************************************************)
(* Who sees personal data: what a run of the guard leaves of it.           *)
(***************************************************************************)

\* What a setting of personal data comes to: a mode, or what is done to each
\* kind of it.
PlanShaped(pl) ==
  /\ pl.pii \in {"off", "mask", "block"}
  /\ pl.entities # None => \A e \in Entities : pl.entities[e] \in {"allow", "mask", "block"}

\* A text in which nothing can be read that the plan masks or refuses.
Clean(pl, tx) == \A e \in tx \cap Entities : DispositionFor(pl, e) = "allow"

Opening == {"pause", "evaluate", "reply"}

\* What is sent to a model must be screened.
InputScreened == OnInput(plan) \/ (IsEmbeddings /\ plan.pii # "off")

SentClean(s) == InputScreened /\ s[2] = "model" => s[3] \cap Protected \subseteq FromContext

ScreenInv ==
  /\ pc \notin Opening => PlanShaped(plan)
  /\ pc \notin Opening /\ IsChat /\ plan.grounding = "strict" => call.request.context # None
  /\ pc \notin Opening \union {"path"} /\ IsStream => plan.pii = "off"
  /\ pc \in {"first", "stream"} => IsStream
  /\ pc = "path" => Hierarchical
  /\ pc \notin Opening \union {"path", "screen", "guard"} /\ ~IsDocument /\ InputScreened =>
       Clean(plan, text)
  /\ \A s \in shown : SentClean(s)
  /\ OnOutput(plan) => Clean(plan, delivered)

\* The most specific tier that is set is one of the tiers.
LEMMA FirstIsATier ==
  ASSUME NEW t1, NEW t2, NEW t3, NEW t4, t4 # None
  PROVE  /\ FirstOf(<<t1, t2, t3, t4>>) \in {t1, t2, t3, t4}
         /\ FirstOf(<<t1, t2, t3, t4>>) # None
<1> DEFINE tiers == <<t1, t2, t3, t4>>
           T == {i \in DOMAIN tiers : tiers[i] # None}
<1>1. DOMAIN tiers = 1 .. 4 /\ tiers[4] = t4  OBVIOUS
<1>2. T \subseteq Nat /\ T # {}  BY <1>1
<1>3. \A i \in T : tiers[i] \in {t1, t2, t3, t4} /\ tiers[i] # None
  BY <1>1
<1>4. FirstOf(tiers) = tiers[Min(T)]  BY DEF FirstOf
<1> HIDE DEF T, tiers
<1>5. Min(T) \in T
  <2>1. \E x \in T : \A y \in T : x <= y  BY <1>2, LeastNumber
  <2> QED BY <2>1 DEF Min
<1>6. FirstOf(tiers) \in {t1, t2, t3, t4} /\ FirstOf(tiers) # None  BY <1>3, <1>4, <1>5
<1> QED BY <1>6 DEF tiers

\* What a preset stands for is a setting.
LEMMA PresetsAreSettings ==
  \A preset : PresetDefaults(preset).pii \in PiiSettings
BY DEF PresetDefaults, Blanket, PiiSettings

\* The plan of a feature says what is done to each kind of personal data.
LEMMA PlanIsShaped ==
  ASSUME NEW c \in Calls, NEW f \in Range(c.config.features)
  PROVE  PlanShaped(ResolveSafetyPlan(c.config, f))
<1> DEFINE p1 == f.safety.pii
           p2 == IF f.safety.preset = None THEN None
                 ELSE PresetDefaults(f.safety.preset)["pii"]
           p3 == c.config.safety.pii
           p4 == PresetDefaults(c.config.safety.preset)["pii"]
           s  == FirstOf(<<p1, p2, p3, p4>>)
<1>1. p1 \in PiiSettings \union {None} /\ p3 \in PiiSettings \union {None}
  BY LoadedCalls
<1>2. p2 \in PiiSettings \union {None} /\ p4 \in PiiSettings
  BY PresetsAreSettings
<1>3. /\ ResolveSafetyPlan(c.config, f).pii = NormalizePii(s).mode
      /\ ResolveSafetyPlan(c.config, f).entities = NormalizePii(s).entities
  BY DEF ResolveSafetyPlan
<1>4. s \in PiiSettings
  <2> HIDE DEF p1, p2, p3, p4
  <2>1. p4 # None  BY <1>2, NoneIsNoSetting
  <2>2. s \in {p1, p2, p3, p4} /\ s # None  BY <2>1, FirstIsATier
  <2> QED BY <2>2, <1>1, <1>2
<1> HIDE DEF s
<1>5. NormalizePii(s) \in PiiSettings
  BY <1>4 DEF NormalizePii, PiiSettings
<1> QED BY <1>3, <1>5 DEF PlanShaped, PiiSettings

\* A text the guard lets through under the plan is clean.
LEMMA ScreenedIsClean ==
  ASSUME NEW guard, NEW pl, PlanShaped(pl), pl.pii # "off", NEW tx, NEW scan \in Scans,
         ScreenText(guard, pl, tx, scan).action = "allow"
  PROVE  Clean(pl, ScreenText(guard, pl, tx, scan).text)
<1>1. ~ShouldBlock(pl, tx) /\ ScreenText(guard, pl, tx, scan).text = Processed(pl, tx)
  BY DEF ScreenText, Scans
<1>2. CASE pl.entities = None
  BY <1>1, <1>2 DEF Processed, Clean
<1>3. CASE pl.entities # None
  <2> SUFFICES ASSUME NEW e \in Processed(pl, tx) \cap Entities
               PROVE  DispositionFor(pl, e) = "allow"
    BY <1>1 DEF Clean
  <2>1. e \in tx /\ pl.entities[e] # "mask"  BY <1>3 DEF Processed
  <2>2. pl.entities[e] # "block"  BY <1>1, <1>3, <2>1 DEF ShouldBlock
  <2> QED BY <1>3, <2>1, <2>2 DEF PlanShaped, DispositionFor
<1> QED BY <1>2, <1>3

\* So is an input that a plan for the input lets through.
LEMMA InputIsClean ==
  ASSUME NEW guard, NEW pl, PlanShaped(pl), OnInput(pl), NEW tx, NEW image,
         NEW scan \in Scans, NEW verdict \in Verdicts,
         InspectInput(guard, pl, tx, image, scan, verdict).action = "allow"
  PROVE  Clean(pl, InspectInput(guard, pl, tx, image, scan, verdict).text)
<1> DEFINE screened == ScreenText(guard, pl, tx, scan)
<1>1. /\ screened.action = "allow"
      /\ InspectInput(guard, pl, tx, image, scan, verdict).text = screened.text
  <2> HIDE DEF Verdicts
  <2> QED BY DEF InspectInput, Verdicts
<1> HIDE DEF screened
<1>2. pl.pii # "off"  BY DEF OnInput
<1> QED BY <1>1, <1>2, ScreenedIsClean DEF screened

\* And an output.
LEMMA OutputIsClean ==
  ASSUME NEW guard, NEW pl, PlanShaped(pl), OnOutput(pl), NEW tx, NEW scan \in Scans,
         InspectOutput(guard, pl, tx, scan).action = "allow"
  PROVE  Clean(pl, InspectOutput(guard, pl, tx, scan).text)
BY ScreenedIsClean DEF InspectOutput, OnOutput

\* A clean text holds nothing the plan protects.
LEMMA CleanIsUnprotected ==
  ASSUME NEW tx, Clean(plan, tx)
  PROVE  tx \cap Protected = {}
BY DEF Clean, Protected

\* What the properties look at depends on the call and its plan.
LEMMA SamePlan ==
  ASSUME call' = call, plan' = plan
  PROVE  /\ IsChat' = IsChat /\ IsStream' = IsStream /\ Hierarchical' = Hierarchical
         /\ IsDocument' = IsDocument /\ IsEmbeddings' = IsEmbeddings
         /\ InputScreened' = InputScreened
         /\ \A s : SentClean(s)' = SentClean(s)
<1>1. /\ IsChat' = IsChat /\ IsStream' = IsStream /\ Hierarchical' = Hierarchical
      /\ IsDocument' = IsDocument /\ IsEmbeddings' = IsEmbeddings
  BY DEF IsChat, IsStream, IsDocument, IsEmbeddings, Hierarchical
<1>2. InputScreened' = InputScreened  BY <1>1 DEF InputScreened
<1>3. Protected' = Protected /\ FromContext' = FromContext
  BY DEF Protected, FromContext
<1> QED BY <1>1, <1>2, <1>3 DEF SentClean

\* Steps that neither screen nor answer: what they send is already screened,
\* and they do not go back to where it was not.
LEMMA UnscreenedStep ==
  ASSUME ScreenInv, UNCHANGED <<call, plan, text, delivered>>,
         \A s \in shown' : s \in shown \/ SentClean(s),
         \/ pc' \in Opening \union {pc}
         \/ /\ pc \notin Opening \union {"path"}
            /\ pc' \in {"screen", "guard"} \/ pc \notin {"screen", "guard"}
            /\ pc' \in {"first", "stream"} => IsStream
            /\ pc' # "path"
  PROVE  ScreenInv'
<1>1. \A s \in shown' : SentClean(s)'
  BY SamePlan DEF ScreenInv
<1>2. (OnOutput(plan) => Clean(plan, delivered))'  BY DEF ScreenInv
<1>3. /\ (pc \notin Opening => PlanShaped(plan))'
      /\ (pc \notin Opening /\ IsChat /\ plan.grounding = "strict"
            => call.request.context # None)'
      /\ (pc \notin Opening \union {"path"} /\ IsStream => plan.pii = "off")'
      /\ (pc \in {"first", "stream"} => IsStream)'
      /\ (pc = "path" => Hierarchical)'
  BY SamePlan DEF ScreenInv, Opening
<1>4. (pc \notin Opening \union {"path", "screen", "guard"} /\ ~IsDocument /\ InputScreened =>
         Clean(plan, text))'
  BY SamePlan DEF ScreenInv, Opening
<1> QED BY <1>1, <1>2, <1>3, <1>4 DEF ScreenInv

\* What a model of the chat surface is sent, and one that embeds.
LEMMA SentIsClean ==
  ASSUME ScreenInv, pc \in {"call", "call_fallback"}, NEW m
  PROVE  /\ IsChat => SentClean(<<m, "model", Sent>>)
         /\ IsEmbeddings => SentClean(<<m, "model", text>>)
<1>1. IsChat \/ IsEmbeddings => ~IsDocument  BY Surfaces
<1>2. (IsChat \/ IsEmbeddings) /\ InputScreened => text \cap Protected = {}
  BY <1>1, CleanIsUnprotected DEF ScreenInv, Opening
<1>3. IsChat /\ plan.grounding = "strict" => call.request.context # None
  BY DEF ScreenInv, Opening
<1>4. IsChat => Sent \subseteq text \union FromContext
  BY <1>3 DEF Sent, FromContext, Req
<1>5. IsChat /\ InputScreened => Sent \cap Protected \subseteq FromContext
  BY <1>2, <1>4
<1> QED BY <1>2, <1>5 DEF SentClean

\* Whoever is not a model may be sent anything.
LEMMA OthersAreSent ==
  \A s : s[2] # "model" => SentClean(s)
BY DEF SentClean

\* What is made of an answer of a model that is served.
LEMMA AnswerIsClean ==
  ASSUME PlanShaped(plan), OnOutput(plan), NEW content, NEW json, NEW answer, NEW scan \in Scans,
         Answers(content, json, answer)[scan].action = "allow"
  PROVE  Clean(plan, Answers(content, json, answer)[scan].text)
<1> DEFINE verified == IF plan.grounding # "strict" THEN content
                       ELSE IF VerifyGrounding(answer, Feature.citesPages) THEN content ELSE {}
           structured == Req.format # "text" /\ json /\ plan.grounding # "strict"
           r == Answers(content, json, answer)[scan]
<1>1. r = IF structured THEN MaskStructuredOutput(call.guard, plan, verified, scan)
          ELSE InspectOutput(call.guard, plan, verified, scan)
  BY DEF Answers
<1>2. r.action = "allow"  OBVIOUS
<1> HIDE DEF verified, structured, r
<1>3. r = InspectOutput(call.guard, plan, verified, scan)
  BY <1>1, <1>2 DEF MaskStructuredOutput
<1>4. Clean(plan, r.text)  BY <1>2, <1>3, OutputIsClean
<1> QED BY <1>4 DEF r

\* And of a document.
LEMMA ExtractIsClean ==
  ASSUME PlanShaped(plan), OnOutput(plan), NEW content, NEW values \in SUBSET content,
         NEW scan \in Scans, NEW again \in Scans,
         ScreenExtract(content, values, scan, again).action = "allow"
  PROVE  Clean(plan, ScreenExtract(content, values, scan, again).text)
<1> DEFINE first == InspectOutput(call.guard, plan, content, scan)
           second == InspectOutput(call.guard, plan, values, again)
           r == ScreenExtract(content, values, scan, again)
<1>1. r = IF first.action # "allow" THEN first
          ELSE IF ~PlanCanMask \/ values = {}
               THEN [action |-> "allow", text |-> first.text \union values]
          ELSE IF ~call.guard.batch THEN [action |-> "allow", text |-> first.text]
          ELSE IF second.action # "allow" THEN second
          ELSE [action |-> "allow", text |-> first.text \union second.text]
  BY DEF ScreenExtract
<1>2. r.action = "allow"  OBVIOUS
<1>3. first.action = "allow" => Clean(plan, first.text)
  BY OutputIsClean
<1>4. second.action = "allow" => Clean(plan, second.text)
  BY OutputIsClean
<1>5. first.action = "allow" /\ ~PlanCanMask => values = {}
  <2> SUFFICES ASSUME first.action = "allow", ~PlanCanMask PROVE content = {}
    OBVIOUS
  <2>1. plan.entities = None /\ plan.pii = "block"
    BY DEF PlanCanMask, OnOutput, PlanShaped
  <2>2. ~ShouldBlock(plan, content)
    BY DEF InspectOutput, ScreenText, Scans
  <2> QED BY <2>1, <2>2 DEF ShouldBlock
<1>6. \A x, y : Clean(plan, x) /\ Clean(plan, y) => Clean(plan, x \union y)
  BY DEF Clean
<1> HIDE DEF first, second, r
<1>7. first.action = "allow"  BY <1>1, <1>2
<1>8. CASE ~PlanCanMask \/ values = {}
  <2>1. r.text = first.text \union {}  BY <1>1, <1>5, <1>7, <1>8
  <2>2. r.text = first.text  BY <2>1
  <2> QED BY <1>3, <1>7, <2>2 DEF r
<1>9. CASE ~(~PlanCanMask \/ values = {})
  <2>1. CASE ~call.guard.batch
    <3>1. r.text = first.text  BY <1>1, <1>7, <1>9, <2>1
    <3> QED BY <1>3, <1>7, <3>1 DEF r
  <2>2. CASE call.guard.batch
    <3>1. second.action = "allow"  BY <1>1, <1>2, <1>7, <1>9, <2>2
    <3>2. r.text = first.text \union second.text  BY <1>1, <1>7, <1>9, <2>2, <3>1
    <3>3. Clean(plan, r.text)  BY <1>3, <1>4, <1>6, <1>7, <3>1, <3>2
    <3> QED BY <3>3 DEF r
  <2> QED BY <2>1, <2>2
<1> QED BY <1>8, <1>9

\* A request the policy can decide on uses names the configuration defines.
LEMMA NoErrorIsDefined ==
  ASSUME NEW config, NEW request, NEW usage, NEW tokens, NEW force,
         EvaluateAiRequest(config, request, usage, tokens, force).kind # "error"
  PROVE  Defined(config, request)
BY DEF EvaluateAiRequest, Defined

\* A call that goes on from its decision.
LEMMA DecidedStep ==
  ASSUME ScreenInv, UNCHANGED <<call, plan, text, delivered, shown>>, PlanShaped(plan),
         IsChat /\ plan.grounding = "strict" => call.request.context # None,
         pc' # "path" /\ IsStream => plan.pii = "off",
         pc' \in {"path", "screen", "guard"} \/ (pc' = "hold" /\ IsDocument),
         pc' = "path" => Hierarchical
  PROVE  ScreenInv'
BY SamePlan DEF ScreenInv, Opening

\* A text the guard let through.
LEMMA LetThroughStep ==
  ASSUME ScreenInv, UNCHANGED <<call, plan, delivered>>, pc = "guard",
         pc' \in {"hold", "reserve_path"},
         \A s \in shown' : s \in shown \/ SentClean(s),
         InputScreened => Clean(plan, text')
  PROVE  ScreenInv'
BY SamePlan DEF ScreenInv, Opening

\* An answer, which the caller may read.
LEMMA ServedStep ==
  ASSUME ScreenInv, UNCHANGED <<call, plan, text, shown>>,
         pc' = "reply" \/ (pc = "first" /\ pc' = "stream"),
         OnOutput(plan) => Clean(plan, delivered')
  PROVE  ScreenInv'
BY SamePlan DEF ScreenInv, Opening

\* No step lets anyone read what the plan masks or refuses.
LEMMA ScreenStep ==
  ASSUME ApprovedInv, ScreenInv, [Next]_vars
  PROVE  ScreenInv'
\* Steps that send, screen and answer nothing.
<1>1. ASSUME Debit \/ Book \/ FreeLease \/ FreeHold \/ ReturnHold \/ SettleLease
     \/ SettleBillingDone \/ WriteAudit PROVE ScreenInv'
  BY <1>1, UnscreenedStep DEF Debit, Done, Keep, Book, FreeLease, FreeHold, ReturnHold, SettleLease,
       SettleBillingDone, WriteAudit, At, Answer, Opening
<1>2. ASSUME OperationThrows \/ ReserveThrows \/ OperationIsLogged
     \/ StreamReleaseIsLogged \/ AuditFails \/ CheckPause PROVE ScreenInv'
  BY <1>2, UnscreenedStep DEF OperationThrows, ReserveThrows, OperationIsLogged, Keep,
       StreamReleaseIsLogged, AuditFails, CheckPause, At, Answer, Opening
<1>3. ASSUME ReserveFlatHold PROVE ScreenInv'
  BY <1>3, UnscreenedStep DEF ReserveFlatHold, AcquireCreditHold, At, Answer, Opening
<1>4. ASSUME ReserveFlatLease PROVE ScreenInv'
  BY <1>4, UnscreenedStep DEF ReserveFlatLease, ReserveBudget, At, Answer, Opening
<1>5. ASSUME ReserveHierarchical PROVE ScreenInv'
  BY <1>5, UnscreenedStep DEF ReserveHierarchical, At, Answer, Opening
<1>6. ASSUME GrowChatHold PROVE ScreenInv'
  BY <1>6, UnscreenedStep DEF GrowChatHold, GrowHold, At, Answer, Opening
<1>7. ASSUME GrowChatLease PROVE ScreenInv'
  BY <1>7, UnscreenedStep DEF GrowChatLease, GrowLease, At, Answer, Opening
<1>8. ASSUME GrowChatThrows PROVE ScreenInv'
  BY <1>8, UnscreenedStep DEF GrowChatThrows, GrowThrows, At, Answer, Opening
<1>9. ASSUME StreamReleased PROVE ScreenInv'
  BY <1>9, UnscreenedStep DEF StreamReleased, At, Answer, Opening
<1>10. ASSUME StreamEnds PROVE ScreenInv'
  BY <1>10, UnscreenedStep DEF StreamEnds, SettleStream, At, Answer, Opening
<1>11. ASSUME StreamCut PROVE ScreenInv'
  BY <1>11, UnscreenedStep DEF StreamCut, SettleStream, At, Answer, Opening
<1>12. ASSUME ReserveEmbeddingHold PROVE ScreenInv'
  BY <1>12, UnscreenedStep DEF ReserveEmbeddingHold, AcquireCreditHold, At, Answer, Opening
<1>13. ASSUME ReserveEmbeddingLease PROVE ScreenInv'
  BY <1>13, UnscreenedStep DEF ReserveEmbeddingLease, ReserveBudget, At, Answer, Opening
<1>14. ASSUME GrowEmbeddingHold PROVE ScreenInv'
  BY <1>14, UnscreenedStep DEF GrowEmbeddingHold, GrowHold, At, Answer, Opening
<1>15. ASSUME GrowEmbeddingLease PROVE ScreenInv'
  BY <1>15, UnscreenedStep DEF GrowEmbeddingLease, GrowLease, At, Answer, Opening
<1>16. ASSUME GrowEmbeddingThrows PROVE ScreenInv'
  BY <1>16, UnscreenedStep DEF GrowEmbeddingThrows, GrowThrows, At, Answer, Opening
<1>17. ASSUME ReserveDocumentHold PROVE ScreenInv'
  BY <1>17, UnscreenedStep DEF ReserveDocumentHold, AcquireCreditHold, At, Answer, Opening
<1>18. ASSUME ReserveDocumentLease PROVE ScreenInv'
  BY <1>18, UnscreenedStep DEF ReserveDocumentLease, ReserveBudget, At, Answer, Opening
\* Steps that send what is screened to a model.
<1>19. ASSUME ProviderAnswers PROVE ScreenInv'
  <2>1. /\ UNCHANGED <<call, plan, text, delivered>>
        /\ pc \in {"call", "call_fallback"} /\ IsChat
        /\ pc' \notin {"path", "screen", "guard"} /\ (pc' \in {"first", "stream"} => IsStream)
        /\ shown' = shown \union {<<ProviderOf[decision.model], "model", Sent>>}
    BY <1>19 DEF ProviderAnswers, At, Answer, ModelRan, IsChat, Hierarchical
  <2>2. \A s \in shown' : s \in shown \/ SentClean(s)
    BY <2>1, SentIsClean
  <2> QED BY <2>1, <2>2, UnscreenedStep DEF Opening
<1>20. ASSUME ProviderFails PROVE ScreenInv'
  <2>1. /\ UNCHANGED <<call, plan, text, delivered>>
        /\ pc \in {"call", "call_fallback"} /\ IsChat
        /\ pc' \notin {"path", "screen", "guard"} /\ (pc' \in {"first", "stream"} => IsStream)
        /\ shown' = shown \union {<<ProviderOf[decision.model], "model", Sent>>}
    BY <1>20 DEF ProviderFails, At, Answer, IsChat, Hierarchical
  <2>2. \A s \in shown' : s \in shown \/ SentClean(s)
    BY <2>1, SentIsClean
  <2> QED BY <2>1, <2>2, UnscreenedStep DEF Opening
<1>21. ASSUME ProviderFallsBack PROVE ScreenInv'
  <2>1. /\ UNCHANGED <<call, plan, text, delivered>>
        /\ pc \in {"call", "call_fallback"} /\ IsChat
        /\ pc' \notin {"path", "screen", "guard"} /\ (pc' \in {"first", "stream"} => IsStream)
        /\ shown' = shown \union {<<ProviderOf[decision.model], "model", Sent>>}
    BY <1>21 DEF ProviderFallsBack, At, Answer, IsChat, Hierarchical
  <2>2. \A s \in shown' : s \in shown \/ SentClean(s)
    BY <2>1, SentIsClean
  <2> QED BY <2>1, <2>2, UnscreenedStep DEF Opening
<1>22. ASSUME StreamOpens PROVE ScreenInv'
  <2>1. /\ UNCHANGED <<call, plan, text, delivered>>
        /\ pc \in {"call", "call_fallback"} /\ IsChat
        /\ pc' \notin {"path", "screen", "guard"} /\ (pc' \in {"first", "stream"} => IsStream)
        /\ shown' = shown \union {<<ProviderOf[decision.model], "model", Sent>>}
    BY <1>22 DEF StreamOpens, At, Answer, IsChat, Hierarchical
  <2>2. \A s \in shown' : s \in shown \/ SentClean(s)
    BY <2>1, SentIsClean
  <2> QED BY <2>1, <2>2, UnscreenedStep DEF Opening
<1>23. ASSUME EmbeddingAnswers PROVE ScreenInv'
  <2>1. /\ UNCHANGED <<call, plan, text, delivered>>
        /\ pc \in {"call", "call_fallback"} /\ IsEmbeddings
        /\ pc' \notin {"path", "screen", "guard"} /\ (pc' \in {"first", "stream"} => IsStream)
        /\ shown' = shown \union {<<ProviderOf[decision.model], "model", text>>}
    BY <1>23 DEF EmbeddingAnswers, At, Answer, ModelRan, IsChat, Hierarchical
  <2>2. \A s \in shown' : s \in shown \/ SentClean(s)
    BY <2>1, SentIsClean
  <2> QED BY <2>1, <2>2, UnscreenedStep DEF Opening
<1>24. ASSUME EmbeddingFails PROVE ScreenInv'
  <2>1. /\ UNCHANGED <<call, plan, text, delivered>>
        /\ pc \in {"call", "call_fallback"} /\ IsEmbeddings
        /\ pc' \notin {"path", "screen", "guard"} /\ (pc' \in {"first", "stream"} => IsStream)
        /\ shown' = shown \union {<<ProviderOf[decision.model], "model", text>>}
    BY <1>24 DEF EmbeddingFails, At, Answer, IsChat, Hierarchical
  <2>2. \A s \in shown' : s \in shown \/ SentClean(s)
    BY <2>1, SentIsClean
  <2> QED BY <2>1, <2>2, UnscreenedStep DEF Opening
<1>25. ASSUME EmbeddingFallsBack PROVE ScreenInv'
  <2>1. /\ UNCHANGED <<call, plan, text, delivered>>
        /\ pc \in {"call", "call_fallback"} /\ IsEmbeddings
        /\ pc' \notin {"path", "screen", "guard"} /\ (pc' \in {"first", "stream"} => IsStream)
        /\ shown' = shown \union {<<ProviderOf[decision.model], "model", text>>}
    BY <1>25 DEF EmbeddingFallsBack, At, Answer, IsChat, Hierarchical
  <2>2. \A s \in shown' : s \in shown \/ SentClean(s)
    BY <2>1, SentIsClean
  <2> QED BY <2>1, <2>2, UnscreenedStep DEF Opening
<1>26. ASSUME ExtractAnswers PROVE ScreenInv'
  <2>1. /\ UNCHANGED <<call, plan, text, delivered>>
        /\ pc = "call" /\ pc' \in {"answer", "reply"}
        /\ shown' = shown \union {<<"ocr", "document", text>>}
    BY <1>26 DEF ExtractAnswers, At, Answer
  <2>2. \A s \in shown' : s \in shown \/ SentClean(s)
    BY <2>1, OthersAreSent
  <2> QED BY <2>1, <2>2, UnscreenedStep DEF Opening
<1>27. ASSUME ExtractFails PROVE ScreenInv'
  <2>1. /\ UNCHANGED <<call, plan, text, delivered>>
        /\ pc = "call" /\ pc' \in {"answer", "reply"}
        /\ shown' = shown \union {<<"ocr", "document", text>>}
    BY <1>27 DEF ExtractFails, At, Answer
  <2>2. \A s \in shown' : s \in shown \/ SentClean(s)
    BY <2>1, OthersAreSent
  <2> QED BY <2>1, <2>2, UnscreenedStep DEF Opening
<1>28. ASSUME ScreenContext PROVE ScreenInv'
  <2>1. /\ UNCHANGED <<call, plan, text, delivered>>
        /\ pc = "screen" /\ pc' \in {"reply", "guard"}
    BY <1>28 DEF ScreenContext, At, Answer, Following, PathOrder, FlatOrder
  <2>2. \A s \in shown' : s \in shown \/ s[2] # "model"
    <3> SUFFICES ASSUME shown' # shown PROVE \A s \in shown' : s \in shown \/ s[2] # "model"
      OBVIOUS
    <3>1. PICK verdict \in Verdicts :
            Inspected(InspectInput(call.guard, ContextPlan, Req.context.text, FALSE, "up",
                                   verdict))
      BY <1>28 DEF ScreenContext
    <3> DEFINE r == InspectInput(call.guard, ContextPlan, Req.context.text, FALSE, "up",
                                 verdict)
    <3>2. Inspected(r)  BY <3>1
    <3> HIDE DEF r
    <3> QED BY <3>2 DEF Inspected
  <2> QED BY <2>1, <2>2, OthersAreSent, UnscreenedStep DEF Opening
\* Steps that decide.
<1>29. ASSUME EvaluateChat PROVE ScreenInv'
  <2>1. CASE pc' = "reply"
    <3>1. UNCHANGED <<call, plan, text, delivered, shown>>  BY <1>29 DEF EvaluateChat
    <3> QED BY <2>1, <3>1, UnscreenedStep DEF Opening
  <2>2. CASE pc' # "reply"
    <3> DEFINE d == ChatDecision(FALSE)
    <3>1. /\ UNCHANGED <<call, plan, text, delivered, shown>> /\ IsChat
          /\ d.kind # "error" /\ ~GroundingRefused /\ ~(StreamRefused /\ ~Hierarchical)
          /\ pc' = Following("evaluate")
      BY <1>29, <2>2 DEF EvaluateChat, Answer
    <3>2. PlanShaped(plan)
      <4>1. call \in Calls /\ plan = ResolveSafetyPlan(call.config, Feature)
        BY DEF ApprovedInv
      <4>2. Feature \in Range(call.config.features)
        <5>1. Defined(call.config, call.request)
          BY <3>1, NoErrorIsDefined DEF ChatDecision, Req
        <5> QED BY <5>1 DEF Defined, Feature, Range
      <4> QED BY <4>1, <4>2, PlanIsShaped
    <3>3. plan.grounding = "strict" => call.request.context # None
      BY <3>1 DEF GroundingRefused, Req
    <3>4. /\ pc' \in {"path", "screen"}
          /\ pc' # "path" /\ IsStream => plan.pii = "off"
          /\ pc' = "path" => Hierarchical
      BY <3>1 DEF StreamRefused, Following, PathOrder, FlatOrder
    <3> HIDE DEF d
    <3> QED BY <3>1, <3>2, <3>3, <3>4, DecidedStep
  <2> QED BY <2>1, <2>2
<1>30. ASSUME EvaluateEmbeddings PROVE ScreenInv'
  <2>1. CASE pc' = "reply"
    <3>1. UNCHANGED <<call, plan, text, delivered, shown>>  BY <1>30 DEF EvaluateEmbeddings
    <3> QED BY <2>1, <3>1, UnscreenedStep DEF Opening
  <2>2. CASE pc' # "reply"
    <3> DEFINE d == EmbeddingDecision(FALSE)
    <3>1. /\ UNCHANGED <<call, plan, text, delivered, shown>> /\ IsEmbeddings
          /\ d.kind # "error" /\ pc' = "guard"
      BY <1>30, <2>2 DEF EvaluateEmbeddings, Answer
    <3>2. PlanShaped(plan)
      <4>1. call \in Calls /\ plan = ResolveSafetyPlan(call.config, Feature)
        BY DEF ApprovedInv
      <4>2. Feature \in Range(call.config.features)
        <5>1. Defined(call.config, call.request)
          BY <3>1, NoErrorIsDefined DEF EmbeddingDecision
        <5> QED BY <5>1 DEF Defined, Feature, Range
      <4> QED BY <4>1, <4>2, PlanIsShaped
    <3>3. ~IsChat /\ ~IsStream  BY <3>1, Surfaces DEF IsChat
    <3> HIDE DEF d
    <3> QED BY <3>1, <3>2, <3>3, DecidedStep
  <2> QED BY <2>1, <2>2
<1>31. ASSUME EvaluateDocument PROVE ScreenInv'
  <2>1. CASE pc' = "reply"
    <3>1. UNCHANGED <<call, plan, text, delivered, shown>>  BY <1>31 DEF EvaluateDocument
    <3> QED BY <2>1, <3>1, UnscreenedStep DEF Opening
  <2>2. CASE pc' # "reply"
    <3> DEFINE d == EvaluateAiRequest(call.config, call.request, call.usage, 0, FALSE)
    <3>1. /\ UNCHANGED <<call, plan, text, delivered, shown>> /\ IsDocument
          /\ d.kind # "error" /\ pc' = "hold"
      BY <1>31, <2>2 DEF EvaluateDocument, Answer
    <3>2. PlanShaped(plan)
      <4>1. call \in Calls /\ plan = ResolveSafetyPlan(call.config, Feature)
        BY DEF ApprovedInv
      <4>2. Feature \in Range(call.config.features)
        <5>1. Defined(call.config, call.request)
          BY <3>1, NoErrorIsDefined
        <5> QED BY <5>1 DEF Defined, Feature, Range
      <4> QED BY <4>1, <4>2, PlanIsShaped
    <3>3. ~IsChat /\ ~IsStream  BY <3>1, Surfaces DEF IsChat
    <3> HIDE DEF d
    <3> QED BY <3>1, <3>2, <3>3, DecidedStep
  <2> QED BY <2>1, <2>2
<1>32. ASSUME LoadHierarchicalPath PROVE ScreenInv'
  <2>1. UNCHANGED <<call, plan, text, delivered, shown>> /\ pc = "path"
    BY <1>32 DEF LoadHierarchicalPath, At
  <2>2. CASE pc' = "reply"
    BY <2>1, <2>2, UnscreenedStep DEF Opening
  <2>3. CASE pc' # "reply"
    <3>1. pc' = "screen" /\ ~StreamRefused
      BY <1>32, <2>1, <2>3 DEF LoadHierarchicalPath, Answer, Following, PathOrder, ScreenInv
    <3>2. /\ PlanShaped(plan)
          /\ IsChat /\ plan.grounding = "strict" => call.request.context # None
          /\ IsStream => plan.pii = "off"
      BY <2>1, <3>1 DEF ScreenInv, Opening, StreamRefused
    <3> QED BY <2>1, <3>1, <3>2, DecidedStep
  <2> QED BY <2>2, <2>3
\* Steps that screen what goes out.
<1>33. ASSUME RunInputSafety PROVE ScreenInv'
  <2>1. UNCHANGED <<call, plan, delivered>> /\ pc = "guard" /\ IsChat
    BY <1>33 DEF RunInputSafety, At
  <2>2. PICK verdict \in Verdicts, scan \in Scans :
          LET r == InspectInput(call.guard, plan, text, Req.image, scan, verdict) IN
          /\ Inspected(r)
          /\ \/ /\ r.action = "allow"
                /\ pc' = Following("guard") /\ text' = r.text
             \/ pc' = "reply" /\ text' = text
    <3> HIDE DEF Verdicts, Scans
    <3> QED BY <1>33 DEF RunInputSafety, Answer
  <2> DEFINE r == InspectInput(call.guard, plan, text, Req.image, scan, verdict)
  <2>3. \A s \in shown' : s \in shown \/ s[2] # "model"
    BY <2>2 DEF Inspected
  <2>4. CASE pc' = "reply" /\ text' = text
    BY <2>1, <2>3, <2>4, OthersAreSent, UnscreenedStep DEF Opening
  <2>5. CASE r.action = "allow" /\ pc' = Following("guard") /\ text' = r.text
    <3>1. PlanShaped(plan)  BY <2>1 DEF ScreenInv, Opening
    <3>2. InputScreened => OnInput(plan)
      BY <2>1, Surfaces DEF InputScreened
    <3>3. InputScreened => Clean(plan, r.text)
      BY <2>5, <3>1, <3>2, InputIsClean
    <3>4. pc' \in {"hold", "reserve_path"}
      BY <2>5 DEF Following, PathOrder, FlatOrder
    <3> HIDE DEF r
    <3> QED BY <2>1, <2>3, <2>5, <3>3, <3>4, OthersAreSent, LetThroughStep
  <2> QED BY <2>2, <2>4, <2>5
<1>34. ASSUME ScreenEmbeddings PROVE ScreenInv'
  <2>1. UNCHANGED <<call, plan, delivered, shown>> /\ pc = "guard" /\ IsEmbeddings
    BY <1>34 DEF ScreenEmbeddings, At
  <2>2. PICK scan \in Scans :
          LET r == InspectInput(call.guard, EmbeddingPlan, text, FALSE, scan, "safe") IN
          \/ r.action = "allow" /\ pc' = "hold" /\ text' = r.text
          \/ pc' = "reply" /\ text' = text
    <3> HIDE DEF Scans
    <3> QED BY <1>34 DEF ScreenEmbeddings, Answer
  <2> DEFINE r == InspectInput(call.guard, EmbeddingPlan, text, FALSE, scan, "safe")
  <2>3. CASE pc' = "reply" /\ text' = text
    BY <2>1, <2>3, UnscreenedStep DEF Opening
  <2>4. CASE r.action = "allow" /\ pc' = "hold" /\ text' = r.text
    <3>1. PlanShaped(plan)  BY <2>1 DEF ScreenInv, Opening
    <3>2. /\ EmbeddingPlan.pii = plan.pii /\ EmbeddingPlan.entities = plan.entities
          /\ EmbeddingPlan.scope = "input"
      BY DEF EmbeddingPlan, ApprovedInv, ResolveSafetyPlan
    <3>3. PlanShaped(EmbeddingPlan)  BY <3>1, <3>2 DEF PlanShaped
    <3>4. InputScreened => OnInput(EmbeddingPlan)
      BY <3>2 DEF InputScreened, OnInput
    <3>5. "safe" \in Verdicts  BY DEF Verdicts
    <3>6. \A tx : Clean(EmbeddingPlan, tx) => Clean(plan, tx)
      BY <3>2 DEF Clean, DispositionFor
    <3>7. InputScreened => Clean(EmbeddingPlan, r.text)
      BY <2>4, <3>3, <3>4, <3>5, InputIsClean
    <3> HIDE DEF r
    <3> QED BY <2>1, <2>4, <3>6, <3>7, LetThroughStep
  <2> QED BY <2>2, <2>3, <2>4
\* Steps that answer.
<1>35. ASSUME FirstDelta PROVE ScreenInv'
  <2>1. UNCHANGED <<call, plan, text, shown>> /\ pc = "first" /\ pc' = "stream"
    BY <1>35 DEF FirstDelta, At
  <2>2. ~OnOutput(plan)
    BY <2>1 DEF ScreenInv, Opening, OnOutput
  <2>3. pc' \in {pc, "reply"} \/ (pc = "first" /\ pc' = "stream")  BY <2>1
  <2> QED BY <2>1, <2>2, <2>3, ServedStep
<1>36. ASSUME ScreenAnswer PROVE ScreenInv'
  <2>1. UNCHANGED <<call, plan, text, shown>> /\ pc = "answer"
    BY <1>36 DEF ScreenAnswer, At
  <2>2. PICK content \in SUBSET Entities, json \in BOOLEAN, scan \in Scans,
             answer \in call.answers :
          LET r == Answers(content, json, answer)[scan] IN
          /\ pc' = "reply"
          /\ (r.action = "allow" /\ delivered' = r.text) \/ delivered' = delivered
    <3> HIDE DEF Scans
    <3> QED BY <1>36 DEF ScreenAnswer, AnswerServed, AnswerBlocked, AnswerUnscreened,
                        AnswerLost, Answer
  <2>3. PlanShaped(plan)  BY <2>1 DEF ScreenInv, Opening
  <2>4. OnOutput(plan) => Clean(plan, delivered')
    BY <2>2, <2>3, AnswerIsClean DEF ScreenInv
  <2> QED BY <2>1, <2>2, <2>4, ServedStep
<1>37. ASSUME ScreenDocument PROVE ScreenInv'
  <2>1. UNCHANGED <<call, plan, text, shown>> /\ pc = "answer"
    BY <1>37 DEF ScreenDocument, At
  <2>2. PICK values \in SUBSET text, scan \in Scans, again \in Scans :
          LET r == ScreenExtract(text, values, scan, again) IN
          /\ pc' = "reply"
          /\ (r.action = "allow" /\ delivered' = r.text) \/ delivered' = delivered
    <3> HIDE DEF Scans
    <3> QED BY <1>37 DEF ScreenDocument, DocumentServed, DocumentBlocked,
                        DocumentUnscreened, DocumentLost, Answer
  <2>3. PlanShaped(plan)  BY <2>1 DEF ScreenInv, Opening
  <2>4. OnOutput(plan) => Clean(plan, delivered')
    BY <2>2, <2>3, ExtractIsClean DEF ScreenInv
  <2> QED BY <2>1, <2>2, <2>4, ServedStep
<1>38. ASSUME UNCHANGED vars PROVE ScreenInv'
  BY <1>38, UnscreenedStep DEF vars
<1> QED BY <1>1, <1>2, <1>3, <1>4, <1>5, <1>6, <1>7, <1>8, <1>9, <1>10, <1>11,
     <1>12, <1>13, <1>14, <1>15, <1>16, <1>17, <1>18, <1>19, <1>20, <1>21, <1>22,
     <1>23, <1>24, <1>25, <1>26, <1>27, <1>28, <1>29, <1>30, <1>31, <1>32, <1>33,
     <1>34, <1>35, <1>36, <1>37, <1>38 DEF Next, LedgerNext, ChatNext, EmbeddingsNext, DocumentsNext

\* Whatever the backends answer, an embedded text and a prompt the plan screens go
\* to a model, and an answer, an extract or a stream to the caller, without the
\* personal data the plan masks or refuses; the passages of a grounded call are
\* the exception the code makes.
THEOREM DataIsScreened == Spec => []BothSidesScreened
<1>1. CallInit => ApprovedInv /\ ScreenInv
  <2> SUFFICES ASSUME CallInit PROVE ApprovedInv /\ ScreenInv
    OBVIOUS
  <2>1. ApprovedInv  BY DEF CallInit, ApprovedInv, Decided
  <2>2. pc = "pause" /\ shown = {} /\ delivered = {}  BY DEF CallInit
  <2>3. Clean(plan, delivered)  BY <2>2 DEF Clean
  <2> QED BY <2>1, <2>2, <2>3 DEF ScreenInv, Opening
<1>2. ApprovedInv /\ ScreenInv /\ [Next]_vars => ApprovedInv' /\ ScreenInv'
  BY ApprovedStep, ScreenStep
<1>3. ScreenInv => BothSidesScreened
  <2> SUFFICES ASSUME ScreenInv PROVE ModelSeesScreened /\ CallerSeesScreened
    BY DEF BothSidesScreened
  <2>1. ModelSeesScreened
    BY DEF ScreenInv, ModelSeesScreened, SentClean, InputScreened
  <2>2. CallerSeesScreened
    BY CleanIsUnprotected DEF ScreenInv, CallerSeesScreened
  <2> QED BY <2>1, <2>2
<1> QED BY <1>1, <1>2, <1>3, PTL DEF Spec

(***************************************************************************)
(* What a call cost is on its row of the request log.                      *)
(***************************************************************************)

\* There is no job of these kinds.
Never(jobs, kinds) == \A j \in Range(jobs) : j.do \notin kinds

\* There is one job of these kinds, of this amount.
Once(jobs, kinds, usd) ==
  \E k \in DOMAIN jobs : /\ jobs[k].do \in kinds /\ jobs[k].usd = usd
                         /\ \A i \in DOMAIN jobs \ {k} : jobs[i].do \notin kinds

\* Once the row is written only the wallet or the meter is still to be settled.
RowLast(jobs) ==
  \A i \in DOMAIN jobs, k \in DOMAIN jobs :
    jobs[i].do = "audit" /\ i < k => jobs[k].do = "settleBilling"

ExtraDue(jobs) == \E j \in Range(jobs) : j.do = "returnExtra"

\* Where the elements of a list are once its head is gone.
LEMMA TailIndex ==
  ASSUME NEW s, IsSeq(s), s # <<>>
  PROVE  /\ Len(s) \in Nat /\ DOMAIN s = 1 .. Len(s) /\ Head(s) = s[1] /\ Len(s) > 0
         /\ DOMAIN Tail(s) = 1 .. Len(s) - 1
         /\ \A i \in 1 .. Len(s) - 1 : Tail(s)[i] = s[i + 1]
<1> DEFINE S == Range(s)
<1>1. s \in Seq(S) /\ Len(s) \in Nat /\ Len(s) > 0 /\ DOMAIN s = 1 .. Len(s)
  BY DEF IsSeq
<1>2. Tail(s) \in Seq(S) /\ Len(Tail(s)) = Len(s) - 1  BY <1>1
<1>3. DOMAIN Tail(s) = 1 .. Len(s) - 1  BY <1>1, <1>2
<1>4. \A i \in 1 .. Len(s) - 1 : Tail(s)[i] = s[i + 1]  BY <1>1
<1>5. Head(s) = s[1]  BY <1>1
<1> QED BY <1>1, <1>3, <1>4, <1>5

\* And in two lists put together.
LEMMA CatIndex ==
  ASSUME NEW s, NEW t, IsSeq(s), IsSeq(t)
  PROVE  /\ Len(s) \in Nat /\ Len(t) \in Nat
         /\ DOMAIN s = 1 .. Len(s) /\ DOMAIN t = 1 .. Len(t)
         /\ DOMAIN (s \o t) = 1 .. Len(s) + Len(t)
         /\ \A i \in 1 .. Len(s) : (s \o t)[i] = s[i]
         /\ \A i \in 1 .. Len(t) : (s \o t)[Len(s) + i] = t[i]
<1> DEFINE S == Range(s) \union Range(t)
<1>1. s \in Seq(S) /\ t \in Seq(S)
  BY DEF IsSeq
<1>2. s \o t \in Seq(S) /\ Len(s \o t) = Len(s) + Len(t) /\ Len(s) \in Nat /\ Len(t) \in Nat
      /\ DOMAIN s = 1 .. Len(s) /\ DOMAIN t = 1 .. Len(t)
      /\ DOMAIN (s \o t) = 1 .. Len(s) + Len(t)
      /\ \A i \in 1 .. Len(s) + Len(t) :
           (s \o t)[i] = IF i <= Len(s) THEN s[i] ELSE t[i - Len(s)]
  BY <1>1
<1>3. \A i \in 1 .. Len(t) : (s \o t)[Len(s) + i] = t[i]
  BY <1>2
<1> QED BY <1>2, <1>3

\* What is left to do, one job on.
LEMMA PopJob ==
  ASSUME NEW s, IsSeq(s), s # <<>>
  PROVE  /\ \A K : Never(s, K) => Head(s).do \notin K /\ Never(Tail(s), K)
         /\ \A K : Head(s).do \notin K /\ Never(Tail(s), K) => Never(s, K)
         /\ \A K, usd : Once(s, K, usd) =>
              \/ Head(s).do \in K /\ Head(s).usd = usd /\ Never(Tail(s), K)
              \/ Head(s).do \notin K /\ Once(Tail(s), K, usd)
         /\ RowLast(s) => /\ RowLast(Tail(s))
                          /\ Head(s).do = "audit" => OnlyBilling(Tail(s))
         /\ ExtraDue(Tail(s)) => ExtraDue(s)
<1>1. Range(s) = {Head(s)} \union Range(Tail(s)) /\ IsSeq(Tail(s))
  BY TailOfJobs
<1>2. /\ Len(s) \in Nat /\ DOMAIN s = 1 .. Len(s) /\ Head(s) = s[1] /\ Len(s) > 0
      /\ DOMAIN Tail(s) = 1 .. Len(s) - 1
      /\ \A i \in 1 .. Len(s) - 1 : Tail(s)[i] = s[i + 1]
  BY TailIndex
<1> DEFINE t == Tail(s)
           h == Head(s)
<1> HIDE DEF t, h
<1>3. \A K : Never(s, K) <=> h.do \notin K /\ Never(t, K)
  BY <1>1 DEF Never, t, h
<1>4. ASSUME NEW K, NEW usd, Once(s, K, usd)
      PROVE  \/ h.do \in K /\ h.usd = usd /\ Never(t, K)
             \/ h.do \notin K /\ Once(t, K, usd)
  <2>1. PICK k \in DOMAIN s : /\ s[k].do \in K /\ s[k].usd = usd
                              /\ \A i \in DOMAIN s \ {k} : s[i].do \notin K
    BY <1>4 DEF Once
  <2>2. CASE k = 1
    <3>1. h.do \in K /\ h.usd = usd  BY <1>2, <2>1, <2>2 DEF h
    <3>2. \A i \in DOMAIN t : t[i].do \notin K
      <4> TAKE i \in DOMAIN t
      <4>1. i + 1 \in DOMAIN s \ {k} /\ t[i] = s[i + 1]  BY <1>2, <2>2 DEF t
      <4> QED BY <4>1, <2>1
    <3>3. Never(t, K)  BY <3>2 DEF Never, Range
    <3> QED BY <3>1, <3>3
  <2>3. CASE k # 1
    <3>1. h.do \notin K  BY <1>2, <2>1, <2>3 DEF h
    <3>2. k - 1 \in DOMAIN t /\ t[k - 1] = s[k]  BY <1>2, <2>1, <2>3 DEF t
    <3>3. ASSUME NEW i \in DOMAIN t \ {k - 1} PROVE t[i].do \notin K
      <4>1. i + 1 \in DOMAIN s \ {k} /\ t[i] = s[i + 1]  BY <1>2, <2>1 DEF t
      <4> QED BY <4>1, <2>1
    <3>4. Once(t, K, usd)  BY <2>1, <3>2, <3>3 DEF Once
    <3> QED BY <3>1, <3>4
  <2> QED BY <2>2, <2>3
<1>5. ASSUME RowLast(s) PROVE RowLast(t) /\ (h.do = "audit" => OnlyBilling(t))
  <2>1. \A i \in DOMAIN t : i + 1 \in DOMAIN s /\ t[i] = s[i + 1] /\ 1 < i + 1
    BY <1>2 DEF t
  <2>2. RowLast(t)
    <3> SUFFICES ASSUME NEW i \in DOMAIN t, NEW k \in DOMAIN t, t[i].do = "audit", i < k
                 PROVE  t[k].do = "settleBilling"
      BY DEF RowLast
    <3>1. i + 1 < k + 1  BY <1>2 DEF t
    <3> QED BY <1>5, <2>1, <3>1 DEF RowLast
  <2>3. ASSUME h.do = "audit" PROVE OnlyBilling(t)
    <3>1. \A i \in DOMAIN t : t[i].do = "settleBilling"
      BY <1>5, <1>2, <2>1, <2>3 DEF RowLast, h
    <3> QED BY <3>1 DEF OnlyBilling, Range
  <2> QED BY <2>2, <2>3
<1>6. ExtraDue(t) => ExtraDue(s)
  BY <1>1 DEF ExtraDue, t
<1> QED BY <1>3, <1>4, <1>5, <1>6 DEF t, h

\* Two lists put together have what either has.
LEMMA CatJobs ==
  ASSUME NEW s, NEW t, IsSeq(s), IsSeq(t)
  PROVE  /\ IsSeq(s \o t)
         /\ \A K : Never(s, K) /\ Never(t, K) => Never(s \o t, K)
         /\ \A K, usd : Once(s, K, usd) /\ Never(t, K) => Once(s \o t, K, usd)
         /\ \A K, usd : Never(s, K) /\ Once(t, K, usd) => Once(s \o t, K, usd)
         /\ RowLast(s) /\ RowLast(t) /\ (Never(s, {"audit"}) \/ OnlyBilling(t)) =>
              RowLast(s \o t)
         /\ ExtraDue(s \o t) => ExtraDue(s) \/ ExtraDue(t)
<1> DEFINE c == s \o t
           n == Len(s)
<1>1. IsSeq(c) /\ Range(c) = Range(s) \union Range(t)
  BY CatOfJobs
<1>2. /\ n \in Nat /\ Len(t) \in Nat
      /\ DOMAIN s = 1 .. n /\ DOMAIN t = 1 .. Len(t)
      /\ DOMAIN c = 1 .. n + Len(t)
      /\ \A i \in 1 .. n : c[i] = s[i]
      /\ \A i \in 1 .. Len(t) : c[n + i] = t[i]
  BY CatIndex
<1> HIDE DEF c, n
<1>3. ASSUME NEW i \in DOMAIN c
      PROVE  \/ i \in DOMAIN s /\ c[i] = s[i]
             \/ i - n \in DOMAIN t /\ c[i] = t[i - n] /\ i > n
  <2>1. CASE i <= n  BY <1>2, <2>1
  <2>2. CASE i > n
    <3>1. i - n \in 1 .. Len(t) /\ n + (i - n) = i  BY <1>2, <2>2
    <3> QED BY <3>1, <1>2, <2>2
  <2> QED BY <1>2, <2>1, <2>2
<1>4. \A K : Never(s, K) /\ Never(t, K) => Never(c, K)
  BY <1>1 DEF Never
<1>5. ASSUME NEW K, NEW usd, Once(s, K, usd), Never(t, K) PROVE Once(c, K, usd)
  <2>1. PICK k \in DOMAIN s : /\ s[k].do \in K /\ s[k].usd = usd
                              /\ \A i \in DOMAIN s \ {k} : s[i].do \notin K
    BY <1>5 DEF Once
  <2>2. k \in DOMAIN c /\ c[k] = s[k]  BY <1>2, <2>1
  <2>3. ASSUME NEW i \in DOMAIN c \ {k} PROVE c[i].do \notin K
    <3>1. CASE i \in DOMAIN s /\ c[i] = s[i]  BY <2>1, <3>1
    <3>2. CASE i - n \in DOMAIN t /\ c[i] = t[i - n]
      BY <1>5, <3>2 DEF Never, Range
    <3> QED BY <1>3, <3>1, <3>2
  <2> QED BY <2>1, <2>2, <2>3 DEF Once
<1>6. ASSUME NEW K, NEW usd, Never(s, K), Once(t, K, usd) PROVE Once(c, K, usd)
  <2>1. PICK k \in DOMAIN t : /\ t[k].do \in K /\ t[k].usd = usd
                              /\ \A i \in DOMAIN t \ {k} : t[i].do \notin K
    BY <1>6 DEF Once
  <2>2. n + k \in DOMAIN c /\ c[n + k] = t[k]  BY <1>2, <2>1
  <2>3. ASSUME NEW i \in DOMAIN c \ {n + k} PROVE c[i].do \notin K
    <3>1. CASE i \in DOMAIN s /\ c[i] = s[i]
      BY <1>6, <3>1 DEF Never, Range
    <3>2. CASE i - n \in DOMAIN t /\ c[i] = t[i - n]
      <4>1. i - n # k  BY <1>2, <2>1, <2>3
      <4> QED BY <2>1, <3>2, <4>1
    <3> QED BY <1>3, <3>1, <3>2
  <2> QED BY <2>1, <2>2, <2>3 DEF Once
<1>7. ASSUME RowLast(s), RowLast(t), Never(s, {"audit"}) \/ OnlyBilling(t) PROVE RowLast(c)
  <2> SUFFICES ASSUME NEW i \in DOMAIN c, NEW k \in DOMAIN c, c[i].do = "audit", i < k
               PROVE  c[k].do = "settleBilling"
    BY DEF RowLast
  <2>1. CASE k \in DOMAIN s /\ c[k] = s[k]
    <3>1. i \in DOMAIN s  BY <1>2, <2>1
    <3>2. c[i] = s[i]  BY <1>2, <3>1
    <3> QED BY <1>7, <2>1, <3>1, <3>2 DEF RowLast
  <2>2. CASE k - n \in DOMAIN t /\ c[k] = t[k - n]
    <3>1. CASE i \in DOMAIN s /\ c[i] = s[i]
      <4>1. ~Never(s, {"audit"})  BY <3>1 DEF Never, Range
      <4> QED BY <1>7, <4>1, <2>2 DEF OnlyBilling, Range
    <3>2. CASE i - n \in DOMAIN t /\ c[i] = t[i - n]
      <4>1. i - n < k - n  BY <1>2
      <4> QED BY <1>7, <2>2, <3>2, <4>1 DEF RowLast
    <3> QED BY <1>3, <3>1, <3>2
  <2> QED BY <1>3, <2>1, <2>2
<1>8. ExtraDue(c) => ExtraDue(s) \/ ExtraDue(t)
  BY <1>1 DEF ExtraDue
<1> QED BY <1>1, <1>4, <1>5, <1>6, <1>7, <1>8 DEF c

\* A list of one job.
LEMMA SingleJob ==
  ASSUME NEW j
  PROVE  /\ RowLast(<<j>>)
         /\ \A K : j.do \notin K => Never(<<j>>, K)
         /\ \A K : j.do \in K => Once(<<j>>, K, j.usd)
         /\ ExtraDue(<<j>>) => j.do = "returnExtra"
<1>1. DOMAIN <<j>> = {1} /\ <<j>>[1] = j /\ Range(<<j>>) = {j}
  BY DEF Range
<1> DEFINE s == <<j>>
<1> HIDE DEF s
<1>2. RowLast(s)  BY <1>1 DEF RowLast, s
<1>3. \A K : j.do \notin K => Never(s, K)  BY <1>1 DEF Never, s
<1>4. \A K : j.do \in K => Once(s, K, j.usd)  BY <1>1 DEF Once, s
<1>5. ExtraDue(s) => j.do = "returnExtra"  BY <1>1 DEF ExtraDue, s
<1> QED BY <1>2, <1>3, <1>4, <1>5 DEF s

\* An empty list has no job of any kind.
LEMMA NoJobs ==
  /\ IsSeq(<<>>) /\ RowLast(<<>>) /\ ~ExtraDue(<<>>) /\ OnlyBilling(<<>>)
  /\ \A K : Never(<<>>, K)
  /\ \A K, usd : ~Once(<<>>, K, usd)
BY OneJob DEF RowLast, ExtraDue, Never, Once, OnlyBilling

\* The two ways a job enters a list.
LEMMA JobsOf ==
  /\ \A c, do, usd, K :
       /\ RowLast(JobIf(c, do, usd)) /\ IsSeq(JobIf(c, do, usd))
       /\ do \notin K => Never(JobIf(c, do, usd), K)
       /\ c /\ do \in K => Once(JobIf(c, do, usd), K, usd)
       /\ do # "returnExtra" => ~ExtraDue(JobIf(c, do, usd))
       /\ ~c => JobIf(c, do, usd) = <<>>
  /\ \A status, usd, lost, K :
       LET row == Row(status, usd, lost) IN
       /\ RowLast(row) /\ IsSeq(row) /\ ~ExtraDue(row)
       /\ "audit" \notin K => Never(row, K)
       /\ Once(row, {"audit"}, usd)
<1>1. ASSUME NEW c, NEW do, NEW usd, NEW K
      PROVE  /\ RowLast(JobIf(c, do, usd)) /\ IsSeq(JobIf(c, do, usd))
             /\ do \notin K => Never(JobIf(c, do, usd), K)
             /\ c /\ do \in K => Once(JobIf(c, do, usd), K, usd)
             /\ do # "returnExtra" => ~ExtraDue(JobIf(c, do, usd))
             /\ ~c => JobIf(c, do, usd) = <<>>
  <2>1. IsSeq(JobIf(c, do, usd))  BY OneJob
  <2> DEFINE j == [do |-> do, usd |-> usd]
  <2>2. j.do = do /\ j.usd = usd  OBVIOUS
  <2>3. CASE c
    <3>1. JobIf(c, do, usd) = <<j>>  BY <2>3 DEF JobIf, Job
    <3> HIDE DEF j
    <3> QED BY <2>1, <2>2, <2>3, <3>1, SingleJob
  <2>4. CASE ~c
    <3>1. JobIf(c, do, usd) = <<>>  BY <2>4 DEF JobIf
    <3> QED BY <2>4, <3>1, NoJobs
  <2> QED BY <2>3, <2>4
<1>2. ASSUME NEW status, NEW usd, NEW lost, NEW K
      PROVE  LET row == Row(status, usd, lost) IN
             /\ RowLast(row) /\ IsSeq(row) /\ ~ExtraDue(row)
             /\ "audit" \notin K => Never(row, K)
             /\ Once(row, {"audit"}, usd)
  <2> DEFINE j == [do |-> "audit", usd |-> usd, status |-> status, lost |-> lost]
  <2>1. j.do = "audit" /\ j.usd = usd  OBVIOUS
  <2>2. Row(status, usd, lost) = <<j>>  BY DEF Row
  <2>3. IsSeq(Row(status, usd, lost))  BY OneJob
  <2> HIDE DEF j
  <2> QED BY <2>1, <2>2, <2>3, SingleJob
<1> QED BY <1>1, <1>2

\* What the classifier was paid and the call knows of.
Net == spent.classifier - spent.forgotten

\* Work that leaves no row behind, and work that leaves one of this cost.
Silent(jobs) ==
  IsSeq(jobs) /\ RowLast(jobs) /\ ~ExtraDue(jobs) /\ Never(jobs, {"audit"})
Recorded(jobs, usd) ==
  IsSeq(jobs) /\ RowLast(jobs) /\ ~ExtraDue(jobs) /\ Once(jobs, {"audit"}, usd)

\* Calls whose cost no row of the request log need carry.
Exempt ==
  \/ Crashed \/ Failed("audit") \/ Known = 0
  \/ /\ spent.model = 0
     /\ \/ reply.code \in {"safety_unavailable", "grounding_context_rejected"}
        \/ catching = "stream" /\ reply.status # 200

\* The row is still to be written, or it is there.
Carries(usd) ==
  \/ trail = <<>> /\ Once(todo, {"audit"}, usd)
  \/ trail # <<>> /\ trail[1].usd = usd

\* A catch block that repeats a release does so before any model has charged.
Repeats == (pc = "reply" /\ catching = "inner") \/ ExtraDue(todo)

AuditInv ==
  /\ spent \in [{"classifier", "forgotten", "model"} -> Nat]
  /\ pc # "reply" => Net = safety /\ trail = <<>> /\ Never(todo, {"audit"})
  /\ pc \in {"pause", "evaluate", "path", "screen"} => safety = 0
  /\ pc \notin {"answer", "reply"} => spent.model = 0
  /\ pc \in {"first", "stream"} => IsStream /\ reserved >= safety
  /\ catching = "inner" => IsChat /\ pc \in {"call_fallback", "grow_hold", "grow_lease", "reply"}
  /\ Repeats => pc = "reply" /\ spent.model = 0 /\ Net = safety
  /\ RowLast(todo)
  /\ trail = <<>> \/ (Len(trail) = 1 /\ OnlyBilling(todo))
  /\ pc = "reply" => Exempt \/ Carries(Known)

\* Both kinds of work put together.
LEMMA Records ==
  /\ Silent(<<>>)
  /\ \A c, do, usd : do \notin {"audit", "returnExtra"} => Silent(JobIf(c, do, usd))
  /\ \A status, usd, lost : Recorded(Row(status, usd, lost), usd)
  /\ \A s, t : Silent(s) /\ Silent(t) => Silent(s \o t)
  /\ \A s, t, usd : Silent(s) /\ Recorded(t, usd) => Recorded(s \o t, usd)
  /\ \A s, t, usd : Recorded(s, usd) /\ Silent(t) /\ OnlyBilling(t) => Recorded(s \o t, usd)
<1>1. Silent(<<>>)  BY NoJobs DEF Silent
<1>2. ASSUME NEW c, NEW do, NEW usd, do \notin {"audit", "returnExtra"}
      PROVE  Silent(JobIf(c, do, usd))
  <2>1. do \notin {"audit"} /\ do # "returnExtra"  BY <1>2
  <2> QED BY <2>1, JobsOf, Zenon DEF Silent
<1>3. ASSUME NEW status, NEW usd, NEW lost PROVE Recorded(Row(status, usd, lost), usd)
  BY JobsOf, Zenon DEF Recorded
<1>4. ASSUME NEW s, NEW t, Silent(s), Silent(t) PROVE Silent(s \o t)
  BY <1>4, CatJobs, Zenon DEF Silent
<1>5. ASSUME NEW s, NEW t, NEW usd, Silent(s), Recorded(t, usd) PROVE Recorded(s \o t, usd)
  BY <1>5, CatJobs, Zenon DEF Silent, Recorded
<1>6. ASSUME NEW s, NEW t, NEW usd, Recorded(s, usd), Silent(t), OnlyBilling(t)
      PROVE  Recorded(s \o t, usd)
  BY <1>6, CatJobs, Zenon DEF Silent, Recorded
<1> QED BY <1>1, <1>2, <1>3, <1>4, <1>5, <1>6, Zenon

\* The batches the handlers share.
LEMMA RecordedBatches ==
  /\ \A usd : Silent(IncurSafety(usd))
  /\ Silent(ReleaseWithSafety)
  /\ Silent(SettleBilling) /\ OnlyBilling(SettleBilling)
  /\ \A status, usd : Recorded(RejectionRow(status, usd), usd)
<1>1. ASSUME NEW usd PROVE Silent(IncurSafety(usd))
  <2> DEFINE a == JobIf(usd > 0 /\ UsesCredits /\ ~Hierarchical, "debit", usd)
             b == JobIf(usd > 0 /\ (Hierarchical \/ ~CreditsOnly), "book", usd)
  <2>1. Silent(a) /\ Silent(b)  BY Records
  <2>2. IncurSafety(usd) = a \o b  BY DEF IncurSafety
  <2> HIDE DEF a, b
  <2> QED BY <2>1, <2>2, Records
<1>2. Silent(ReleaseWithSafety)
  <2> DEFINE a == JobIf(safety > 0 /\ (Hierarchical \/ ~CreditsOnly), "book", safety)
             b == JobIf(lease # None, "freeLease", 0)
             c == JobIf(~Hierarchical /\ UsesCredits /\ (reserved > 0 \/ hold # None),
                        "freeHold", safety)
  <2>1. Silent(a) /\ Silent(b) /\ Silent(c)  BY Records
  <2>2. ReleaseWithSafety = (a \o b) \o c  BY DEF ReleaseWithSafety
  <2> HIDE DEF a, b, c
  <2>3. Silent(a \o b)  BY <2>1, Records
  <2> QED BY <2>1, <2>2, <2>3, Records
<1>3. Silent(SettleBilling)  BY Records DEF SettleBilling
<1>4. ASSUME NEW status, NEW usd PROVE Recorded(RejectionRow(status, usd), usd)
  BY Records DEF RejectionRow
<1> QED BY <1>1, <1>2, <1>3, <1>4, OrderlyBatches

\* Batches as the actions put them together.
LEMMA RecordedEndings ==
  /\ \A status, usd : Recorded(ReleaseWithSafety \o RejectionRow(status, usd), usd)
  /\ \A status, usd : Recorded(IncurSafety(usd) \o RejectionRow(status, usd), usd)
  /\ \A status, usd, lost : Recorded(IncurSafety(usd) \o Row(status, usd, lost), usd)
  /\ \A status, usd, lost : Recorded(Row(status, usd, lost) \o SettleBilling, usd)
  /\ \A c, d, status, usd, lost :
       Recorded(JobIf(c, "settleLease", usd) \o Row(status, usd, lost)
                \o JobIf(d, "settleBilling", usd), usd)
<1> USE RecordedBatches
<1>1. ASSUME NEW status, NEW usd
      PROVE  Recorded(ReleaseWithSafety \o RejectionRow(status, usd), usd)
  BY Records
<1>2. ASSUME NEW status, NEW usd
      PROVE  Recorded(IncurSafety(usd) \o RejectionRow(status, usd), usd)
  BY Records
<1>3. ASSUME NEW status, NEW usd, NEW lost
      PROVE  Recorded(IncurSafety(usd) \o Row(status, usd, lost), usd)
  BY Records
<1>4. ASSUME NEW status, NEW usd, NEW lost
      PROVE  Recorded(Row(status, usd, lost) \o SettleBilling, usd)
  BY Records
<1>5. ASSUME NEW c, NEW d, NEW status, NEW usd, NEW lost
      PROVE  Recorded(JobIf(c, "settleLease", usd) \o Row(status, usd, lost)
                      \o JobIf(d, "settleBilling", usd), usd)
  <2> DEFINE x == JobIf(c, "settleLease", usd)
             y == Row(status, usd, lost)
             z == JobIf(d, "settleBilling", usd)
  <2>1. Silent(x) /\ Recorded(y, usd) /\ Silent(z) /\ OnlyBilling(z)
    BY Records, OrderlyLists
  <2> HIDE DEF x, y, z
  <2>2. Recorded(x \o y, usd)  BY <2>1, Records
  <2>3. Recorded((x \o y) \o z, usd)  BY <2>1, <2>2, Records
  <2> QED BY <2>3 DEF x, y, z
<1> QED BY <1>1, <1>2, <1>3, <1>4, <1>5, Zenon

\* Something goes back before the row is written.
LEMMA RecordedAfter ==
  ASSUME NEW c, NEW do \in {"returnHold", "returnExtra"}, NEW u, NEW jobs, NEW usd,
         Recorded(jobs, usd)
  PROVE  /\ RowLast(JobIf(c, do, u) \o jobs)
         /\ Once(JobIf(c, do, u) \o jobs, {"audit"}, usd)
<1> DEFINE first == JobIf(c, do, u)
<1>1. /\ RowLast(first) /\ IsSeq(first) /\ Never(first, {"audit"})
  <2>1. do \notin {"audit"}  OBVIOUS
  <2> QED BY <2>1, JobsOf, Zenon
<1> HIDE DEF first
<1>2. RowLast(first \o jobs) /\ Once(first \o jobs, {"audit"}, usd)
  BY <1>1, CatJobs DEF Recorded
<1> QED BY <1>2 DEF first

\* A run of the guard charges at least the cost it names.
LEMMA Charges ==
  ASSUME NEW guard, NEW pl, NEW tx, NEW image, NEW scan \in Scans, NEW verdict \in Verdicts
  PROVE  LET r == InspectInput(guard, pl, tx, image, scan, verdict) IN
         r.cost \in Nat /\ r.paid \in Nat /\ r.paid >= r.cost
<1>1. ScreenText(guard, pl, tx, scan).action \in {"allow", "block", "unavailable", "crash"}
  BY DEF ScreenText, Scans
<1> DEFINE r == InspectInput(guard, pl, tx, image, scan, verdict)
<1>2. \/ r.cost = 0 /\ r.paid = 0
      \/ r.cost = 0 /\ r.paid = 1
      \/ r.cost = 1 /\ r.paid = 1
  BY <1>1 DEF InspectInput, Verdicts, ClassifierCost
<1> HIDE DEF r
<1>3. r.cost \in Nat /\ r.paid \in Nat /\ r.paid >= r.cost
  BY <1>2
<1> QED BY <1>3 DEF r

\* Steps on which nothing is charged, between the pause and the model's answer.
LEMMA GoesOnRow ==
  ASSUME AuditInv, CoverInv', pc \notin {"answer", "reply"}, pc' \notin {"answer", "reply"},
         UNCHANGED <<call, spent, safety, trail>>,
         pc' \in {"pause", "evaluate", "path", "screen"} =>
           pc \in {"pause", "evaluate", "path", "screen"},
         pc' \in {"first", "stream"} => IsStream /\ reserved' >= safety',
         catching' = "inner" =>
           IsChat /\ pc' \in {"call_fallback", "grow_hold", "grow_lease"}
  PROVE  AuditInv'
<1>1. todo' = <<>>  BY DEF CoverInv
<1>2. RowLast(todo') /\ ~ExtraDue(todo') /\ Never(todo', {"audit"})
  BY <1>1, NoJobs
<1>3. IsChat' = IsChat /\ IsStream' = IsStream  BY DEF IsChat, IsStream, Hierarchical
<1>4. Net' = Net  BY DEF Net
<1>5. ~Repeats'  BY <1>2 DEF Repeats
<1> QED BY <1>2, <1>3, <1>4, <1>5 DEF AuditInv

\* A handler has decided its reply: its cost will be on its row, or need not be.
LEMMA EndedRow ==
  ASSUME AuditInv, pc # "reply", pc' = "reply", UNCHANGED <<call, trail>>,
         spent' \in [{"classifier", "forgotten", "model"} -> Nat],
         catching' = "inner" => IsChat,
         RowLast(todo'),
         catching' = "inner" \/ ExtraDue(todo') => spent'.model = 0 /\ Net' = safety',
         Exempt' \/ Once(todo', {"audit"}, Known')
  PROVE  AuditInv'
<1>1. trail' = <<>>  BY DEF AuditInv
<1>2. IsChat' = IsChat  BY DEF IsChat, IsStream, Hierarchical
<1>3. (pc = "reply" => Exempt \/ Carries(Known))'
  BY <1>1 DEF Carries
<1>4. Repeats' => spent'.model = 0 /\ Net' = safety'  BY DEF Repeats
<1> QED BY <1>1, <1>2, <1>3, <1>4 DEF AuditInv

\* It does so before a model has charged.
LEMMA RefusedRow ==
  ASSUME AuditInv, pc \notin {"answer", "reply"}, pc' = "reply",
         UNCHANGED <<call, trail, spent, safety>>,
         catching' = "inner" => IsChat,
         RowLast(todo'),
         \/ reply' = Crash \/ safety = 0
         \/ catching' = "stream" /\ reply'.status # 200
         \/ Once(todo', {"audit"}, safety)
  PROVE  AuditInv'
<1>1. spent.model = 0 /\ Net = safety /\ Known = Net + spent.model /\ safety = Known
  BY DEF AuditInv, Known, Net
<1>2. Known' = Known /\ Net' = Net  BY DEF Known, Net
<1>3. Exempt' \/ Once(todo', {"audit"}, Known')
  BY <1>1, <1>2 DEF Exempt, Crashed, Crash, Refuse
<1> QED BY <1>1, <1>2, <1>3, EndedRow DEF AuditInv

\* Or at once when it has: what a model charged is on the row with the rest.
LEMMA ChargedRow ==
  ASSUME AuditInv, pc # "reply", pc' = "reply", UNCHANGED <<call, trail, safety>>,
         spent' \in [{"classifier", "forgotten", "model"} -> Nat],
         spent'.classifier = spent.classifier, spent'.forgotten = spent.forgotten,
         catching' # "inner",
         \/ reply' = Crash /\ RowLast(todo') /\ ~ExtraDue(todo')
         \/ Recorded(todo', spent'.model + safety)
  PROVE  AuditInv'
<1>1. Known' = safety + spent'.model
  BY DEF AuditInv, Known, Net
<1>2. safety = Net /\ Net \in Int /\ spent'.model \in Nat  BY DEF AuditInv, Net
<1>3. Known' = spent'.model + safety  BY <1>1, <1>2
<1>4. RowLast(todo') /\ ~ExtraDue(todo') /\ (Exempt' \/ Once(todo', {"audit"}, Known'))
  BY <1>3 DEF Exempt, Crashed, Crash, Refuse, Recorded
<1> QED BY <1>4, EndedRow

\* One job of the queue, or two, is done, or has failed and was logged.
LEMMA PoppedRow ==
  ASSUME AuditInv, UNCHANGED <<call, pc, spent, safety, reserved, trail, reply, catching>>,
         RowLast(todo'), ExtraDue(todo') => ExtraDue(todo),
         Never(todo, {"audit"}) => Never(todo', {"audit"}),
         OnlyBilling(todo) => OnlyBilling(todo'),
         \A usd : Once(todo, {"audit"}, usd) => Once(todo', {"audit"}, usd),
         Failed("audit") => Failed("audit")'
  PROVE  AuditInv'
<1>1. /\ IsChat' = IsChat /\ IsStream' = IsStream /\ Net' = Net /\ Known' = Known
      /\ Crashed' = Crashed
  BY DEF IsChat, IsStream, Hierarchical, Net, Known, Crashed
<1>2. Exempt => Exempt'  BY <1>1 DEF Exempt
<1>3. Carries(Known) => Carries(Known)'
  BY <1>1 DEF Carries
<1>4. Repeats' => Repeats  BY DEF Repeats
<1> QED BY <1>1, <1>2, <1>3, <1>4 DEF AuditInv

\* What one job less in the queue means for the rows.
LEMMA OneLess ==
  ASSUME NEW s, IsSeq(s), s # <<>>, RowLast(s), Head(s).do # "audit"
  PROVE  /\ IsSeq(Tail(s)) /\ RowLast(Tail(s)) /\ (ExtraDue(Tail(s)) => ExtraDue(s))
         /\ Never(s, {"audit"}) => Never(Tail(s), {"audit"})
         /\ OnlyBilling(s) => OnlyBilling(Tail(s)) /\ Head(s).do = "settleBilling"
         /\ \A usd : Once(s, {"audit"}, usd) => Once(Tail(s), {"audit"}, usd)
<1>1. IsSeq(Tail(s))  BY TailOfJobs
<1>2. RowLast(Tail(s)) /\ (ExtraDue(Tail(s)) => ExtraDue(s))  BY PopJob
<1>3. Never(s, {"audit"}) => Never(Tail(s), {"audit"})  BY PopJob
<1>4. ASSUME NEW usd, Once(s, {"audit"}, usd) PROVE Once(Tail(s), {"audit"}, usd)
  <2>1. Head(s).do \notin {"audit"}  OBVIOUS
  <2> QED BY <1>4, <2>1, PopJob
<1>5. OnlyBilling(s) => OnlyBilling(Tail(s)) /\ Head(s).do = "settleBilling"  BY NextJob
<1> QED BY <1>1, <1>2, <1>3, <1>4, <1>5

\* A run of the guard adds what it cost to what the call knows it spent.
LEMMA InspectedCost ==
  ASSUME NEW r, r.cost \in Nat, r.paid \in Nat, r.paid >= r.cost, Inspected(r),
         spent \in [{"classifier", "forgotten", "model"} -> Nat], spent.model = 0
  PROVE  /\ spent' \in [{"classifier", "forgotten", "model"} -> Nat]
         /\ spent'.model = 0 /\ Net' = Net + r.cost /\ Known' = Net + r.cost
<1>1. r.paid - r.cost \in Nat  OBVIOUS
<1>2. spent' = [spent EXCEPT !.classifier = @ + r.paid,
                             !.forgotten = @ + (r.paid - r.cost)]
  BY DEF Inspected
<1>3. spent' \in [{"classifier", "forgotten", "model"} -> Nat]
  <2>1. spent.classifier + r.paid \in Nat /\ spent.forgotten + (r.paid - r.cost) \in Nat
    BY <1>1
  <2> QED BY <1>2, <2>1
<1>4. /\ spent'.classifier = spent.classifier + r.paid
      /\ spent'.forgotten = spent.forgotten + (r.paid - r.cost)
      /\ spent'.model = 0
  BY <1>2
<1>5. Net' = Net + r.cost /\ Net \in Int  BY <1>4 DEF Net
<1>6. Known' = Net'  BY <1>3, <1>4 DEF Known, Net
<1> QED BY <1>3, <1>4, <1>5, <1>6

\* No step loses what a call cost from its row.
LEMMA AuditStep ==
  ASSUME IsSeq(todo), ApprovedInv, CoverInv, CoverInv', ResolveInv, AuditInv, [Next]_vars
  PROVE  AuditInv'
\* One job of the queue.
<1>1. ASSUME Debit PROVE AuditInv'
  <2>1. /\ todo # <<>> /\ todo' = Tail(todo) /\ Head(todo).do # "audit"
        /\ UNCHANGED <<call, pc, spent, safety, reserved, trail, reply, catching>>
        /\ faults' = faults \/ \E op : faults' = Append(faults, op)
    BY <1>1 DEF Debit, Done, Keep, Due
  <2> QED BY <2>1, OneLess, FaultsGrow, PoppedRow DEF AuditInv, ResolveInv
<1>2. ASSUME Book PROVE AuditInv'
  <2>1. /\ todo # <<>> /\ todo' = Tail(todo) /\ Head(todo).do # "audit"
        /\ UNCHANGED <<call, pc, spent, safety, reserved, trail, reply, catching>>
        /\ faults' = faults \/ \E op : faults' = Append(faults, op)
    BY <1>2 DEF Book, Done, Keep, Due
  <2> QED BY <2>1, OneLess, FaultsGrow, PoppedRow DEF AuditInv, ResolveInv
<1>3. ASSUME FreeLease PROVE AuditInv'
  <2>1. /\ todo # <<>> /\ todo' = Tail(todo) /\ Head(todo).do # "audit"
        /\ UNCHANGED <<call, pc, spent, safety, reserved, trail, reply, catching>>
        /\ faults' = faults \/ \E op : faults' = Append(faults, op)
    BY <1>3 DEF FreeLease, Done, Keep, Due
  <2> QED BY <2>1, OneLess, FaultsGrow, PoppedRow DEF AuditInv, ResolveInv
<1>4. ASSUME FreeHold PROVE AuditInv'
  <2>1. /\ todo # <<>> /\ todo' = Tail(todo) /\ Head(todo).do # "audit"
        /\ UNCHANGED <<call, pc, spent, safety, reserved, trail, reply, catching>>
        /\ faults' = faults \/ \E op : faults' = Append(faults, op)
    BY <1>4 DEF FreeHold, Done, Keep, Due
  <2> QED BY <2>1, OneLess, FaultsGrow, PoppedRow DEF AuditInv, ResolveInv
<1>5. ASSUME SettleLease PROVE AuditInv'
  <2>1. /\ todo # <<>> /\ todo' = Tail(todo) /\ Head(todo).do # "audit"
        /\ UNCHANGED <<call, pc, spent, safety, reserved, trail, reply, catching>>
        /\ faults' = faults \/ \E op : faults' = Append(faults, op)
    BY <1>5 DEF SettleLease, Done, Keep, Due
  <2> QED BY <2>1, OneLess, FaultsGrow, PoppedRow DEF AuditInv, ResolveInv
<1>6. ASSUME SettleBillingDone PROVE AuditInv'
  <2>1. /\ todo # <<>> /\ todo' = Tail(todo) /\ Head(todo).do # "audit"
        /\ UNCHANGED <<call, pc, spent, safety, reserved, trail, reply, catching>>
        /\ faults' = faults \/ \E op : faults' = Append(faults, op)
    BY <1>6 DEF SettleBillingDone, Done, Keep, Due
  <2> QED BY <2>1, OneLess, FaultsGrow, PoppedRow DEF AuditInv, ResolveInv
<1>7. ASSUME ReturnHold PROVE AuditInv'
  <2>1. /\ todo # <<>> /\ todo' = Tail(todo) /\ Head(todo).do # "audit"
        /\ UNCHANGED <<call, pc, spent, safety, reserved, trail, reply, catching>>
        /\ faults' = faults \/ \E op : faults' = Append(faults, op)
    BY <1>7 DEF ReturnHold, Done, Keep, Due
  <2> QED BY <2>1, OneLess, FaultsGrow, PoppedRow DEF AuditInv, ResolveInv
<1>8. ASSUME OperationIsLogged PROVE AuditInv'
  <2>1. /\ todo # <<>> /\ todo' = Tail(todo) /\ Head(todo).do # "audit"
        /\ UNCHANGED <<call, pc, spent, safety, reserved, trail, reply, catching>>
        /\ faults' = faults \/ \E op : faults' = Append(faults, op)
    BY <1>8 DEF OperationIsLogged, Keep, Due, Fault
  <2> QED BY <2>1, OneLess, FaultsGrow, PoppedRow DEF AuditInv, ResolveInv
<1>9. ASSUME StreamReleaseIsLogged PROVE AuditInv'
  <2>1. /\ todo # <<>> /\ Head(todo).do # "audit"
        /\ UNCHANGED <<call, pc, spent, safety, reserved, trail, reply, catching>>
        /\ \E op : faults' = Append(faults, op)
        /\ \/ todo' = Tail(todo)
           \/ /\ Tail(todo) # <<>> /\ Head(Tail(todo)).do # "audit"
              /\ todo' = Tail(Tail(todo))
    BY <1>9 DEF StreamReleaseIsLogged, Keep, Due, Fault
  <2>2. Failed("audit") => Failed("audit")'  BY <2>1, FaultsGrow DEF ResolveInv
  <2>3. RowLast(todo)  BY DEF AuditInv
  <2>4. CASE todo' = Tail(todo)
    BY <2>1, <2>2, <2>3, <2>4, OneLess, PoppedRow
  <2>5. CASE /\ Tail(todo) # <<>> /\ Head(Tail(todo)).do # "audit"
             /\ todo' = Tail(Tail(todo))
    <3> DEFINE s == Tail(todo)
    <3>1. /\ IsSeq(s) /\ RowLast(s) /\ (ExtraDue(s) => ExtraDue(todo))
          /\ Never(todo, {"audit"}) => Never(s, {"audit"})
          /\ OnlyBilling(todo) => OnlyBilling(s)
          /\ \A usd : Once(todo, {"audit"}, usd) => Once(s, {"audit"}, usd)
      BY <2>1, <2>3, OneLess
    <3>2. s # <<>> /\ Head(s).do # "audit" /\ todo' = Tail(s)  BY <2>5
    <3> HIDE DEF s
    <3>3. /\ RowLast(todo') /\ (ExtraDue(todo') => ExtraDue(s))
          /\ Never(s, {"audit"}) => Never(todo', {"audit"})
          /\ OnlyBilling(s) => OnlyBilling(todo')
          /\ \A usd : Once(s, {"audit"}, usd) => Once(todo', {"audit"}, usd)
      BY <3>1, <3>2, OneLess
    <3> QED BY <2>1, <2>2, <3>1, <3>3, PoppedRow
  <2> QED BY <2>1, <2>4, <2>5
<1>10. ASSUME WriteAudit PROVE AuditInv'
  <2>1. /\ todo # <<>> /\ todo' = Tail(todo) /\ Head(todo).do = "audit"
        /\ UNCHANGED <<call, pc, spent, safety, reserved, reply, catching, faults>>
        /\ trail' = Append(trail, [status |-> Head(todo).status, usd |-> Head(todo).usd])
    BY <1>10 DEF WriteAudit, Done, Keep, Due, Usd
  <2>2. /\ RowLast(todo') /\ OnlyBilling(todo') /\ (ExtraDue(todo') => ExtraDue(todo))
        /\ ~Never(todo, {"audit"}) /\ ~OnlyBilling(todo)
        /\ \A usd : Once(todo, {"audit"}, usd) => Head(todo).usd = usd
    <3>1. Head(todo).do \in {"audit"}  BY <2>1
    <3>2. /\ RowLast(todo') /\ OnlyBilling(todo') /\ (ExtraDue(todo') => ExtraDue(todo))
          /\ ~Never(todo, {"audit"})
      BY <2>1, <3>1, PopJob DEF AuditInv
    <3>3. ~OnlyBilling(todo)  BY <2>1, NextJob
    <3>4. ASSUME NEW usd, Once(todo, {"audit"}, usd) PROVE Head(todo).usd = usd
      BY <2>1, <3>1, <3>4, PopJob
    <3> QED BY <3>2, <3>3, <3>4
  <2>3. pc = "reply" /\ trail = <<>>  BY <2>2 DEF AuditInv
  <2>4. Len(trail') = 1 /\ trail' # <<>> /\ trail'[1].usd = Head(todo).usd
    BY <2>1, <2>3
  <2>5. /\ IsChat' = IsChat /\ Net' = Net /\ Known' = Known /\ (Exempt => Exempt')
    BY <2>1 DEF IsChat, IsStream, Hierarchical, Net, Known, Exempt, Crashed, Failed
  <2>6. Carries(Known) => Carries(Known)'
    BY <2>2, <2>3, <2>4, <2>5 DEF Carries
  <2>7. Repeats' => Repeats  BY <2>1, <2>2 DEF Repeats
  <2> QED BY <2>1, <2>2, <2>3, <2>4, <2>5, <2>6, <2>7 DEF AuditInv
<1>11. ASSUME AuditFails PROVE AuditInv'
  <2>1. /\ todo # <<>> /\ todo' = Tail(todo) /\ Head(todo).do = "audit"
        /\ UNCHANGED <<call, pc, spent, safety, reserved, trail, catching>>
        /\ faults' = Append(faults, "audit")
    BY <1>11 DEF AuditFails, Keep, Due, Fault
  <2>2. /\ RowLast(todo') /\ OnlyBilling(todo') /\ (ExtraDue(todo') => ExtraDue(todo))
        /\ ~Never(todo, {"audit"})
    <3>1. Head(todo).do \in {"audit"}  BY <2>1
    <3> QED BY <2>1, <3>1, PopJob DEF AuditInv
  <2>3. pc = "reply"  BY <2>2 DEF AuditInv
  <2>4. Exempt'  BY <2>1, FaultsGrow DEF ResolveInv, Exempt
  <2>5. IsChat' = IsChat /\ Net' = Net  BY <2>1 DEF IsChat, IsStream, Hierarchical, Net
  <2>6. Repeats' => Repeats  BY <2>1, <2>2 DEF Repeats
  <2> QED BY <2>1, <2>2, <2>3, <2>4, <2>5, <2>6 DEF AuditInv
\* What throws: into a catch block that releases and logs, or past every row.
<1>12. ASSUME OperationThrows PROVE AuditInv'
  <2>1. /\ todo # <<>> /\ Head(todo).do \notin {"audit", "settleBilling"} /\ pc' = "reply"
        /\ UNCHANGED <<call, spent, safety, trail>>
        /\ catching' # "inner"
        /\ \/ /\ catching = "inner" \/ Head(todo).do = "returnExtra"
              /\ todo' = ReleaseWithSafety \o RejectionRow("failed", safety)
           \/ todo' = <<>> /\ reply' = Crash
    BY <1>12 DEF OperationThrows, Due, Fault
  <2>2. trail = <<>>
    <3>1. ~OnlyBilling(todo)  BY <2>1, NextJob
    <3> QED BY <3>1 DEF AuditInv
  <2>3. pc \in {"answer", "reply"}  BY <2>1 DEF CoverInv
  <2>4. CASE todo' = <<>> /\ reply' = Crash
    <3>1. Exempt'  BY <2>4 DEF Exempt, Crashed, Crash, Refuse
    <3>2. RowLast(todo') /\ ~ExtraDue(todo') /\ ~Repeats'
      BY <2>1, <2>4, NoJobs DEF Repeats
    <3> QED BY <2>1, <2>2, <3>1, <3>2 DEF AuditInv
  <2>5. CASE /\ catching = "inner" \/ Head(todo).do = "returnExtra"
             /\ todo' = ReleaseWithSafety \o RejectionRow("failed", safety)
    <3>1. Repeats
      <4>1. Head(todo) \in Range(todo)  BY <2>1, TailOfJobs
      <4>2. Head(todo).do = "returnExtra" => ExtraDue(todo)  BY <4>1 DEF ExtraDue
      <4> QED BY <2>3, <2>5, <4>2 DEF Repeats, AuditInv
    <3>2. spent.model = 0 /\ Net = safety  BY <3>1 DEF AuditInv
    <3>3. Known = safety  BY <3>2 DEF AuditInv, Known, Net
    <3>4. Known' = Known  BY <2>1 DEF Known
    <3>5. Recorded(todo', safety)  BY <2>5, RecordedEndings
    <3>6. Carries(Known)'
      BY <2>1, <2>2, <3>3, <3>4, <3>5 DEF Carries, Recorded
    <3>7. RowLast(todo') /\ ~Repeats'
      BY <2>1, <3>5 DEF Recorded, Repeats
    <3> QED BY <2>1, <2>2, <3>6, <3>7 DEF AuditInv
  <2> QED BY <2>1, <2>4, <2>5
<1>13. ASSUME ReserveThrows PROVE AuditInv'
  <2>1. /\ pc \in {"hold", "lease"} /\ pc' = "reply"
        /\ UNCHANGED <<call, trail, spent, safety, catching>> /\ todo' = <<>> /\ reply' = Crash
    BY <1>13 DEF ReserveThrows, At
  <2>2. catching' # "inner"  BY <2>1 DEF AuditInv
  <2>3. RowLast(todo')  BY <2>1, NoJobs
  <2> QED BY <2>1, <2>2, <2>3, RefusedRow
\* On the way to the reservation.
<1>14. ASSUME CheckPause PROVE AuditInv'
  <2>1. pc = "pause" /\ UNCHANGED <<call, trail, spent, safety, catching>>
    BY <1>14 DEF CheckPause, At, Answer
  <2>2. catching' # "inner"  BY <2>1 DEF AuditInv
  <2>3. CASE pc' = "reply"
    <3>1. todo' = <<>>
      BY <1>14, <2>1, <2>3 DEF CheckPause, At, Answer
    <3>2. RowLast(todo') /\ (safety = 0 \/ Once(todo', {"audit"}, safety))
      BY <2>1, <3>1, NoJobs, RecordedBatches, Records DEF AuditInv, Recorded, Silent
    <3> QED BY <2>1, <2>2, <2>3, <3>1, <3>2, RefusedRow
  <2>4. CASE pc' # "reply"
    <3>1. pc' = "evaluate"
      BY <1>14, <2>1, <2>4 DEF CheckPause, At, Answer
    <3> QED BY <2>1, <2>2, <3>1, GoesOnRow
  <2> QED BY <2>3, <2>4
<1>15. ASSUME EvaluateChat PROVE AuditInv'
  <2>1. pc = "evaluate" /\ UNCHANGED <<call, trail, spent, safety, catching>>
    BY <1>15 DEF EvaluateChat, At, Answer, Following, FlatOrder, PathOrder
  <2>2. catching' # "inner"  BY <2>1 DEF AuditInv
  <2>3. CASE pc' = "reply"
    <3>1. todo' = <<>> \/ todo' = RejectionRow("failed", 0)
      BY <1>15, <2>1, <2>3 DEF EvaluateChat, At, Answer, Following, FlatOrder, PathOrder
    <3>2. RowLast(todo') /\ (safety = 0 \/ Once(todo', {"audit"}, safety))
      BY <2>1, <3>1, NoJobs, RecordedBatches, Records DEF AuditInv, Recorded, Silent
    <3> QED BY <2>1, <2>2, <2>3, <3>1, <3>2, RefusedRow
  <2>4. CASE pc' # "reply"
    <3>1. pc' \in {"path", "screen", "guard", "hold"}
      BY <1>15, <2>1, <2>4 DEF EvaluateChat, At, Answer, Following, FlatOrder, PathOrder
    <3> QED BY <2>1, <2>2, <3>1, GoesOnRow
  <2> QED BY <2>3, <2>4
<1>16. ASSUME EvaluateEmbeddings PROVE AuditInv'
  <2>1. pc = "evaluate" /\ UNCHANGED <<call, trail, spent, safety, catching>>
    BY <1>16 DEF EvaluateEmbeddings, At, Answer
  <2>2. catching' # "inner"  BY <2>1 DEF AuditInv
  <2>3. CASE pc' = "reply"
    <3>1. todo' = <<>> \/ todo' = RejectionRow("failed", 0)
      BY <1>16, <2>1, <2>3 DEF EvaluateEmbeddings, At, Answer
    <3>2. RowLast(todo') /\ (safety = 0 \/ Once(todo', {"audit"}, safety))
      BY <2>1, <3>1, NoJobs, RecordedBatches, Records DEF AuditInv, Recorded, Silent
    <3> QED BY <2>1, <2>2, <2>3, <3>1, <3>2, RefusedRow
  <2>4. CASE pc' # "reply"
    <3>1. pc' \in {"path", "screen", "guard", "hold"}
      BY <1>16, <2>1, <2>4 DEF EvaluateEmbeddings, At, Answer
    <3> QED BY <2>1, <2>2, <3>1, GoesOnRow
  <2> QED BY <2>3, <2>4
<1>17. ASSUME EvaluateDocument PROVE AuditInv'
  <2>1. pc = "evaluate" /\ UNCHANGED <<call, trail, spent, safety, catching>>
    BY <1>17 DEF EvaluateDocument, At, Answer
  <2>2. catching' # "inner"  BY <2>1 DEF AuditInv
  <2>3. CASE pc' = "reply"
    <3>1. todo' = <<>> \/ todo' = RejectionRow("failed", 0)
      BY <1>17, <2>1, <2>3 DEF EvaluateDocument, At, Answer
    <3>2. RowLast(todo') /\ (safety = 0 \/ Once(todo', {"audit"}, safety))
      BY <2>1, <3>1, NoJobs, RecordedBatches, Records DEF AuditInv, Recorded, Silent
    <3> QED BY <2>1, <2>2, <2>3, <3>1, <3>2, RefusedRow
  <2>4. CASE pc' # "reply"
    <3>1. pc' \in {"path", "screen", "guard", "hold"}
      BY <1>17, <2>1, <2>4 DEF EvaluateDocument, At, Answer
    <3> QED BY <2>1, <2>2, <3>1, GoesOnRow
  <2> QED BY <2>3, <2>4
<1>18. ASSUME LoadHierarchicalPath PROVE AuditInv'
  <2>1. pc = "path" /\ UNCHANGED <<call, trail, spent, safety, catching>>
    BY <1>18 DEF LoadHierarchicalPath, At, Answer, Following, PathOrder, CoverInv
  <2>2. catching' # "inner"  BY <2>1 DEF AuditInv
  <2>3. CASE pc' = "reply"
    <3>1. todo' = <<>> \/ todo' = Row("failed", 0, AuditUnavailable(TRUE))
      BY <1>18, <2>1, <2>3 DEF LoadHierarchicalPath, At, Answer, Following, PathOrder, CoverInv
    <3>2. RowLast(todo') /\ (safety = 0 \/ Once(todo', {"audit"}, safety))
      BY <2>1, <3>1, NoJobs, RecordedBatches, Records DEF AuditInv, Recorded, Silent
    <3> QED BY <2>1, <2>2, <2>3, <3>1, <3>2, RefusedRow
  <2>4. CASE pc' # "reply"
    <3>1. pc' \in {"path", "screen", "guard", "hold"}
      BY <1>18, <2>1, <2>4 DEF LoadHierarchicalPath, At, Answer, Following, PathOrder, CoverInv
    <3> QED BY <2>1, <2>2, <3>1, GoesOnRow
  <2> QED BY <2>3, <2>4
<1>19. ASSUME ScreenContext PROVE AuditInv'
  <2>1. /\ pc = "screen" /\ UNCHANGED <<call, trail, catching>>
        /\ pc' \in {"guard", "reply"}
    BY <1>19 DEF ScreenContext, At, Answer, Following, FlatOrder, PathOrder
  <2>2. catching' # "inner" /\ safety = 0 /\ Net = safety /\ spent.model = 0
    BY <2>1 DEF AuditInv
  <2>3. CASE ~(plan.grounding = "strict" /\ plan.injection = "block")
    <3>1. pc' = "guard" /\ UNCHANGED <<spent, safety>>
      BY <1>19, <2>1, <2>3 DEF ScreenContext, Following, FlatOrder, PathOrder
    <3> QED BY <2>1, <2>2, <3>1, GoesOnRow
  <2>4. CASE plan.grounding = "strict" /\ plan.injection = "block"
    <3> DEFINE R(v) == InspectInput(call.guard, ContextPlan, Req.context.text, FALSE, "up", v)
    <3>1. PICK verdict \in Verdicts :
            /\ Inspected(R(verdict))
            /\ \/ pc' = "guard" /\ safety' = R(verdict).cost
               \/ /\ pc' = "reply" /\ reply' = Refuse(400, "grounding_context_rejected")
                  /\ todo' = IncurSafety(R(verdict).cost)
               \/ /\ pc' = "reply" /\ reply' = Refuse(503, "safety_unavailable")
                  /\ todo' = <<>>
      BY <1>19, <2>1, <2>4 DEF ScreenContext, Answer, Following, FlatOrder, PathOrder
    <3> DEFINE r == R(verdict)
    <3>2. r.cost \in Nat /\ r.paid \in Nat /\ r.paid >= r.cost
      BY Charges DEF Scans
    <3>3. /\ Inspected(r) /\ (pc' # "reply" => safety' = r.cost)
          /\ pc' = "reply" =>
               \/ /\ reply' = Refuse(400, "grounding_context_rejected")
                  /\ todo' = IncurSafety(r.cost)
               \/ reply' = Refuse(503, "safety_unavailable") /\ todo' = <<>>
      BY <3>1
    <3> HIDE DEF r, R
    <3>4. pc' = "reply" => /\ RowLast(todo') /\ ~ExtraDue(todo')
                           /\ reply'.code \in {"safety_unavailable", "grounding_context_rejected"}
      <4>1. Refuse(400, "grounding_context_rejected").code = "grounding_context_rejected"
            /\ Refuse(503, "safety_unavailable").code = "safety_unavailable"
        BY DEF Refuse
      <4>2. pc' = "reply" => Silent(todo')  BY <3>3, Records, RecordedBatches
      <4>3. pc' = "reply" =>
              reply'.code \in {"safety_unavailable", "grounding_context_rejected"}
        BY <3>3, <4>1
      <4> QED BY <4>2, <4>3 DEF Silent
    <3>5. /\ spent' \in [{"classifier", "forgotten", "model"} -> Nat]
          /\ spent'.model = 0 /\ Net' = Net + r.cost
      BY <2>2, <3>2, <3>3, InspectedCost DEF AuditInv
    <3>6. CASE pc' = "reply"
      <4>1. Exempt'  BY <3>4, <3>5, <3>6 DEF Exempt
      <4> QED BY <2>1, <2>2, <3>4, <3>5, <3>6, <4>1, EndedRow
    <3>7. CASE pc' # "reply"
      <4>1. pc' = "guard" /\ Net' = safety'  BY <2>1, <2>2, <3>2, <3>3, <3>5, <3>7
      <4>2. todo' = <<>> /\ trail' = <<>>  BY <2>1, <4>1 DEF CoverInv, AuditInv
      <4>3. RowLast(todo') /\ ~ExtraDue(todo') /\ Never(todo', {"audit"})
        BY <4>2, NoJobs
      <4>4. ~Repeats'  BY <2>1, <2>2, <4>3 DEF Repeats
      <4> QED BY <2>1, <2>2, <3>5, <4>1, <4>2, <4>3, <4>4 DEF AuditInv
    <3> QED BY <3>6, <3>7
  <2> QED BY <2>3, <2>4
<1>20. ASSUME RunInputSafety PROVE AuditInv'
  <2> DEFINE R(v, sc) == InspectInput(call.guard, plan, text, Req.image, sc, v)
  <2>1. /\ pc = "guard" /\ UNCHANGED <<call, trail, catching>> /\ IsChat
        /\ pc' \in {"hold", "reserve_path", "reply"}
    BY <1>20 DEF RunInputSafety, At, Answer, Following, FlatOrder, PathOrder
  <2>2. PICK verdict \in Verdicts, scan \in Scans :
          /\ Inspected(R(verdict, scan))
          /\ \/ pc' # "reply" /\ safety' = safety + R(verdict, scan).cost
             \/ /\ pc' = "reply"
                /\ todo' = IncurSafety(safety + R(verdict, scan).cost)
                           \o RejectionRow("safety_blocked", safety + R(verdict, scan).cost)
             \/ /\ pc' = "reply" /\ reply' = Refuse(503, "safety_unavailable")
                /\ todo' = IncurSafety(safety)
             \/ pc' = "reply" /\ reply' = Crash /\ todo' = <<>>
    BY <1>20, <2>1 DEF RunInputSafety, Answer, Following, FlatOrder, PathOrder
  <2> DEFINE r == R(verdict, scan)
             cost == safety + r.cost
  <2>3. r.cost \in Nat /\ r.paid \in Nat /\ r.paid >= r.cost
    BY Charges
  <2>4. /\ Inspected(r) /\ (pc' # "reply" => safety' = cost)
        /\ pc' = "reply" => \/ Recorded(todo', cost)
                            \/ /\ RowLast(todo') /\ ~ExtraDue(todo')
                               /\ reply'.code = "safety_unavailable" \/ reply' = Crash
    <3>1. Refuse(503, "safety_unavailable").code = "safety_unavailable"  BY DEF Refuse
    <3> QED BY <2>2, <3>1, NoJobs, RecordedBatches, RecordedEndings DEF Silent
  <2> HIDE DEF r, R
  <2>5. catching' # "inner" /\ Net = safety /\ spent.model = 0 /\ safety \in Nat
    BY <2>1 DEF AuditInv, CoverInv
  <2>6. /\ spent' \in [{"classifier", "forgotten", "model"} -> Nat]
        /\ spent'.model = 0 /\ Net' = cost /\ Known' = cost
    BY <2>3, <2>4, <2>5, InspectedCost DEF AuditInv
  <2> HIDE DEF cost
  <2>7. CASE pc' = "reply"
    <3>1. RowLast(todo') /\ ~ExtraDue(todo')  BY <2>4, <2>7 DEF Recorded
    <3>2. Exempt' \/ Once(todo', {"audit"}, Known')
      BY <2>4, <2>6, <2>7 DEF Exempt, Recorded, Crashed, Crash, Refuse
    <3> QED BY <2>1, <2>5, <2>6, <2>7, <3>1, <3>2, EndedRow
  <2>8. CASE pc' # "reply"
    <3>1. Net' = safety'  BY <2>4, <2>6, <2>8
    <3>2. todo' = <<>> /\ trail' = <<>>  BY <2>1, <2>8 DEF CoverInv, AuditInv
    <3>3. RowLast(todo') /\ ~ExtraDue(todo') /\ Never(todo', {"audit"})
      BY <3>2, NoJobs
    <3>4. ~Repeats'  BY <2>1, <2>5, <3>3 DEF Repeats
    <3> QED BY <2>1, <2>5, <2>6, <2>8, <3>1, <3>2, <3>3, <3>4 DEF AuditInv
  <2> QED BY <2>7, <2>8
<1>21. ASSUME ScreenEmbeddings PROVE AuditInv'
  <2>1. pc = "guard" /\ UNCHANGED <<call, trail, spent, safety, catching>>
    BY <1>21 DEF ScreenEmbeddings, At, Answer
  <2>2. catching' # "inner"  BY <2>1 DEF AuditInv
  <2>3. CASE pc' = "reply"
    <3>1. /\ IsEmbeddings
          /\ \/ todo' = <<>>
             \/ \E status : todo' = RejectionRow(status, 0)
      BY <1>21, <2>1, <2>3 DEF ScreenEmbeddings, At, Answer
    <3>2. RowLast(todo') /\ (safety = 0 \/ Once(todo', {"audit"}, safety))
      BY <2>1, <3>1, NoJobs, RecordedBatches, Records, Surfaces DEF CoverInv, Recorded, Silent
    <3> QED BY <2>1, <2>2, <2>3, <3>1, <3>2, RefusedRow
  <2>4. CASE pc' # "reply"
    <3>1. pc' = "hold"
      BY <1>21, <2>1, <2>4 DEF ScreenEmbeddings, At, Answer
    <3> QED BY <2>1, <2>2, <3>1, GoesOnRow
  <2> QED BY <2>3, <2>4
<1>22. ASSUME ReserveFlatHold PROVE AuditInv'
  <2>1. pc = "hold" /\ UNCHANGED <<call, trail, spent, safety, catching>>
    BY <1>22 DEF ReserveFlatHold, AcquireCreditHold, At, Answer
  <2>2. catching' # "inner"  BY <2>1 DEF AuditInv
  <2>3. CASE pc' = "reply"
    <3>1. todo' = IncurSafety(safety) \o Row("failed", safety, AuditUnavailable(TRUE))
      BY <1>22, <2>1, <2>3 DEF ReserveFlatHold, AcquireCreditHold, At, Answer
    <3>2. RowLast(todo') /\ (safety = 0 \/ Once(todo', {"audit"}, safety))
      BY <2>1, <3>1, RecordedEndings, RecordedBatches DEF Recorded
    <3> QED BY <2>1, <2>2, <2>3, <3>1, <3>2, RefusedRow
  <2>4. CASE pc' # "reply"
    <3>1. pc' = "lease"
      BY <1>22, <2>1, <2>4 DEF ReserveFlatHold, AcquireCreditHold, At, Answer
    <3> QED BY <2>1, <2>2, <3>1, GoesOnRow
  <2> QED BY <2>3, <2>4
<1>23. ASSUME ReserveEmbeddingHold PROVE AuditInv'
  <2>1. pc = "hold" /\ UNCHANGED <<call, trail, spent, safety, catching>>
    BY <1>23 DEF ReserveEmbeddingHold, AcquireCreditHold, At, Answer
  <2>2. catching' # "inner"  BY <2>1 DEF AuditInv
  <2>3. CASE pc' = "reply"
    <3>1. IsEmbeddings /\ \E status : todo' = RejectionRow(status, 0)
      BY <1>23, <2>1, <2>3 DEF ReserveEmbeddingHold, AcquireCreditHold, At, Answer
    <3>2. RowLast(todo') /\ (safety = 0 \/ Once(todo', {"audit"}, safety))
      BY <2>1, <3>1, NoJobs, RecordedBatches, Records, Surfaces DEF CoverInv, Recorded, Silent
    <3> QED BY <2>1, <2>2, <2>3, <3>1, <3>2, RefusedRow
  <2>4. CASE pc' # "reply"
    <3>1. pc' = "lease"
      BY <1>23, <2>1, <2>4 DEF ReserveEmbeddingHold, AcquireCreditHold, At, Answer
    <3> QED BY <2>1, <2>2, <3>1, GoesOnRow
  <2> QED BY <2>3, <2>4
<1>24. ASSUME ReserveDocumentHold PROVE AuditInv'
  <2>1. pc = "hold" /\ UNCHANGED <<call, trail, spent, safety, catching>>
    BY <1>24 DEF ReserveDocumentHold, AcquireCreditHold, At, Answer
  <2>2. catching' # "inner"  BY <2>1 DEF AuditInv
  <2>3. CASE pc' = "reply"
    <3>1. IsDocument /\ \E status : todo' = RejectionRow(status, 0)
      BY <1>24, <2>1, <2>3 DEF ReserveDocumentHold, AcquireCreditHold, At, Answer
    <3>2. RowLast(todo') /\ (safety = 0 \/ Once(todo', {"audit"}, safety))
      BY <2>1, <3>1, NoJobs, RecordedBatches, Records, Surfaces DEF CoverInv, Recorded, Silent
    <3> QED BY <2>1, <2>2, <2>3, <3>1, <3>2, RefusedRow
  <2>4. CASE pc' # "reply"
    <3>1. pc' = "lease"
      BY <1>24, <2>1, <2>4 DEF ReserveDocumentHold, AcquireCreditHold, At, Answer
    <3> QED BY <2>1, <2>2, <3>1, GoesOnRow
  <2> QED BY <2>3, <2>4
<1>25. ASSUME ReserveHierarchical PROVE AuditInv'
  <2>1. pc = "reserve_path" /\ UNCHANGED <<call, trail, spent, safety, catching>>
    BY <1>25 DEF ReserveHierarchical, At, Answer
  <2>2. catching' # "inner"  BY <2>1 DEF AuditInv
  <2>3. CASE pc' = "reply"
    <3>1. todo' = IncurSafety(safety) \o RejectionRow("failed", safety)
      BY <1>25, <2>1, <2>3 DEF ReserveHierarchical, At, Answer
    <3>2. RowLast(todo') /\ (safety = 0 \/ Once(todo', {"audit"}, safety))
      BY <2>1, <3>1, RecordedEndings, RecordedBatches DEF Recorded
    <3> QED BY <2>1, <2>2, <2>3, <3>1, <3>2, RefusedRow
  <2>4. CASE pc' # "reply"
    <3>1. pc' = "call"
      BY <1>25, <2>1, <2>4 DEF ReserveHierarchical, At, Answer
    <3> QED BY <2>1, <2>2, <3>1, GoesOnRow
  <2> QED BY <2>3, <2>4
<1>26. ASSUME ReserveFlatLease PROVE AuditInv'
  <2>1. /\ pc = "lease" /\ UNCHANGED <<call, trail, spent, safety, catching>>
        /\ ReserveBudget(IncurSafety(safety) \o RejectionRow("failed", safety))
    BY <1>26 DEF ReserveFlatLease, ReserveBudget, At
  <2>2. catching' # "inner"  BY <2>1 DEF AuditInv
  <2>3. Recorded(IncurSafety(safety) \o RejectionRow("failed", safety), safety)
    BY RecordedEndings, RecordedBatches
  <2>4. CASE pc' = "reply"
    <3>1. todo' = JobIf(hold # None, "returnHold", reserved)
                  \o (IncurSafety(safety) \o RejectionRow("failed", safety))
      BY <2>1, <2>4 DEF ReserveBudget, Answer
    <3>2. RowLast(todo') /\ Once(todo', {"audit"}, safety)
      BY <2>3, <3>1, RecordedAfter
    <3> QED BY <2>1, <2>2, <2>4, <3>2, RefusedRow
  <2>5. CASE pc' # "reply"
    <3>1. pc' = "call"  BY <2>1, <2>5 DEF ReserveBudget, Answer
    <3> QED BY <2>1, <2>2, <3>1, GoesOnRow
  <2> QED BY <2>4, <2>5
<1>27. ASSUME ReserveEmbeddingLease PROVE AuditInv'
  <2>1. /\ pc = "lease" /\ UNCHANGED <<call, trail, spent, safety, catching>>
        /\ ReserveBudget(RejectionRow("failed", 0))
    BY <1>27 DEF ReserveEmbeddingLease, ReserveBudget, At
  <2>2. catching' # "inner"  BY <2>1 DEF AuditInv
  <2>3. Recorded(RejectionRow("failed", 0), 0)
    BY RecordedEndings, RecordedBatches
  <2>4. CASE pc' = "reply"
    <3>1. todo' = JobIf(hold # None, "returnHold", reserved) \o RejectionRow("failed", 0)
      BY <2>1, <2>4 DEF ReserveBudget, Answer
    <3>2. RowLast(todo') /\ Once(todo', {"audit"}, 0)
      BY <2>3, <3>1, RecordedAfter
    <3>3. safety = 0  BY <1>27, Surfaces DEF ReserveEmbeddingLease, CoverInv
    <3> QED BY <2>1, <2>2, <2>4, <3>2, <3>3, RefusedRow
  <2>5. CASE pc' # "reply"
    <3>1. pc' = "call"  BY <2>1, <2>5 DEF ReserveBudget, Answer
    <3> QED BY <2>1, <2>2, <3>1, GoesOnRow
  <2> QED BY <2>4, <2>5
<1>28. ASSUME ReserveDocumentLease PROVE AuditInv'
  <2>1. /\ pc = "lease" /\ UNCHANGED <<call, trail, spent, safety, catching>>
        /\ ReserveBudget(RejectionRow("failed", 0))
    BY <1>28 DEF ReserveDocumentLease, ReserveBudget, At
  <2>2. catching' # "inner"  BY <2>1 DEF AuditInv
  <2>3. Recorded(RejectionRow("failed", 0), 0)
    BY RecordedEndings, RecordedBatches
  <2>4. CASE pc' = "reply"
    <3>1. todo' = JobIf(hold # None, "returnHold", reserved) \o RejectionRow("failed", 0)
      BY <2>1, <2>4 DEF ReserveBudget, Answer
    <3>2. RowLast(todo') /\ Once(todo', {"audit"}, 0)
      BY <2>3, <3>1, RecordedAfter
    <3>3. safety = 0  BY <1>28, Surfaces DEF ReserveDocumentLease, CoverInv
    <3> QED BY <2>1, <2>2, <2>4, <3>2, <3>3, RefusedRow
  <2>5. CASE pc' # "reply"
    <3>1. pc' = "call"  BY <2>1, <2>5 DEF ReserveBudget, Answer
    <3> QED BY <2>1, <2>2, <3>1, GoesOnRow
  <2> QED BY <2>4, <2>5
\* The call, its fallback and its top-up.
<1>29. ASSUME ProviderFails PROVE AuditInv'
  <2>1. /\ pc \in {"call", "call_fallback"} /\ pc' = "reply"
        /\ UNCHANGED <<call, trail, spent, safety>> /\ catching' = "none"
        /\ todo' = ReleaseWithSafety \o RejectionRow("failed", safety)
    BY <1>29 DEF ProviderFails, At, Answer
  <2>2. RowLast(todo') /\ Once(todo', {"audit"}, safety)
    BY <2>1, RecordedEndings DEF Recorded
  <2> QED BY <2>1, <2>2, RefusedRow
<1>30. ASSUME StreamReleased PROVE AuditInv'
  <2>1. /\ pc = "first" /\ pc' = "reply" /\ UNCHANGED <<call, trail, spent, safety>>
        /\ catching' = "stream" /\ reply'.status # 200 /\ todo' = ReleaseWithSafety
    BY <1>30, Statuses DEF StreamReleased, At, Answer
  <2>2. RowLast(todo')  BY <2>1, RecordedBatches DEF Silent
  <2> QED BY <2>1, <2>2, RefusedRow
<1>31. ASSUME EmbeddingFails PROVE AuditInv'
  <2>1. /\ pc \in {"call", "call_fallback"} /\ pc' = "reply"
        /\ UNCHANGED <<call, trail, spent, safety, catching>>
        /\ todo' = ReleaseWithSafety \o RejectionRow("failed", 0)
        /\ ~IsChat
    BY <1>31, Surfaces DEF EmbeddingFails, At, Answer
  <2>2. RowLast(todo')  BY <2>1, RecordedEndings DEF Recorded
  <2>3. safety = 0 /\ catching' # "inner"  BY <2>1 DEF CoverInv, AuditInv
  <2> QED BY <2>1, <2>2, <2>3, RefusedRow
<1>32. ASSUME ExtractFails PROVE AuditInv'
  <2>1. /\ pc \in {"call", "call_fallback"} /\ pc' = "reply"
        /\ UNCHANGED <<call, trail, spent, safety, catching>>
        /\ todo' = ReleaseWithSafety \o RejectionRow("failed", 0)
        /\ ~IsChat
    BY <1>32, Surfaces DEF ExtractFails, At, Answer
  <2>2. RowLast(todo')  BY <2>1, RecordedEndings DEF Recorded
  <2>3. safety = 0 /\ catching' # "inner"  BY <2>1 DEF CoverInv, AuditInv
  <2> QED BY <2>1, <2>2, <2>3, RefusedRow
<1>33. ASSUME ProviderFallsBack PROVE AuditInv'
  <2>1. pc = "call" /\ UNCHANGED <<call, trail, spent, safety>> /\ catching' = "inner" /\ IsChat
    BY <1>33 DEF ProviderFallsBack, At, IsChat
  <2>2. CASE ChatDecision(TRUE).kind = "block"
    <3>1. /\ pc' = "reply" /\ todo' = ReleaseWithSafety \o RejectionRow("failed", safety)
      BY <1>33, <2>2 DEF ProviderFallsBack, Answer
    <3>2. RowLast(todo') /\ Once(todo', {"audit"}, safety)
      BY <3>1, RecordedEndings DEF Recorded
    <3> QED BY <2>1, <3>1, <3>2, RefusedRow
  <2>3. CASE ChatDecision(TRUE).kind # "block"
    <3>1. pc' \in {"grow_hold", "call_fallback"}  BY <1>33, <2>3 DEF ProviderFallsBack
    <3> QED BY <2>1, <3>1, GoesOnRow
  <2> QED BY <2>2, <2>3
<1>34. ASSUME EmbeddingFallsBack PROVE AuditInv'
  <2>1. /\ pc = "call" /\ UNCHANGED <<call, trail, spent, safety, catching>> /\ ~IsChat
    BY <1>34, Surfaces DEF EmbeddingFallsBack, At
  <2>2. safety = 0 /\ catching' # "inner"  BY <2>1 DEF CoverInv, AuditInv
  <2>3. CASE EmbeddingDecision(TRUE).kind = "block"
    <3>1. /\ pc' = "reply" /\ todo' = ReleaseWithSafety \o RejectionRow("failed", 0)
      BY <1>34, <2>3 DEF EmbeddingFallsBack, Answer
    <3>2. RowLast(todo')  BY <3>1, RecordedEndings DEF Recorded
    <3> QED BY <2>1, <2>2, <3>1, <3>2, RefusedRow
  <2>4. CASE EmbeddingDecision(TRUE).kind # "block"
    <3>1. pc' \in {"grow_hold", "call_fallback"}  BY <1>34, <2>4 DEF EmbeddingFallsBack
    <3> QED BY <2>1, <2>2, <3>1, GoesOnRow
  <2> QED BY <2>3, <2>4
<1>35. ASSUME GrowChatHold PROVE AuditInv'
  <2>1. /\ pc = "grow_hold" /\ UNCHANGED <<call, trail, spent, safety, catching>> /\ IsChat
        /\ GrowHold(RejectionRow("failed", safety))
    BY <1>35, Surfaces DEF GrowChatHold, GrowHold, At
  <2>2. safety = safety  BY <2>1 DEF CoverInv
  <2>3. catching' = "inner" => IsChat  BY <2>1 DEF AuditInv
  <2>4. CASE pc' = "reply"
    <3>1. todo' = ReleaseWithSafety \o RejectionRow("failed", safety)
      BY <2>1, <2>4 DEF GrowHold, Answer
    <3>2. RowLast(todo') /\ Once(todo', {"audit"}, safety)
      BY <3>1, RecordedEndings DEF Recorded
    <3> QED BY <2>1, <2>2, <2>3, <2>4, <3>2, RefusedRow
  <2>5. CASE pc' # "reply"
    <3>1. pc' \in {"call_fallback", "grow_lease"}  BY <2>1, <2>5 DEF GrowHold, Answer
    <3> QED BY <2>1, <2>3, <3>1, GoesOnRow
  <2> QED BY <2>4, <2>5
<1>36. ASSUME GrowEmbeddingHold PROVE AuditInv'
  <2>1. /\ pc = "grow_hold" /\ UNCHANGED <<call, trail, spent, safety, catching>> /\ ~IsChat
        /\ GrowHold(RejectionRow("failed", 0))
    BY <1>36, Surfaces DEF GrowEmbeddingHold, GrowHold, At
  <2>2. safety = 0  BY <2>1 DEF CoverInv
  <2>3. catching' = "inner" => IsChat  BY <2>1 DEF AuditInv
  <2>4. CASE pc' = "reply"
    <3>1. todo' = ReleaseWithSafety \o RejectionRow("failed", 0)
      BY <2>1, <2>4 DEF GrowHold, Answer
    <3>2. RowLast(todo') /\ Once(todo', {"audit"}, 0)
      BY <3>1, RecordedEndings DEF Recorded
    <3> QED BY <2>1, <2>2, <2>3, <2>4, <3>2, RefusedRow
  <2>5. CASE pc' # "reply"
    <3>1. pc' \in {"call_fallback", "grow_lease"}  BY <2>1, <2>5 DEF GrowHold, Answer
    <3> QED BY <2>1, <2>3, <3>1, GoesOnRow
  <2> QED BY <2>4, <2>5
<1>37. ASSUME GrowChatLease PROVE AuditInv'
  <2>1. /\ pc = "grow_lease" /\ UNCHANGED <<call, trail, spent, safety, catching>> /\ IsChat
        /\ GrowLease(RejectionRow("failed", safety))
    BY <1>37, Surfaces DEF GrowChatLease, GrowLease, At
  <2>2. safety = safety  BY <2>1 DEF CoverInv
  <2>3. catching' = "inner" => IsChat  BY <2>1 DEF AuditInv
  <2>4. CASE pc' = "reply"
    <3> DEFINE rest == ReleaseWithSafety \o RejectionRow("failed", safety)
    <3>1. todo' = JobIf(UsesCredits, "returnExtra", Extra) \o rest
      <4>1. todo' = JobIf(UsesCredits, "returnExtra", Extra)
                    \o ReleaseWithSafety \o RejectionRow("failed", safety)
        BY <2>1, <2>4 DEF GrowLease, Answer
      <4> DEFINE a == JobIf(UsesCredits, "returnExtra", Extra)
                 b == ReleaseWithSafety
                 c == RejectionRow("failed", safety)
      <4>2. IsSeq(a) /\ IsSeq(b) /\ IsSeq(c)  BY Lists, Batches
      <4> HIDE DEF a, b, c
      <4>3. (a \o b) \o c = a \o (b \o c)  BY <4>2 DEF IsSeq
      <4> QED BY <4>1, <4>3 DEF a, b, c
    <3>2. Recorded(rest, safety)  BY RecordedEndings
    <3> HIDE DEF rest
    <3>3. RowLast(todo') /\ Once(todo', {"audit"}, safety)
      BY <3>1, <3>2, RecordedAfter
    <3> QED BY <2>1, <2>2, <2>3, <2>4, <3>3, RefusedRow
  <2>5. CASE pc' # "reply"
    <3>1. pc' = "call_fallback"  BY <2>1, <2>5 DEF GrowLease, Answer
    <3> QED BY <2>1, <2>3, <3>1, GoesOnRow
  <2> QED BY <2>4, <2>5
<1>38. ASSUME GrowEmbeddingLease PROVE AuditInv'
  <2>1. /\ pc = "grow_lease" /\ UNCHANGED <<call, trail, spent, safety, catching>> /\ ~IsChat
        /\ GrowLease(RejectionRow("failed", 0))
    BY <1>38, Surfaces DEF GrowEmbeddingLease, GrowLease, At
  <2>2. safety = 0  BY <2>1 DEF CoverInv
  <2>3. catching' = "inner" => IsChat  BY <2>1 DEF AuditInv
  <2>4. CASE pc' = "reply"
    <3> DEFINE rest == ReleaseWithSafety \o RejectionRow("failed", 0)
    <3>1. todo' = JobIf(UsesCredits, "returnExtra", Extra) \o rest
      <4>1. todo' = JobIf(UsesCredits, "returnExtra", Extra)
                    \o ReleaseWithSafety \o RejectionRow("failed", 0)
        BY <2>1, <2>4 DEF GrowLease, Answer
      <4> DEFINE a == JobIf(UsesCredits, "returnExtra", Extra)
                 b == ReleaseWithSafety
                 c == RejectionRow("failed", 0)
      <4>2. IsSeq(a) /\ IsSeq(b) /\ IsSeq(c)  BY Lists, Batches
      <4> HIDE DEF a, b, c
      <4>3. (a \o b) \o c = a \o (b \o c)  BY <4>2 DEF IsSeq
      <4> QED BY <4>1, <4>3 DEF a, b, c
    <3>2. Recorded(rest, 0)  BY RecordedEndings
    <3> HIDE DEF rest
    <3>3. RowLast(todo') /\ Once(todo', {"audit"}, 0)
      BY <3>1, <3>2, RecordedAfter
    <3> QED BY <2>1, <2>2, <2>3, <2>4, <3>3, RefusedRow
  <2>5. CASE pc' # "reply"
    <3>1. pc' = "call_fallback"  BY <2>1, <2>5 DEF GrowLease, Answer
    <3> QED BY <2>1, <2>3, <3>1, GoesOnRow
  <2> QED BY <2>4, <2>5
<1>39. ASSUME GrowChatThrows PROVE AuditInv'
  <2>1. /\ pc \in {"grow_hold", "grow_lease"} /\ UNCHANGED <<call, trail, spent, safety>> /\ IsChat
        /\ pc' = "reply" /\ catching' = "none"
        /\ todo' = ReleaseWithSafety \o RejectionRow("failed", safety)
    BY <1>39, Surfaces DEF GrowChatThrows, GrowThrows, At, Answer
  <2>2. safety = safety  BY <2>1 DEF CoverInv
  <2>3. RowLast(todo') /\ Once(todo', {"audit"}, safety)
    BY <2>1, RecordedEndings DEF Recorded
  <2> QED BY <2>1, <2>2, <2>3, RefusedRow
<1>40. ASSUME GrowEmbeddingThrows PROVE AuditInv'
  <2>1. /\ pc \in {"grow_hold", "grow_lease"} /\ UNCHANGED <<call, trail, spent, safety>> /\ ~IsChat
        /\ pc' = "reply" /\ catching' = "none"
        /\ todo' = ReleaseWithSafety \o RejectionRow("failed", 0)
    BY <1>40, Surfaces DEF GrowEmbeddingThrows, GrowThrows, At, Answer
  <2>2. safety = 0  BY <2>1 DEF CoverInv
  <2>3. RowLast(todo') /\ Once(todo', {"audit"}, 0)
    BY <2>1, RecordedEndings DEF Recorded
  <2> QED BY <2>1, <2>2, <2>3, RefusedRow
\* The model has answered.
<1>41. ASSUME ProviderAnswers PROVE AuditInv'
  <2>1. /\ pc \in {"call", "call_fallback"} /\ pc' = "answer"
        /\ UNCHANGED <<call, trail, safety>> /\ catching' = "none"
        /\ \E c, usd : todo' = JobIf(c, "settleLease", usd)
        /\ IsChat
    BY <1>41 DEF ProviderAnswers, ModelRan, At, IsChat
  <2>2. decision.estimate \in Nat /\ call.reports \subseteq Nat \union {None}
    <3>1. pc \in {"call", "call_fallback"} /\ ~IsDocument
      BY <1>41 DEF ProviderAnswers, At, IsDocument
    <3>2. Decided  BY <3>1 DEF Decided
    <3> QED BY <3>2, LoadedCalls DEF CoverInv, DecidedWell, ApprovedInv
  <2>3. /\ spent' \in [{"classifier", "forgotten", "model"} -> Nat] /\ Net' = Net
    BY <1>41, <2>2 DEF ProviderAnswers, ModelRan, At, AuditInv, Net
  <2>4. catching' # "inner"  BY <2>1, Surfaces DEF AuditInv
  <2>5. RowLast(todo') /\ ~ExtraDue(todo') /\ Never(todo', {"audit"})
    BY <2>1, Records DEF Silent
  <2>6. ~Repeats'  BY <2>1, <2>5 DEF Repeats
  <2> QED BY <2>1, <2>3, <2>4, <2>5, <2>6 DEF AuditInv
<1>42. ASSUME ExtractAnswers PROVE AuditInv'
  <2>1. /\ pc \in {"call", "call_fallback"} /\ pc' = "answer"
        /\ UNCHANGED <<call, trail, safety>> /\ catching' = catching
        /\ \E c, usd : todo' = JobIf(c, "settleLease", usd)
        /\ IsDocument
    BY <1>42 DEF ExtractAnswers, At, IsChat
  <2>2. call.request.size * PageRate \in Nat
    <3>1. call.request.size \in Nat /\ PageRate \in Nat
      BY LoadedCalls, DocumentConstants DEF ApprovedInv
    <3> QED BY <3>1
  <2>3. /\ spent' \in [{"classifier", "forgotten", "model"} -> Nat] /\ Net' = Net
    BY <1>42, <2>2 DEF ExtractAnswers, At, AuditInv, Net
  <2>4. catching' # "inner"  BY <2>1, Surfaces DEF AuditInv
  <2>5. RowLast(todo') /\ ~ExtraDue(todo') /\ Never(todo', {"audit"})
    BY <2>1, Records DEF Silent
  <2>6. ~Repeats'  BY <2>1, <2>5 DEF Repeats
  <2> QED BY <2>1, <2>3, <2>4, <2>5, <2>6 DEF AuditInv
<1>43. ASSUME EmbeddingAnswers PROVE AuditInv'
  <2>1. /\ pc \in {"call", "call_fallback"} /\ pc' = "reply" /\ ~IsChat
        /\ UNCHANGED <<call, trail, safety, catching>>
        /\ todo' = JobIf(~CreditsOnly, "settleLease", spent'.model)
                   \o Row("ok", spent'.model, Final(503, "audit_unavailable"))
                   \o JobIf(UsesCredits \/ UsesMeter, "settleBilling", spent'.model)
    BY <1>43, Surfaces DEF EmbeddingAnswers, At, Answer
  <2>2. reserved \in Nat /\ call.reports \subseteq Nat \union {None}
    BY LoadedCalls DEF CoverInv, ApprovedInv
  <2>3. /\ spent' \in [{"classifier", "forgotten", "model"} -> Nat]
        /\ spent'.classifier = spent.classifier /\ spent'.forgotten = spent.forgotten
    BY <1>43, <2>2 DEF EmbeddingAnswers, ModelRan, AuditInv
  <2>4. catching' # "inner" /\ safety = 0  BY <2>1 DEF AuditInv, CoverInv
  <2>5. Recorded(todo', spent'.model)  BY <2>1, RecordedEndings
  <2>6. spent'.model + safety = spent'.model  BY <2>3, <2>4
  <2> QED BY <2>1, <2>3, <2>4, <2>5, <2>6, ChargedRow
<1>44. ASSUME StreamEnds \/ StreamCut PROVE AuditInv'
  <2>1. PICK reported \in call.reports \union {None}, produced \in Produced :
          \E outcome : SettleStream(reported, produced, outcome)
    BY <1>44 DEF StreamEnds, StreamCut
  <2>2. /\ pc = "stream" /\ pc' = "reply" /\ UNCHANGED <<call, trail, safety>>
        /\ catching' = "stream"
        /\ spent' = [spent EXCEPT !.model = StreamCost(reported, produced)]
        /\ todo' = JobIf(Hierarchical \/ ~CreditsOnly, "settleLease", spent'.model + safety)
                   \o Row("ok", spent'.model + safety, None)
                   \o JobIf(UsesCredits \/ UsesMeter, "settleBilling", spent'.model + safety)
    BY <1>44, <2>1 DEF StreamEnds, StreamCut, SettleStream, At, Answer
  <2>3. StreamCost(reported, produced) \in Nat
    <3>1. reported \in Nat \union {None}  BY <2>1, LoadedCalls DEF ApprovedInv
    <3>2. safety \in Nat /\ reserved \in Nat /\ reserved >= safety
      BY <2>2 DEF AuditInv, CoverInv
    <3>3. IsStream  BY <2>2 DEF AuditInv
    <3>4. decision.estimate \in Nat
      BY <2>2, <3>3, Surfaces DEF CoverInv, Decided, DecidedWell, IsStream, IsChat
    <3>5. produced \in Nat  BY <2>1, <3>4 DEF Produced
    <3> QED BY <3>1, <3>2, <3>5 DEF StreamCost
  <2>4. /\ spent' \in [{"classifier", "forgotten", "model"} -> Nat]
        /\ spent'.classifier = spent.classifier /\ spent'.forgotten = spent.forgotten
    BY <2>2, <2>3 DEF AuditInv
  <2>5. Recorded(todo', spent'.model + safety)  BY <2>2, RecordedEndings
  <2> QED BY <2>2, <2>4, <2>5, ChargedRow
<1>45. ASSUME ScreenAnswer PROVE AuditInv'
  <2>1. /\ pc = "answer" /\ UNCHANGED <<call, spent, safety, trail, catching>>
    BY <1>45 DEF ScreenAnswer, At
  <2>2. AnswerBlocked \/ AnswerUnscreened \/ AnswerLost \/ \E r : AnswerServed(r)
    BY <1>45, Endings
  <2> DEFINE Over == \/ reply' = Crash /\ todo' = <<>>
                     \/ \E status, lost : todo' = Row(status, Actual, lost) \o SettleBilling
  <2>3. ASSUME AnswerBlocked PROVE pc' = "reply" /\ Over
    BY <2>3 DEF AnswerBlocked, Answer
  <2>4. ASSUME AnswerUnscreened PROVE pc' = "reply" /\ Over
    BY <2>4 DEF AnswerUnscreened, Answer
  <2>5. ASSUME AnswerLost PROVE pc' = "reply" /\ Over
    BY <2>5 DEF AnswerLost, Answer
  <2>6. ASSUME NEW r, AnswerServed(r) PROVE pc' = "reply" /\ Over
    BY <2>6 DEF AnswerServed, Answer
  <2>7. pc' = "reply" /\ Over  BY <2>2, <2>3, <2>4, <2>5, <2>6
  <2>8. Actual = spent'.model + safety  BY <2>1 DEF Actual
  <2>9. (reply' = Crash /\ RowLast(todo') /\ ~ExtraDue(todo')) \/ Recorded(todo', Actual)
    BY <2>7, NoJobs, RecordedBatches, RecordedEndings DEF Silent
  <2>10. catching' # "inner" /\ spent' \in [{"classifier", "forgotten", "model"} -> Nat]
    BY <2>1 DEF AuditInv
  <2> QED BY <2>1, <2>7, <2>8, <2>9, <2>10, ChargedRow
<1>46. ASSUME ScreenDocument PROVE AuditInv'
  <2>1. /\ pc = "answer" /\ UNCHANGED <<call, spent, safety, trail, catching>>
    BY <1>46 DEF ScreenDocument, At
  <2>2. DocumentBlocked \/ DocumentUnscreened \/ DocumentLost \/ \E r : DocumentServed(r)
    BY <1>46, Endings
  <2> DEFINE Over == \/ reply' = Crash /\ todo' = SettleBilling
                     \/ \E status, lost : todo' = Row(status, Actual, lost) \o SettleBilling
  <2>3. ASSUME DocumentBlocked PROVE pc' = "reply" /\ Over
    BY <2>3 DEF DocumentBlocked, Answer
  <2>4. ASSUME DocumentUnscreened PROVE pc' = "reply" /\ Over
    BY <2>4 DEF DocumentUnscreened, Answer
  <2>5. ASSUME DocumentLost PROVE pc' = "reply" /\ Over
    BY <2>5 DEF DocumentLost, Answer
  <2>6. ASSUME NEW r, DocumentServed(r) PROVE pc' = "reply" /\ Over
    BY <2>6 DEF DocumentServed, Answer
  <2>7. pc' = "reply" /\ Over  BY <2>2, <2>3, <2>4, <2>5, <2>6
  <2>8. Actual = spent'.model + safety  BY <2>1 DEF Actual
  <2>9. (reply' = Crash /\ RowLast(todo') /\ ~ExtraDue(todo')) \/ Recorded(todo', Actual)
    BY <2>7, NoJobs, RecordedBatches, RecordedEndings DEF Silent
  <2>10. catching' # "inner" /\ spent' \in [{"classifier", "forgotten", "model"} -> Nat]
    BY <2>1 DEF AuditInv
  <2> QED BY <2>1, <2>7, <2>8, <2>9, <2>10, ChargedRow
\* A stream goes on.
<1>47. ASSUME StreamOpens PROVE AuditInv'
  <2>1. /\ pc = "call" /\ pc' = "first" /\ IsStream
        /\ UNCHANGED <<call, spent, safety, trail, catching, reserved>>
    BY <1>47 DEF StreamOpens, At
  <2>2. reserved >= safety
    <3>1. IsChat /\ ~IsDocument /\ Decided  BY <2>1, Surfaces DEF IsChat, Decided
    <3> QED BY <2>1, <3>1 DEF CoverInv, Priced, DecidedWell
  <2>3. catching' # "inner"  BY <2>1 DEF AuditInv
  <2> QED BY <2>1, <2>2, <2>3, GoesOnRow
<1>48. ASSUME FirstDelta PROVE AuditInv'
  <2>1. /\ pc = "first" /\ pc' = "stream"
        /\ UNCHANGED <<call, spent, safety, trail, catching, reserved>>
    BY <1>48 DEF FirstDelta, At
  <2>2. IsStream /\ reserved >= safety /\ catching' # "inner"  BY <2>1 DEF AuditInv
  <2> QED BY <2>1, <2>2, GoesOnRow
<1>49. ASSUME UNCHANGED vars PROVE AuditInv'
  <2>1. UNCHANGED <<call, pc, spent, safety, reserved, trail, reply, catching, todo, faults>>
    BY <1>49 DEF vars
  <2>2. Failed("audit")' = Failed("audit")  BY <2>1 DEF Failed
  <2> QED BY <2>1, <2>2, PoppedRow DEF AuditInv
<1> QED BY <1>1, <1>2, <1>3, <1>4, <1>5, <1>6, <1>7, <1>8, <1>9, <1>10, <1>11, <1>12,
     <1>13, <1>14, <1>15, <1>16, <1>17, <1>18, <1>19, <1>20, <1>21, <1>22, <1>23,
     <1>24, <1>25, <1>26, <1>27, <1>28, <1>29, <1>30, <1>31, <1>32, <1>33, <1>34,
     <1>35, <1>36, <1>37, <1>38, <1>39, <1>40, <1>41, <1>42, <1>43, <1>44, <1>45,
     <1>46, <1>47, <1>48, <1>49
     DEF Next, LedgerNext, ChatNext, EmbeddingsNext, DocumentsNext

\* What a call cost, and its server knows of, is on the one row it leaves in the
\* request log, whatever failed on the way and in whatever order.
THEOREM CostIsOnTheRow == Spec => []PaidIsAudited
<1> DEFINE Inv == IsSeq(todo) /\ ApprovedInv /\ CoverInv /\ ResolveInv /\ AuditInv
<1>1. CallInit => Inv
  <2> SUFFICES ASSUME CallInit PROVE Inv
    OBVIOUS
  <2>1. ApprovedInv /\ CoverInv  BY CoversAtFirst
  <2>2. /\ todo = <<>> /\ faults = <<>> /\ pc = "pause" /\ lease = None /\ hold = None
        /\ catching = "none" /\ trail = <<>> /\ safety = 0
        /\ spent = [classifier |-> 0, forgotten |-> 0, model |-> 0]
    BY DEF CallInit
  <2>3. ResolveInv  BY <2>2, Lists, OrderlyLists DEF ResolveInv, Queue
  <2>4. AuditInv
    <3>1. RowLast(todo) /\ ~ExtraDue(todo) /\ Never(todo, {"audit"})  BY <2>2, NoJobs
    <3> QED BY <2>2, <3>1 DEF AuditInv, Net, Repeats
  <2> QED BY <2>1, <2>2, <2>3, <2>4, Lists
<1>2. Inv /\ [Next]_vars => Inv'
  <2> SUFFICES ASSUME Inv, [Next]_vars PROVE Inv'
    OBVIOUS
  <2>1. IsSeq(todo')  BY TodoStep
  <2>2. ApprovedInv' /\ CoverInv'  BY ApprovedStep, CoverStep
  <2>3. ResolveInv'  BY <2>2, ResolveStep
  <2>4. AuditInv'  BY <2>2, AuditStep
  <2> QED BY <2>1, <2>2, <2>3, <2>4
<1>3. Inv => PaidIsAudited
  <2> SUFFICES ASSUME Inv, Finished, Known > 0, ~Crashed, ~Failed("audit"),
                      spent.model = 0 =>
                        /\ reply.code \notin {"safety_unavailable", "grounding_context_rejected"}
                        /\ catching = "stream" => reply.status = 200
               PROVE  Len(trail) = 1 /\ trail[1].usd = Known
    BY DEF PaidIsAudited
  <2>1. pc = "reply" /\ todo = <<>>  BY DEF Finished
  <2>2. ~Exempt
    <3>1. Known # 0  BY DEF AuditInv, Known
    <3> QED BY <3>1 DEF Exempt
  <2>3. Carries(Known)  BY <2>1, <2>2 DEF AuditInv
  <2>4. trail # <<>> /\ trail[1].usd = Known
    <3>1. ~Once(todo, {"audit"}, Known)  BY <2>1, NoJobs
    <3> QED BY <2>3, <3>1 DEF Carries
  <2> QED BY <2>4 DEF AuditInv
<1> QED BY <1>1, <1>2, <1>3, PTL DEF Spec

(***************************************************************************)
(* What every ledger is charged.                                           *)
(***************************************************************************)

\* The jobs that book: in the internal ledger, in the wallet, on the meter.
Internal == {"book", "settleLease"}
Credit   == {"debit", "freeHold", "settleBilling"}
Metered  == {"settleBilling"}

Charged == spent.classifier + spent.model

\* The jobs of these kinds come to this amount, in one job or in none.
Leaves(jobs, kinds, usd) == Once(jobs, kinds, usd) \/ (usd = 0 /\ Never(jobs, kinds))

\* What is booked and what is still to be.
Within(jobs, kinds, booked, most) ==
  \E due \in Nat : Leaves(jobs, kinds, due) /\ booked + due <= most
Sums(jobs, kinds, booked, usd) ==
  \E due \in Nat : Leaves(jobs, kinds, due) /\ booked + due = usd

\* The job at the head is done: it has booked its amount, or nothing.
LEMMA LeavesPopped ==
  ASSUME NEW s, IsSeq(s), s # <<>>, NEW K, NEW due, Leaves(s, K, due)
  PROVE  \/ Head(s).do \in K /\ Head(s).usd = due /\ Leaves(Tail(s), K, 0)
         \/ Head(s).do \notin K /\ Leaves(Tail(s), K, due)
<1>1. CASE Once(s, K, due)
  <2>1. \/ Head(s).do \in K /\ Head(s).usd = due /\ Never(Tail(s), K)
        \/ Head(s).do \notin K /\ Once(Tail(s), K, due)
    BY <1>1, PopJob
  <2> QED BY <2>1 DEF Leaves
<1>2. CASE due = 0 /\ Never(s, K)
  <2>1. Head(s).do \notin K /\ Never(Tail(s), K)  BY <1>2, PopJob
  <2> QED BY <1>2, <2>1 DEF Leaves
<1> QED BY <1>1, <1>2 DEF Leaves

\* Doing the job at the head keeps what is booked and due within a bound.
LEMMA WithinPopped ==
  ASSUME NEW s, IsSeq(s), s # <<>>, NEW K, NEW booked \in Nat, NEW most \in Nat, NEW now,
         Within(s, K, booked, most),
         now = booked \/ (Head(s).do \in K /\ now = booked + Head(s).usd)
  PROVE  now \in Nat /\ Within(Tail(s), K, now, most)
<1>1. PICK due \in Nat : Leaves(s, K, due) /\ booked + due <= most  BY DEF Within
<1>2. CASE Head(s).do \in K /\ Head(s).usd = due /\ Leaves(Tail(s), K, 0)
  <2>1. now \in Nat /\ now + 0 <= most  BY <1>1, <1>2
  <2> QED BY <1>2, <2>1 DEF Within
<1>3. CASE Head(s).do \notin K /\ Leaves(Tail(s), K, due)
  BY <1>1, <1>3 DEF Within
<1> QED BY <1>1, <1>2, <1>3, LeavesPopped

\* And keeps their sum, if it books what it was to book.
LEMMA SumsPopped ==
  ASSUME NEW s, IsSeq(s), s # <<>>, NEW K, NEW booked \in Nat, NEW usd \in Nat, NEW now,
         Sums(s, K, booked, usd),
         \/ Head(s).do \in K /\ now = booked + Head(s).usd
         \/ (Head(s).do \notin K \/ usd = 0) /\ now = booked
  PROVE  Sums(Tail(s), K, now, usd)
<1>1. PICK due \in Nat : Leaves(s, K, due) /\ booked + due = usd  BY DEF Sums
<1>2. CASE Head(s).do \in K /\ Head(s).usd = due /\ Leaves(Tail(s), K, 0)
  <2>1. now + 0 = usd  BY <1>1, <1>2
  <2> QED BY <1>2, <2>1 DEF Sums
<1>3. CASE Head(s).do \notin K /\ Leaves(Tail(s), K, due)
  <2>1. now = booked  BY <1>3
  <2> QED BY <1>1, <1>3, <2>1 DEF Sums
<1> QED BY <1>1, <1>2, <1>3, LeavesPopped

\* A list that books nothing.
LEMMA NothingDue ==
  ASSUME NEW s, NEW K, Never(s, K), NEW booked \in Nat, NEW usd \in Nat
  PROVE  /\ \A due : Once(s, K, due) => FALSE
         /\ Sums(s, K, booked, usd) <=> booked = usd
         /\ Within(s, K, booked, usd) <=> booked <= usd
<1>1. ASSUME NEW due, Once(s, K, due) PROVE FALSE
  <2>1. PICK k \in DOMAIN s : s[k].do \in K  BY <1>1 DEF Once
  <2>2. s[k] \in Range(s)  BY <2>1 DEF Range
  <2> QED BY <2>1, <2>2 DEF Never
<1>2. \A due : Leaves(s, K, due) <=> due = 0  BY <1>1 DEF Leaves
<1>3. booked + 0 = booked /\ 0 \in Nat  OBVIOUS
<1>4. Sums(s, K, booked, usd) <=> booked = usd  BY <1>2, <1>3 DEF Sums
<1>5. Within(s, K, booked, usd) <=> booked <= usd  BY <1>2, <1>3 DEF Within
<1> QED BY <1>1, <1>4, <1>5

\* Nothing is booked yet, and all of it is due.
LEMMA AllDue ==
  ASSUME NEW s, NEW K, NEW usd \in Nat, Leaves(s, K, usd) \/ Never(s, K)
  PROVE  /\ Leaves(s, K, usd) => Sums(s, K, 0, usd)
         /\ \A most \in Nat : usd <= most => Within(s, K, 0, most)
<1>1. 0 + usd = usd /\ 0 + 0 = 0 /\ 0 \in Nat  OBVIOUS
<1>2. Leaves(s, K, usd) => Sums(s, K, 0, usd)  BY <1>1 DEF Sums
<1>3. ASSUME NEW most \in Nat, usd <= most PROVE Within(s, K, 0, most)
  <2>1. Never(s, K) => Leaves(s, K, 0)  BY DEF Leaves
  <2>2. 0 + usd <= most /\ 0 + 0 <= most  BY <1>1, <1>3
  <2> QED BY <2>1, <2>2 DEF Within
<1> QED BY <1>2, <1>3

\* What a row that cannot be written turns the reply into.
Reasons(jobs) ==
  \A j \in Range(jobs) : j.do = "audit" => j.lost \in Replies \union {None}

\* A call is settled or released, not both, and its credits go back once.
Returned == {"debit", "book", "freeLease", "freeHold", "returnHold", "returnExtra"}
Settled  == {"settleLease", "settleBilling"}
Apart(jobs) ==
  /\ Never(jobs, Settled) \/ Never(jobs, Returned)
  /\ Never(jobs, {"returnHold"}) \/ Never(jobs, {"freeHold"})

\* Work that touches no ledger, and work that ends a call for this amount.
Plain(jobs) == IsSeq(jobs) /\ Reasons(jobs) /\ Never(jobs, Settled \union Returned)

Closing(jobs, usd) ==
  /\ IsSeq(jobs) /\ Reasons(jobs) /\ Apart(jobs)
  /\ NeedsLease => Leaves(jobs, Internal, usd)
  /\ ~NeedsLease => Never(jobs, Internal)
  /\ Leaves(jobs, Credit, usd) \/ Never(jobs, Credit)
  /\ ~NeedsHold => Never(jobs, {"debit", "freeHold"})
  /\ Leaves(jobs, Metered, usd) \/ Never(jobs, Metered)

\* A list without these kinds is without some of them.
LEMMA NeverFewer ==
  ASSUME NEW s, NEW K, NEW L, K \subseteq L, Never(s, L)
  PROVE  Never(s, K)
BY DEF Never

\* And one without two sets of kinds is without both.
LEMMA NeverEither ==
  ASSUME NEW s, NEW K, NEW L, Never(s, K), Never(s, L)
  PROVE  Never(s, K \union L)
BY DEF Never

\* Two lists, of which one books nothing for a ledger.
LEMMA LeavesCat ==
  ASSUME NEW s, NEW t, IsSeq(s), IsSeq(t), NEW K, NEW usd
  PROVE  /\ Leaves(s, K, usd) /\ Never(t, K) => Leaves(s \o t, K, usd)
         /\ Never(s, K) /\ Leaves(t, K, usd) => Leaves(s \o t, K, usd)
         /\ Never(s, K) /\ Never(t, K) => Never(s \o t, K)
<1>1. /\ Never(s, K) /\ Never(t, K) => Never(s \o t, K)
      /\ Once(s, K, usd) /\ Never(t, K) => Once(s \o t, K, usd)
      /\ Never(s, K) /\ Once(t, K, usd) => Once(s \o t, K, usd)
  BY CatJobs, Zenon
<1> QED BY <1>1 DEF Leaves

\* The replies of the handlers are replies.
LEMMA RepliesMade ==
  /\ \A status \in Nat, code \in Codes :
       Refuse(status, code) \in Replies /\ Final(status, code) \in Replies
  /\ Crash \in Replies
  /\ \A retryable \in BOOLEAN : AuditUnavailable(retryable) \in Replies
<1>1. ASSUME NEW status \in Nat, NEW code \in Codes
      PROVE  Refuse(status, code) \in Replies /\ Final(status, code) \in Replies
  <2> DEFINE again == status >= 500
  <2>1. /\ again \in BOOLEAN
        /\ Refuse(status, code) = [status |-> status, code |-> code, retry |-> again]
    BY DEF Refuse
  <2> HIDE DEF again
  <2>2. Refuse(status, code) \in Replies  BY <2>1 DEF Replies
  <2>3. Final(status, code) = [Refuse(status, code) EXCEPT !.retry = FALSE]
    BY DEF Final
  <2>4. Final(status, code) \in Replies  BY <2>2, <2>3 DEF Replies
  <2> QED BY <2>2, <2>4
<1>2. "internal_error" \in Codes /\ "audit_unavailable" \in Codes  BY DEF Codes
<1>3. Crash \in Replies  BY <1>1, <1>2 DEF Crash
<1>4. ASSUME NEW retryable \in BOOLEAN PROVE AuditUnavailable(retryable) \in Replies
  BY <1>1, <1>2 DEF AuditUnavailable
<1> QED BY <1>1, <1>3, <1>4

\* Rows that may be lost are lost for a reason that is a reply.
LEMMA ReasonsOf ==
  /\ Reasons(<<>>)
  /\ \A c, do, usd : do # "audit" => Reasons(JobIf(c, do, usd))
  /\ \A status, usd, lost : lost \in Replies \union {None} => Reasons(Row(status, usd, lost))
  /\ \A s, t : IsSeq(s) /\ IsSeq(t) /\ Reasons(s) /\ Reasons(t) => Reasons(s \o t)
  /\ \A s : IsSeq(s) /\ s # <<>> /\ Reasons(s) => Reasons(Tail(s))
<1>1. Range(<<>>) = {}  BY DEF Range
<1>2. Reasons(<<>>)  BY <1>1 DEF Reasons
<1>3. ASSUME NEW j PROVE Range(<<j>>) = {j}
  BY DEF Range
<1>4. ASSUME NEW c, NEW do, NEW usd, do # "audit" PROVE Reasons(JobIf(c, do, usd))
  <2> DEFINE j == [do |-> do, usd |-> usd]
  <2>1. j.do # "audit"  BY <1>4
  <2>2. JobIf(c, do, usd) = <<>> \/ JobIf(c, do, usd) = <<j>>  BY DEF JobIf, Job
  <2> HIDE DEF j
  <2> QED BY <1>2, <1>3, <2>1, <2>2 DEF Reasons
<1>5. ASSUME NEW status, NEW usd, NEW lost, lost \in Replies \union {None}
      PROVE  Reasons(Row(status, usd, lost))
  <2> DEFINE j == [do |-> "audit", usd |-> usd, status |-> status, lost |-> lost]
  <2>1. j.lost = lost  OBVIOUS
  <2>2. Row(status, usd, lost) = <<j>>  BY DEF Row
  <2> HIDE DEF j
  <2> QED BY <1>3, <1>5, <2>1, <2>2 DEF Reasons
<1>6. ASSUME NEW s, NEW t, IsSeq(s), IsSeq(t), Reasons(s), Reasons(t) PROVE Reasons(s \o t)
  <2>1. Range(s \o t) = Range(s) \union Range(t)  BY <1>6, CatOfJobs
  <2> QED BY <1>6, <2>1 DEF Reasons
<1>7. ASSUME NEW s, IsSeq(s), s # <<>>, Reasons(s) PROVE Reasons(Tail(s))
  <2>1. Range(s) = {Head(s)} \union Range(Tail(s))  BY <1>7, TailOfJobs
  <2> QED BY <1>7, <2>1 DEF Reasons
<1> QED BY <1>2, <1>4, <1>5, <1>6, <1>7

\* Rows touch no ledger.
LEMMA PlainLists ==
  /\ Plain(<<>>)
  /\ \A status, usd, lost : lost \in Replies \union {None} => Plain(Row(status, usd, lost))
  /\ \A status, usd : Plain(RejectionRow(status, usd))
<1>1. Plain(<<>>)  BY NoJobs, ReasonsOf DEF Plain
<1>2. ASSUME NEW status, NEW usd, NEW lost, lost \in Replies \union {None}
      PROVE  Plain(Row(status, usd, lost))
  <2>1. "audit" \notin Settled \union Returned  BY DEF Settled, Returned
  <2>2. IsSeq(Row(status, usd, lost)) /\ Never(Row(status, usd, lost), Settled \union Returned)
    BY <2>1, JobsOf, Zenon
  <2> QED BY <1>2, <2>2, ReasonsOf DEF Plain
<1>3. ASSUME NEW status, NEW usd PROVE Plain(RejectionRow(status, usd))
  <2> DEFINE lost == IF IsChat THEN AuditUnavailable(usd = 0) ELSE None
  <2>1. (usd = 0) \in BOOLEAN  OBVIOUS
  <2>2. AuditUnavailable(usd = 0) \in Replies  BY <2>1, RepliesMade
  <2>3. lost \in Replies \union {None}  BY <2>2
  <2> QED BY <1>2, <2>3 DEF RejectionRow
<1> QED BY <1>1, <1>2, <1>3

\* A row after it changes nothing of what a list books.
LEMMA ClosingRow ==
  ASSUME NEW s, NEW t, NEW usd, Closing(s, usd), Plain(t)
  PROVE  /\ Closing(s \o t, usd)
         /\ \A K : K \subseteq Settled \union Returned /\ Never(s, K) => Never(s \o t, K)
         /\ \A K : K \subseteq Settled \union Returned /\ Leaves(s, K, usd) =>
              Leaves(s \o t, K, usd)
<1>1. IsSeq(s) /\ IsSeq(t)  BY DEF Closing, Plain
<1>2. ASSUME NEW K, K \subseteq Settled \union Returned
      PROVE  /\ Never(s, K) => Never(s \o t, K)
             /\ Leaves(s, K, usd) => Leaves(s \o t, K, usd)
  <2>1. Never(t, K)  BY <1>2, NeverFewer DEF Plain
  <2> QED BY <1>1, <2>1, LeavesCat
<1>3. /\ Internal \subseteq Settled \union Returned /\ Credit \subseteq Settled \union Returned
      /\ Metered \subseteq Settled \union Returned /\ Settled \subseteq Settled \union Returned
      /\ Returned \subseteq Settled \union Returned
      /\ {"debit", "freeHold"} \subseteq Settled \union Returned
      /\ {"returnHold"} \subseteq Settled \union Returned
      /\ {"freeHold"} \subseteq Settled \union Returned
  BY DEF Internal, Credit, Metered, Settled, Returned
<1>4. IsSeq(s \o t)  BY <1>1, CatJobs
<1>5. Reasons(s \o t)  BY <1>1, ReasonsOf DEF Closing, Plain
<1>6. Apart(s \o t)  BY <1>2, <1>3 DEF Closing, Apart
<1>7. Closing(s \o t, usd)  BY <1>2, <1>3, <1>4, <1>5, <1>6 DEF Closing
<1> QED BY <1>2, <1>7

\* A job that is wanted when there is something to book.
LEMMA JobLeaves ==
  ASSUME NEW c, NEW do, NEW usd, NEW K
  PROVE  /\ IsSeq(JobIf(c, do, usd))
         /\ do \notin K => Never(JobIf(c, do, usd), K)
         /\ ~c => Never(JobIf(c, do, usd), K)
         /\ do \in K /\ c => Leaves(JobIf(c, do, usd), K, usd)
         /\ do \in K /\ ~c /\ usd = 0 => Leaves(JobIf(c, do, usd), K, usd)
<1> DEFINE s == JobIf(c, do, usd)
<1>1. /\ IsSeq(s)
      /\ do \notin K => Never(s, K)
      /\ c /\ do \in K => Once(s, K, usd)
      /\ ~c => s = <<>>
  BY JobsOf, Zenon
<1>2. ~c => Never(s, K)  BY <1>1, NoJobs
<1> HIDE DEF s
<1>3. (do \in K /\ c => Leaves(s, K, usd)) /\ (do \in K /\ ~c /\ usd = 0 => Leaves(s, K, usd))
  BY <1>1, <1>2 DEF Leaves
<1> QED BY <1>1, <1>2, <1>3 DEF s

\* Classifier spend goes to every ledger of the call.
LEMMA ClosingIncur ==
  ASSUME NEW usd \in Nat
  PROVE  /\ Closing(IncurSafety(usd), usd)
         /\ NeedsHold => Leaves(IncurSafety(usd), Credit, usd)
         /\ Never(IncurSafety(usd), Settled)
         /\ Never(IncurSafety(usd), {"freeHold", "returnHold", "returnExtra"})
<1> DEFINE p == usd > 0 /\ UsesCredits /\ ~Hierarchical
           q == usd > 0 /\ (Hierarchical \/ ~CreditsOnly)
           a == JobIf(p, "debit", usd)
           b == JobIf(q, "book", usd)
<1>1. IncurSafety(usd) = a \o b  BY DEF IncurSafety
<1>2. (p => NeedsHold) /\ (q => NeedsLease) /\ (NeedsHold /\ ~p => usd = 0)
      /\ (NeedsLease /\ ~q => usd = 0)
  BY DEF NeedsHold, NeedsLease
<1> HIDE DEF p, q
<1>3. IsSeq(a) /\ Reasons(a)  BY JobLeaves, ReasonsOf
<1>4. IsSeq(b) /\ Reasons(b)  BY JobLeaves, ReasonsOf
<1>5. \A K : /\ "debit" \notin K => Never(a, K)
             /\ "debit" \in K => (NeedsHold => Leaves(a, K, usd))
             /\ ~NeedsHold => Never(a, K)
  <2> TAKE K
  <2>1. /\ "debit" \notin K => Never(a, K)
        /\ ~p => Never(a, K)
        /\ "debit" \in K /\ p => Leaves(a, K, usd)
        /\ "debit" \in K /\ ~p /\ usd = 0 => Leaves(a, K, usd)
    BY JobLeaves
  <2> HIDE DEF a
  <2> QED BY <1>2, <2>1
<1>6. \A K : /\ "book" \notin K => Never(b, K)
             /\ "book" \in K => (NeedsLease => Leaves(b, K, usd))
             /\ ~NeedsLease => Never(b, K)
  <2> TAKE K
  <2>1. /\ "book" \notin K => Never(b, K)
        /\ ~q => Never(b, K)
        /\ "book" \in K /\ q => Leaves(b, K, usd)
        /\ "book" \in K /\ ~q /\ usd = 0 => Leaves(b, K, usd)
    BY JobLeaves
  <2> HIDE DEF b
  <2> QED BY <1>2, <2>1
<1> HIDE DEF a, b
<1> DEFINE s == a \o b
<1>7. ASSUME NEW K, "debit" \notin K, "book" \notin K PROVE Never(s, K)
  BY <1>3, <1>4, <1>5, <1>6, <1>7, LeavesCat
<1>8. Never(s, Settled) /\ Never(s, {"freeHold", "returnHold", "returnExtra"})
      /\ Never(s, Metered) /\ Never(s, {"freeHold"})
  <2>1. /\ "debit" \notin Settled /\ "book" \notin Settled
        /\ "debit" \notin Metered /\ "book" \notin Metered
        /\ "debit" \notin {"freeHold", "returnHold", "returnExtra"}
        /\ "book" \notin {"freeHold", "returnHold", "returnExtra"}
        /\ "debit" \notin {"freeHold"} /\ "book" \notin {"freeHold"}
    BY DEF Settled, Metered
  <2> QED BY <2>1, <1>7, Zenon
<1>9. (NeedsLease => Leaves(s, Internal, usd)) /\ (~NeedsLease => Never(s, Internal))
  <2>1. "debit" \notin Internal /\ "book" \in Internal  BY DEF Internal
  <2>2. Never(a, Internal)  BY <2>1, <1>5
  <2>3. (NeedsLease => Leaves(b, Internal, usd)) /\ (~NeedsLease => Never(b, Internal))
    BY <2>1, <1>6
  <2> QED BY <1>3, <1>4, <2>2, <2>3, LeavesCat
<1>10. (NeedsHold => Leaves(s, Credit, usd)) /\ (~NeedsHold => Never(s, Credit))
  <2>1. "debit" \in Credit /\ "book" \notin Credit  BY DEF Credit
  <2>2. Never(b, Credit)  BY <2>1, <1>6
  <2>3. (NeedsHold => Leaves(a, Credit, usd)) /\ (~NeedsHold => Never(a, Credit))
    BY <2>1, <1>5
  <2> QED BY <1>3, <1>4, <2>2, <2>3, LeavesCat
<1>11. ~NeedsHold => Never(s, {"debit", "freeHold"})
  <2>1. {"debit", "freeHold"} \subseteq Credit  BY DEF Credit
  <2> QED BY <2>1, <1>10, NeverFewer
<1>12. IsSeq(s) /\ Reasons(s)  BY <1>3, <1>4, CatJobs, ReasonsOf
<1> HIDE DEF s
<1>13. Closing(s, usd)  BY <1>8, <1>9, <1>10, <1>11, <1>12 DEF Closing, Apart
<1> QED BY <1>1, <1>8, <1>10, <1>13 DEF s

\* So it does when what is held is freed.
LEMMA ClosingRelease ==
  ASSUME safety \in Nat
  PROVE  /\ Closing(ReleaseWithSafety, safety)
         /\ NeedsHold /\ hold # None => Leaves(ReleaseWithSafety, Credit, safety)
         /\ Never(ReleaseWithSafety, Settled)
         /\ Never(ReleaseWithSafety, {"returnHold", "returnExtra"})
<1> DEFINE p == safety > 0 /\ (Hierarchical \/ ~CreditsOnly)
           q == lease # None
           r == ~Hierarchical /\ UsesCredits /\ (reserved > 0 \/ hold # None)
           a == JobIf(p, "book", safety)
           b == JobIf(q, "freeLease", 0)
           c == JobIf(r, "freeHold", safety)
<1>1. ReleaseWithSafety = (a \o b) \o c  BY DEF ReleaseWithSafety
<1>2. (p => NeedsLease) /\ (r => NeedsHold) /\ (NeedsHold /\ hold # None => r)
      /\ (NeedsLease /\ ~p => safety = 0)
  BY DEF NeedsHold, NeedsLease
<1> HIDE DEF p, q, r
<1>3. IsSeq(a) /\ Reasons(a)  BY JobLeaves, ReasonsOf
<1>4. IsSeq(b) /\ Reasons(b)  BY JobLeaves, ReasonsOf
<1>5. IsSeq(c) /\ Reasons(c)  BY JobLeaves, ReasonsOf
<1>6. \A K : /\ "book" \notin K => Never(a, K)
             /\ "book" \in K => (NeedsLease => Leaves(a, K, safety))
             /\ ~NeedsLease => Never(a, K)
  <2> TAKE K
  <2>1. /\ "book" \notin K => Never(a, K)
        /\ ~p => Never(a, K)
        /\ "book" \in K /\ p => Leaves(a, K, safety)
        /\ "book" \in K /\ ~p /\ safety = 0 => Leaves(a, K, safety)
    BY JobLeaves
  <2> HIDE DEF a
  <2> QED BY <1>2, <2>1
<1>7. \A K : "freeLease" \notin K => Never(b, K)  BY JobLeaves, Zenon
<1>8. \A K : /\ "freeHold" \notin K => Never(c, K)
             /\ "freeHold" \in K => /\ r => Leaves(c, K, safety)
                                    /\ ~r => Never(c, K)
             /\ ~NeedsHold => Never(c, K)
  <2> TAKE K
  <2>1. /\ "freeHold" \notin K => Never(c, K)
        /\ ~r => Never(c, K)
        /\ "freeHold" \in K /\ r => Leaves(c, K, safety)
        /\ "freeHold" \in K /\ ~r /\ safety = 0 => Leaves(c, K, safety)
    BY JobLeaves
  <2> HIDE DEF c
  <2> QED BY <1>2, <2>1
<1> HIDE DEF a, b, c
<1> DEFINE ab == a \o b
           s  == ab \o c
<1>9. IsSeq(ab) /\ Reasons(ab)  BY <1>3, <1>4, CatJobs, ReasonsOf
<1>10. \A K : /\ "book" \notin K /\ "freeLease" \notin K => Never(ab, K)
              /\ "book" \in K /\ "freeLease" \notin K =>
                   /\ NeedsLease => Leaves(ab, K, safety)
                   /\ ~NeedsLease => Never(ab, K)
  <2> TAKE K
  <2>1. "freeLease" \notin K => Never(b, K)  BY <1>7
  <2>2. /\ "book" \notin K => Never(a, K)
        /\ "book" \in K => (NeedsLease => Leaves(a, K, safety))
        /\ ~NeedsLease => Never(a, K)
    BY <1>6
  <2> QED BY <1>3, <1>4, <2>1, <2>2, LeavesCat
<1> HIDE DEF ab
<1>11. IsSeq(s) /\ Reasons(s)  BY <1>5, <1>9, CatJobs, ReasonsOf
<1>12. ASSUME NEW K, "book" \notin K, "freeLease" \notin K, "freeHold" \notin K
       PROVE  Never(s, K)
  BY <1>5, <1>8, <1>9, <1>10, <1>12, LeavesCat
<1>13. Never(s, Settled) /\ Never(s, {"returnHold", "returnExtra"})
       /\ Never(s, Metered) /\ Never(s, {"returnHold"})
  <2>1. /\ "book" \notin Settled /\ "freeLease" \notin Settled /\ "freeHold" \notin Settled
        /\ "book" \notin Metered /\ "freeLease" \notin Metered /\ "freeHold" \notin Metered
        /\ "book" \notin {"returnHold", "returnExtra"}
        /\ "freeLease" \notin {"returnHold", "returnExtra"}
        /\ "freeHold" \notin {"returnHold", "returnExtra"}
        /\ "book" \notin {"returnHold"} /\ "freeLease" \notin {"returnHold"}
        /\ "freeHold" \notin {"returnHold"}
    BY DEF Settled, Metered
  <2> QED BY <2>1, <1>12, Zenon
<1>14. (NeedsLease => Leaves(s, Internal, safety)) /\ (~NeedsLease => Never(s, Internal))
  <2>1. "book" \in Internal /\ "freeLease" \notin Internal /\ "freeHold" \notin Internal
    BY DEF Internal
  <2>2. Never(c, Internal)  BY <2>1, <1>8
  <2>3. (NeedsLease => Leaves(ab, Internal, safety)) /\ (~NeedsLease => Never(ab, Internal))
    BY <2>1, <1>10
  <2> QED BY <1>5, <1>9, <2>2, <2>3, LeavesCat
<1>15. (r => Leaves(s, Credit, safety)) /\ (~r => Never(s, Credit))
  <2>1. "book" \notin Credit /\ "freeLease" \notin Credit /\ "freeHold" \in Credit
    BY DEF Credit
  <2>2. Never(ab, Credit)  BY <2>1, <1>10
  <2>3. (r => Leaves(c, Credit, safety)) /\ (~r => Never(c, Credit))
    BY <2>1, <1>8
  <2> QED BY <1>5, <1>9, <2>2, <2>3, LeavesCat
<1>16. ~NeedsHold => Never(s, {"debit", "freeHold"})
  <2>1. {"debit", "freeHold"} \subseteq Credit  BY DEF Credit
  <2> QED BY <2>1, <1>2, <1>15, NeverFewer
<1> HIDE DEF s
<1>17. Closing(s, safety)  BY <1>11, <1>13, <1>14, <1>15, <1>16 DEF Closing, Apart
<1> QED BY <1>1, <1>2, <1>13, <1>15, <1>17 DEF s, ab

\* A model has run: lease, row and billing, each for all of the cost.
LEMMA ClosingSettled ==
  ASSUME NEW usd \in Nat, NEW status, NEW lost \in Replies \union {None}, NEW c, NEW d,
         c <=> NeedsLease, d <=> UsesCredits \/ UsesMeter, NEW jobs,
         jobs = JobIf(c, "settleLease", usd) \o Row(status, usd, lost)
                \o JobIf(d, "settleBilling", usd)
  PROVE  /\ Closing(jobs, usd)
         /\ Never(jobs, Returned)
         /\ UsesCredits \/ UsesMeter => Leaves(jobs, Credit, usd) /\ Leaves(jobs, Metered, usd)
<1> DEFINE x == JobIf(c, "settleLease", usd)
           y == Row(status, usd, lost)
           z == JobIf(d, "settleBilling", usd)
<1>1. IsSeq(x) /\ Reasons(x)  BY JobLeaves, ReasonsOf
<1>2. IsSeq(z) /\ Reasons(z)  BY JobLeaves, ReasonsOf
<1>3. Plain(y)  BY PlainLists
<1>4. \A K : /\ "settleLease" \notin K => Never(x, K)
             /\ "settleLease" \in K => /\ NeedsLease => Leaves(x, K, usd)
                                       /\ ~NeedsLease => Never(x, K)
  <2> TAKE K
  <2>1. /\ "settleLease" \notin K => Never(x, K)
        /\ ~c => Never(x, K)
        /\ "settleLease" \in K /\ c => Leaves(x, K, usd)
    BY JobLeaves
  <2> HIDE DEF x
  <2> QED BY <2>1
<1>5. \A K : /\ "settleBilling" \notin K => Never(z, K)
             /\ "settleBilling" \in K => /\ UsesCredits \/ UsesMeter => Leaves(z, K, usd)
                                         /\ ~(UsesCredits \/ UsesMeter) => Never(z, K)
  BY JobLeaves, Zenon
<1>6. jobs = (x \o y) \o z  OBVIOUS
<1> HIDE DEF x, y, z
<1> DEFINE xy == x \o y
<1>7. IsSeq(y) /\ Reasons(y) /\ Never(y, Settled \union Returned)  BY <1>3 DEF Plain
<1>8. IsSeq(xy) /\ Reasons(xy)  BY <1>1, <1>7, CatJobs, ReasonsOf
<1>9. \A K : K \subseteq Settled \union Returned =>
               /\ "settleLease" \notin K => Never(xy, K)
               /\ "settleLease" \in K => /\ NeedsLease => Leaves(xy, K, usd)
                                         /\ ~NeedsLease => Never(xy, K)
  <2> SUFFICES ASSUME NEW K, K \subseteq Settled \union Returned
               PROVE  /\ "settleLease" \notin K => Never(xy, K)
                      /\ "settleLease" \in K => /\ NeedsLease => Leaves(xy, K, usd)
                                                /\ ~NeedsLease => Never(xy, K)
    OBVIOUS
  <2>1. Never(y, K)  BY <1>7, NeverFewer
  <2>2. /\ "settleLease" \notin K => Never(x, K)
        /\ "settleLease" \in K => /\ NeedsLease => Leaves(x, K, usd)
                                  /\ ~NeedsLease => Never(x, K)
    BY <1>4
  <2> QED BY <1>1, <1>7, <2>1, <2>2, LeavesCat
<1> HIDE DEF xy
<1> DEFINE s == xy \o z
<1>10. IsSeq(s) /\ Reasons(s)  BY <1>2, <1>8, CatJobs, ReasonsOf
<1>11. Never(s, Returned)
  <2>1. /\ "settleLease" \notin Returned /\ "settleBilling" \notin Returned
        /\ Returned \subseteq Settled \union Returned
    BY DEF Returned
  <2>2. Never(xy, Returned) /\ Never(z, Returned)  BY <2>1, <1>5, <1>9
  <2> QED BY <1>2, <1>8, <2>2, LeavesCat
<1>12. (NeedsLease => Leaves(s, Internal, usd)) /\ (~NeedsLease => Never(s, Internal))
  <2>1. /\ "settleLease" \in Internal /\ "settleBilling" \notin Internal
        /\ Internal \subseteq Settled \union Returned
    BY DEF Internal, Settled, Returned
  <2>2. /\ NeedsLease => Leaves(xy, Internal, usd)
        /\ ~NeedsLease => Never(xy, Internal)
        /\ Never(z, Internal)
    BY <2>1, <1>5, <1>9
  <2> QED BY <1>2, <1>8, <2>2, LeavesCat
<1>13. ASSUME NEW K \in {Credit, Metered}
       PROVE  /\ UsesCredits \/ UsesMeter => Leaves(s, K, usd)
              /\ ~(UsesCredits \/ UsesMeter) => Never(s, K)
  <2>1. /\ "settleLease" \notin K /\ "settleBilling" \in K
        /\ K \subseteq Settled \union Returned
    BY DEF Credit, Metered, Settled, Returned
  <2>2. /\ UsesCredits \/ UsesMeter => Leaves(z, K, usd)
        /\ ~(UsesCredits \/ UsesMeter) => Never(z, K)
        /\ Never(xy, K)
    BY <2>1, <1>5, <1>9
  <2> QED BY <1>2, <1>8, <2>2, LeavesCat
<1>14. Never(s, {"debit", "freeHold"}) /\ Never(s, {"returnHold"})
  <2>1. {"debit", "freeHold"} \subseteq Returned /\ {"returnHold"} \subseteq Returned
    BY DEF Returned
  <2> QED BY <2>1, <1>11, NeverFewer
<1> HIDE DEF s
<1>15. Closing(s, usd)  BY <1>10, <1>11, <1>12, <1>13, <1>14 DEF Closing, Apart
<1> QED BY <1>6, <1>11, <1>13, <1>15 DEF s, xy

Owed(op) == ~Never(todo, {op})
Nothing  == books.internal = 0 /\ books.wallet = 0 /\ books.meter = 0
Sound    == faults = <<>> /\ ~(pc = "reply" /\ Crashed)

\* The shape of a list: every ledger is due one amount.
Listed(jobs) ==
  /\ Reasons(jobs) /\ Apart(jobs)
  /\ \A K \in {Internal, Credit, Metered} : \E due \in Nat : Leaves(jobs, K, due)
  /\ ~NeedsLease => Never(jobs, Internal)
  /\ ~NeedsHold => Never(jobs, {"debit", "freeHold"})

\* No ledger is charged more than the call.
Bound ==
  /\ Within(todo, Internal, books.internal, Charged)
  /\ Within(todo, Credit, books.wallet, Charged)
  /\ Within(todo, Metered, books.meter, Charged)

\* Each is charged all that is known; only the meter may leave out a call for
\* which no model ran.
Balance ==
  /\ pc \in {"answer", "reply"} /\ NeedsLease => Sums(todo, Internal, books.internal, Known)
  /\ pc = "reply" /\ NeedsHold => Sums(todo, Credit, books.wallet, Known)
  /\ pc = "reply" /\ UsesMeter => \/ Sums(todo, Metered, books.meter, Known)
                                  \/ spent.model = 0 /\ books.meter = 0 /\ Never(todo, Metered)

\* What is to be settled is still held.
Backed ==
  /\ Owed("settleLease") => lease # None
  /\ NeedsHold /\ Known > 0 /\ (pc = "answer" \/ Owed("settleBilling") \/ Owed("freeHold")) =>
       hold # None

MoneyInv ==
  /\ books \in [{"internal", "wallet", "meter"} -> Nat]
  /\ catching \in {"none", "inner", "rerun", "stream"}
  /\ Net >= 0
  /\ Listed(todo)
  /\ catching = "rerun" => faults # <<>>
  /\ pc \notin {"answer", "reply"} \/ ExtraDue(todo) => Nothing
  /\ pc = "answer" => /\ books.wallet = 0 /\ books.meter = 0 /\ ~IsStream
                      /\ \A j \in Range(todo) : j.do = "settleLease"
  /\ ~NeedsLease => books.internal = 0
  /\ ~NeedsHold => books.wallet = 0
  /\ ~UsesMeter => books.meter = 0
  /\ pc \in {"grow_hold", "grow_lease"} => reserved >= safety
  /\ ExtraDue(todo) => /\ hold = reserved + Head(todo).usd /\ Head(todo).usd \in Int
                       /\ reserved >= safety
                       /\ Net = safety /\ spent.model = 0
  /\ Owed("returnHold") => hold = Head(todo).usd
  /\ catching # "rerun" => Bound
  /\ faults = <<>> => Backed
  /\ Sound => Balance
  /\ pc = "reply" /\ IsStream /\ call.reports = {None} => spent.model = 0 \/ Actual <= reserved

\* Which ledgers a call uses depends on the call only.
LEMMA SameLedgers ==
  ASSUME call' = call
  PROVE  /\ NeedsLease' = NeedsLease /\ NeedsHold' = NeedsHold /\ UsesMeter' = UsesMeter
         /\ UsesCredits' = UsesCredits /\ IsStream' = IsStream
         /\ \A jobs : Listed(jobs) => Listed(jobs)'
BY SameCall DEF UsesMeter, IsStream, Listed

\* One job is dropped from the head of a list, or two.
LEMMA ListDropped ==
  ASSUME NEW s, IsSeq(s), s # <<>>, Listed(s)
  PROVE  /\ IsSeq(Tail(s)) /\ Listed(Tail(s))
         /\ \A K : Never(s, K) => Never(Tail(s), K)
<1>1. IsSeq(Tail(s)) /\ Reasons(Tail(s))  BY TailOfJobs, ReasonsOf DEF Listed
<1>2. ASSUME NEW K, Never(s, K) PROVE Never(Tail(s), K)  BY <1>2, PopJob
<1>3. Apart(Tail(s))  BY <1>2 DEF Listed, Apart
<1>4. ASSUME NEW K \in {Internal, Credit, Metered}
      PROVE  \E due \in Nat : Leaves(Tail(s), K, due)
  <2>1. PICK due \in Nat : Leaves(s, K, due)  BY DEF Listed
  <2>2. Leaves(Tail(s), K, 0) \/ Leaves(Tail(s), K, due)  BY <2>1, LeavesPopped
  <2> QED BY <2>2
<1> QED BY <1>1, <1>2, <1>3, <1>4 DEF Listed

\* A job that is dropped books nothing, so the bound stays.
LEMMA BoundDropped ==
  ASSUME NEW s, IsSeq(s), s # <<>>, NEW K, NEW booked \in Nat, NEW most \in Nat,
         Within(s, K, booked, most)
  PROVE  Within(Tail(s), K, booked, most)
BY WithinPopped

\* What returns credits is at the head, so nothing of the kind is left after it.
LEMMA ReturnsGone ==
  ASSUME NEW s, NEW held, IsSeq(s), s # <<>>, Queue(s, held)
  PROVE  ~ExtraDue(Tail(s)) /\ Never(Tail(s), {"returnHold"})
<1>1. Orderly(Tail(s))  BY NextJob
<1> QED BY <1>1 DEF Orderly, ExtraDue, Never

\* An amount that is booked is a number.
LEMMA HeadAmount ==
  ASSUME NEW s, IsSeq(s), s # <<>>, Listed(s)
  PROVE  /\ Head(s).do \in Internal \union Credit => Head(s).usd \in Nat
         /\ Head(s).do \in Internal => Never(Tail(s), Internal)
         /\ Head(s).do \in Credit => Never(Tail(s), Credit)
<1>1. ASSUME NEW K \in {Internal, Credit, Metered}, Head(s).do \in K
      PROVE  Head(s).usd \in Nat /\ Never(Tail(s), K)
  <2>1. PICK due \in Nat : Leaves(s, K, due)  BY DEF Listed
  <2>2. Head(s).usd = due /\ Never(Tail(s), K)
    <3>1. CASE Once(s, K, due)  BY <1>1, <3>1, PopJob
    <3>2. CASE due = 0 /\ Never(s, K)  BY <1>1, <3>2, PopJob
    <3> QED BY <2>1, <3>1, <3>2 DEF Leaves
  <2> QED BY <2>2
<1> QED BY <1>1

\* What a step of the queue leaves of the amounts the invariant reads.
LEMMA SameSpend ==
  ASSUME UNCHANGED <<call, spent, safety>>
  PROVE  /\ Known' = Known /\ Net' = Net /\ Charged' = Charged /\ Actual' = Actual
         /\ NeedsLease' = NeedsLease /\ NeedsHold' = NeedsHold /\ UsesMeter' = UsesMeter
         /\ IsStream' = IsStream
BY SameLedgers DEF Known, Net, Charged, Actual

\* What the gateway knows of is part of what it was charged.
LEMMA Totals ==
  ASSUME spent \in [{"classifier", "forgotten", "model"} -> Nat], Net >= 0
  PROVE  /\ Net \in Nat /\ Known \in Nat /\ Charged \in Nat /\ Known <= Charged
         /\ Known = Net + spent.model /\ spent.model \in Nat
<1>1. spent.classifier \in Nat /\ spent.forgotten \in Nat /\ spent.model \in Nat  OBVIOUS
<1> QED BY <1>1 DEF Net, Known, Charged

\* Jobs at the head have failed and were logged: they book nothing.
LEMMA LoggedMoney ==
  ASSUME IsSeq(todo), IsSeq(todo'), MoneyInv, AuditInv,
         UNCHANGED <<call, pc, spent, safety, reserved, catching, books, lease, hold>>,
         faults' # <<>>, pc \in {"answer", "reply"},
         Listed(todo'), ~ExtraDue(todo'), Never(todo', {"returnHold"}),
         Range(todo') \subseteq Range(todo),
         \A K \in {Internal, Credit, Metered}, booked \in Nat :
           Within(todo, K, booked, Charged) => Within(todo', K, booked, Charged)
  PROVE  MoneyInv'
<1>1. /\ Known' = Known /\ Net' = Net /\ Charged' = Charged /\ Actual' = Actual
      /\ NeedsLease' = NeedsLease /\ NeedsHold' = NeedsHold /\ UsesMeter' = UsesMeter
      /\ IsStream' = IsStream
  BY SameSpend
<1>2. Listed(todo)'  BY SameLedgers
<1>3. Bound => Bound'
  <2>1. books.internal \in Nat /\ books.wallet \in Nat /\ books.meter \in Nat  BY DEF MoneyInv
  <2> QED BY <1>1, <2>1 DEF Bound
<1>4. /\ ~ExtraDue(todo)' /\ ~Owed("returnHold")' /\ ~Sound'
  BY DEF Owed, Sound
<1>5. (pc = "answer")' => /\ books'.wallet = 0 /\ books'.meter = 0 /\ ~IsStream'
                          /\ \A j \in Range(todo') : j.do = "settleLease"
  BY <1>1 DEF MoneyInv
<1> QED BY <1>1, <1>2, <1>3, <1>4, <1>5 DEF MoneyInv

\* The job at the head is done, and has booked its amount or had nothing to book.
LEMMA PoppedMoney ==
  ASSUME IsSeq(todo), MoneyInv, AuditInv, todo # <<>>, todo' = Tail(todo),
         Queue(todo, hold), pc \in {"answer", "reply"},
         UNCHANGED <<call, pc, spent, safety, reserved, catching, faults, reply>>,
         books' \in [{"internal", "wallet", "meter"} -> Nat],
         NEW op, NEW usd, op = Head(todo).do, usd = Head(todo).usd,
         \/ op \in Internal /\ books'.internal = books.internal + usd
         \/ books'.internal = books.internal /\ (op \in Internal => faults # <<>>),
         \/ op \in Credit /\ NeedsHold /\ books'.wallet = books.wallet + usd
         \/ /\ books'.wallet = books.wallet
            /\ op \in Credit /\ NeedsHold => faults # <<>> \/ Known = 0,
         \/ op \in Metered /\ UsesMeter /\ books'.meter = books.meter + usd
         \/ books'.meter = books.meter /\ (op \in Metered => ~UsesMeter),
         lease' = lease \/ op \in {"freeLease", "settleLease"},
         \/ hold' = hold
         \/ op \in {"freeHold", "settleBilling", "returnHold"}
         \/ op = "returnExtra" /\ (Known > 0 => hold' # None)
  PROVE  MoneyInv'
<1>1. /\ Known' = Known /\ Net' = Net /\ Charged' = Charged /\ Actual' = Actual
      /\ NeedsLease' = NeedsLease /\ NeedsHold' = NeedsHold /\ UsesMeter' = UsesMeter
      /\ IsStream' = IsStream
  BY SameSpend
<1>2. /\ IsSeq(todo') /\ Listed(todo')
      /\ \A K : Never(todo, K) => Never(todo', K)
      /\ ~ExtraDue(todo') /\ Never(todo', {"returnHold"})
      /\ Range(todo) = {Head(todo)} \union Range(todo')
  BY ListDropped, ReturnsGone, TailOfJobs DEF MoneyInv
<1>3. Listed(todo)'  BY <1>2, SameLedgers
<1>4. /\ op \in Internal => Never(todo', Internal)
      /\ op \in Credit => Never(todo', Credit)
  BY HeadAmount DEF MoneyInv
<1>5. /\ books.internal \in Nat /\ books.wallet \in Nat /\ books.meter \in Nat
      /\ Net \in Nat /\ Known \in Nat /\ Charged \in Nat
  BY Totals DEF MoneyInv, AuditInv
<1>6. op \in Metered => op \in Credit  BY DEF Metered, Credit
<1>7. Bound => Bound'
  <2> SUFFICES ASSUME Bound PROVE Bound'
    OBVIOUS
  <2>1. Within(todo', Internal, books'.internal, Charged)
    BY <1>5, WithinPopped DEF Bound
  <2>2. Within(todo', Credit, books'.wallet, Charged)
    BY <1>5, WithinPopped DEF Bound
  <2>3. Within(todo', Metered, books'.meter, Charged)
    BY <1>5, WithinPopped DEF Bound
  <2> QED BY <1>1, <2>1, <2>2, <2>3 DEF Bound
<1>8. pc = "answer" => op = "settleLease" /\ op \notin Credit /\ op \notin Metered
  BY <1>2 DEF MoneyInv, Credit, Metered
<1>9. (pc = "answer")' => /\ books'.wallet = 0 /\ books'.meter = 0 /\ ~IsStream'
                          /\ \A j \in Range(todo') : j.do = "settleLease"
  BY <1>1, <1>2, <1>8 DEF MoneyInv
<1>10. ~NeedsLease => books'.internal = 0
  <2>1. ~NeedsLease => op \notin Internal
    BY <1>2 DEF MoneyInv, Listed, Never
  <2> QED BY <2>1 DEF MoneyInv
<1>11. (~NeedsHold => books'.wallet = 0) /\ (~UsesMeter => books'.meter = 0)
  BY DEF MoneyInv
<1>12. Sound' => Balance'
  <2> SUFFICES ASSUME Sound' PROVE Balance'
    OBVIOUS
  <2>1. faults = <<>> /\ Sound /\ Balance  BY DEF Sound, Crashed, MoneyInv
  <2>2. ASSUME pc \in {"answer", "reply"}, NeedsLease
        PROVE  Sums(todo', Internal, books'.internal, Known)
    BY <1>5, <2>1, <2>2, SumsPopped DEF Balance
  <2>3. ASSUME pc = "reply", NeedsHold PROVE Sums(todo', Credit, books'.wallet, Known)
    BY <1>5, <2>1, <2>3, SumsPopped DEF Balance
  <2>4. ASSUME pc = "reply", UsesMeter
        PROVE  \/ Sums(todo', Metered, books'.meter, Known)
               \/ spent.model = 0 /\ books'.meter = 0 /\ Never(todo', Metered)
    <3>1. CASE Sums(todo, Metered, books.meter, Known)
      BY <1>5, <2>4, <3>1, SumsPopped
    <3>2. CASE spent.model = 0 /\ books.meter = 0 /\ Never(todo, Metered)
      <4>1. op \notin Metered  BY <1>2, <3>2 DEF Never
      <4> QED BY <1>2, <3>2, <4>1
    <3> QED BY <2>1, <2>4, <3>1, <3>2 DEF Balance
  <2> QED BY <1>1, <2>2, <2>3, <2>4 DEF Balance
<1>13. (faults = <<>>)' => Backed'
  <2> SUFFICES ASSUME faults = <<>> PROVE Backed'
    OBVIOUS
  <2>1. Backed /\ Apart(todo) /\ op \in {j.do : j \in Range(todo)}
    BY <1>2 DEF MoneyInv, Listed
  <2>2. ASSUME ~Never(todo', {"settleLease"}) PROVE lease' # None
    <3>1. ~Never(todo, {"settleLease"})  BY <1>2, <2>2
    <3>2. op \notin Internal  BY <1>4, <2>2 DEF Never, Internal
    <3>3. ~Never(todo, Settled)  BY <3>1 DEF Never, Settled
    <3>4. op # "freeLease"  BY <2>1, <3>3 DEF Apart, Never, Returned
    <3>5. lease # None  BY <2>1, <3>1 DEF Backed, Owed
    <3> QED BY <3>2, <3>4, <3>5 DEF Internal
  <2>3. ASSUME NeedsHold, Known > 0,
               pc = "answer" \/ ~Never(todo', {"settleBilling"}) \/ ~Never(todo', {"freeHold"})
        PROVE  hold' # None
    <3>1. pc = "answer" \/ ~Never(todo, {"settleBilling"}) \/ ~Never(todo, {"freeHold"})
      BY <1>2, <2>3
    <3>2. hold # None  BY <2>1, <2>3, <3>1 DEF Backed, Owed
    <3>3. pc = "answer" => op = "settleLease"  BY <1>8
    <3>4. pc # "answer" => op \notin Credit
      BY <1>4, <2>3 DEF Never, Credit
    <3>5. pc # "answer" => op # "returnHold"
      <4>1. ~Never(todo, {"settleBilling"}) => ~Never(todo, Settled)  BY DEF Never, Settled
      <4> QED BY <2>1, <3>1, <4>1 DEF Apart, Never, Returned
    <3> QED BY <2>3, <3>2, <3>3, <3>4, <3>5 DEF Credit
  <2> QED BY <1>1, <2>2, <2>3 DEF Backed, Owed
<1>14. ~ExtraDue(todo)' /\ ~Owed("returnHold")'  BY <1>2 DEF Owed
<1> QED BY <1>1, <1>3, <1>7, <1>9, <1>10, <1>11, <1>12, <1>13, <1>14 DEF MoneyInv

\* A closing list has the shape, and bounds every ledger from nothing.
LEMMA ClosingLists ==
  ASSUME NEW jobs, NEW usd \in Nat, Closing(jobs, usd)
  PROVE  /\ Listed(jobs)
         /\ \A K \in {Internal, Credit, Metered}, most \in Nat :
              usd <= most => Within(jobs, K, 0, most)
<1>1. ASSUME NEW K \in {Internal, Credit, Metered}
      PROVE  Leaves(jobs, K, usd) \/ Never(jobs, K)
  BY DEF Closing
<1>2. ASSUME NEW K \in {Internal, Credit, Metered} PROVE \E due \in Nat : Leaves(jobs, K, due)
  <2>1. Never(jobs, K) => Leaves(jobs, K, 0)  BY DEF Leaves
  <2> QED BY <1>1, <2>1
<1>3. Listed(jobs)  BY <1>2 DEF Closing, Listed
<1>4. ASSUME NEW K \in {Internal, Credit, Metered}, NEW most \in Nat, usd <= most
      PROVE  Within(jobs, K, 0, most)
  BY <1>1, <1>4, AllDue
<1> QED BY <1>3, <1>4

\* The handler goes on: nothing is booked and nothing is due.
LEMMA GoesOnMoney ==
  ASSUME MoneyInv, CoverInv', AuditInv',
         pc \notin {"answer", "reply"}, pc' \notin {"answer", "reply"},
         UNCHANGED <<call, books, faults>>,
         catching' = catching \/ catching' \in {"none", "inner"},
         pc' \in {"grow_hold", "grow_lease"} => reserved' >= safety',
         Net' >= 0
  PROVE  MoneyInv'
<1>1. todo' = <<>>  BY DEF CoverInv
<1>2. /\ Closing(<<>>, 0) /\ ~ExtraDue(<<>>)
      /\ \A K : Never(<<>>, K)
  <2>1. \A K : Never(<<>>, K)  BY NoJobs
  <2>2. Closing(<<>>, 0)  BY <2>1, NoJobs, ReasonsOf DEF Closing, Apart, Leaves
  <2> QED BY <2>1, <2>2, NoJobs
<1>3. Listed(<<>>) /\ \A K \in {Internal, Credit, Metered}, most \in Nat :
                        0 <= most => Within(<<>>, K, 0, most)
  BY <1>2, ClosingLists
<1>4. Listed(todo)'  BY <1>1, <1>3, SameLedgers
<1>5. Charged' \in Nat /\ 0 <= Charged'
  <2>1. spent' \in [{"classifier", "forgotten", "model"} -> Nat]  BY DEF AuditInv
  <2>2. spent'.classifier \in Nat /\ spent'.model \in Nat  BY <2>1
  <2> QED BY <2>2 DEF Charged
<1>6. books'.internal = 0 /\ books'.wallet = 0 /\ books'.meter = 0  BY DEF MoneyInv, Nothing
<1>7. Bound'  BY <1>1, <1>3, <1>5, <1>6 DEF Bound
<1>8. Backed'  BY <1>1, <1>2 DEF Backed, Owed
<1>9. ~ExtraDue(todo)' /\ ~Owed("returnHold")' /\ Nothing'
  BY <1>1, <1>2, <1>6 DEF Owed, Nothing
<1>10. Balance'  BY DEF Balance
<1> QED BY <1>4, <1>6, <1>7, <1>8, <1>9, <1>10 DEF MoneyInv

\* A handler has decided its reply before anything was booked, and leaves a list
\* that closes the call for `usd`.
LEMMA EndedMoney ==
  ASSUME MoneyInv, AuditInv, pc \notin {"answer", "reply"}, pc' = "reply",
         UNCHANGED <<call, books>>,
         catching' \in {catching, "none", "inner", "stream"},
         faults' = faults \/ faults' # <<>>,
         spent' \in [{"classifier", "forgotten", "model"} -> Nat], Net' >= 0,
         NEW usd \in Nat, Closing(todo', usd), usd <= Charged',
         Sound' => /\ usd = Known'
                   /\ NeedsHold => Leaves(todo', Credit, usd)
                   /\ UsesMeter => \/ Leaves(todo', Metered, usd)
                                   \/ spent'.model = 0 /\ Never(todo', Metered),
         ExtraDue(todo') => /\ hold' = reserved' + Head(todo').usd /\ Head(todo').usd \in Int
                            /\ reserved' >= safety'
                            /\ Net' = safety' /\ spent'.model = 0,
         ~Never(todo', {"returnHold"}) => hold' = Head(todo').usd,
         faults' = <<>> => Backed',
         IsStream /\ call.reports = {None} => spent'.model = 0 \/ Actual' <= reserved'
  PROVE  MoneyInv'
<1>1. /\ NeedsLease' = NeedsLease /\ NeedsHold' = NeedsHold /\ UsesMeter' = UsesMeter
      /\ IsStream' = IsStream
  BY SameLedgers
<1>2. /\ Listed(todo')
      /\ \A K \in {Internal, Credit, Metered}, most \in Nat :
           usd <= most => Within(todo', K, 0, most)
  BY ClosingLists
<1>3. Listed(todo)'  BY <1>2, SameLedgers
<1>4. Charged' \in Nat
  <2>1. spent'.classifier \in Nat /\ spent'.model \in Nat  OBVIOUS
  <2> QED BY <2>1 DEF Charged
<1>5. books'.internal = 0 /\ books'.wallet = 0 /\ books'.meter = 0  BY DEF MoneyInv, Nothing
<1>6. Bound'  BY <1>2, <1>4, <1>5 DEF Bound
<1>7. Sound' => Balance'
  <2> SUFFICES ASSUME Sound' PROVE Balance'
    OBVIOUS
  <2>1. NeedsLease => Sums(todo', Internal, 0, Known')
    BY AllDue DEF Closing
  <2>2. NeedsHold => Sums(todo', Credit, 0, Known')
    BY AllDue
  <2>3. UsesMeter => \/ Sums(todo', Metered, 0, Known')
                     \/ spent'.model = 0 /\ Never(todo', Metered)
    BY AllDue
  <2> QED BY <1>1, <1>5, <2>1, <2>2, <2>3 DEF Balance
<1>8. ExtraDue(todo)' => /\ Nothing' /\ hold' = reserved' + Head(todo').usd
                         /\ Head(todo').usd \in Int
                         /\ reserved' >= safety' /\ Net' = safety' /\ spent'.model = 0
  BY <1>5 DEF Nothing
<1>9. Owed("returnHold")' => hold' = Head(todo').usd  BY DEF Owed
<1> QED BY <1>1, <1>3, <1>5, <1>6, <1>7, <1>8, <1>9 DEF MoneyInv

\* An error that reaches the route leaves nothing to do.
LEMMA CrashedMoney ==
  ASSUME MoneyInv, AuditInv, pc \notin {"answer", "reply"}, pc' = "reply",
         UNCHANGED <<call, books, catching>>,
         faults' = faults \/ faults' # <<>>,
         spent' \in [{"classifier", "forgotten", "model"} -> Nat], Net' >= 0,
         spent'.model = 0, todo' = <<>>, reply' = Crash \/ Known' = 0
  PROVE  MoneyInv'
<1>1. \A K : Never(<<>>, K)  BY NoJobs
<1>2. Closing(todo', 0) /\ (NeedsHold => Leaves(todo', Credit, 0))
  BY <1>1, NoJobs, ReasonsOf DEF Closing, Apart, Leaves
<1>3. 0 <= Charged'
  <2>1. spent'.classifier \in Nat /\ spent'.model \in Nat  OBVIOUS
  <2> QED BY <2>1 DEF Charged
<1>4. Sound' => Known' = 0
  BY DEF Sound, Crashed, Crash, Refuse
<1>5. Backed'  BY <1>1 DEF Backed, Owed
<1>6. ~ExtraDue(todo') /\ Never(todo', {"returnHold"}) /\ Never(todo', Metered)
  BY <1>1, NoJobs
<1> QED BY <1>2, <1>3, <1>4, <1>5, <1>6, EndedMoney

\* Credits that go back do so before the rest.
LEMMA ReturnClosing ==
  ASSUME NEW c, NEW do \in {"returnHold", "returnExtra"}, NEW x, NEW s, NEW usd,
         Closing(s, usd), Never(s, Settled), Never(s, {"returnHold", "returnExtra"}),
         do = "returnHold" => Never(s, {"freeHold"}),
         NEW jobs, jobs = JobIf(c, do, x) \o s
  PROVE  /\ Closing(jobs, usd) /\ Never(jobs, Settled)
         /\ Leaves(s, Credit, usd) => Leaves(jobs, Credit, usd)
         /\ Never(s, {"freeHold"}) => Never(jobs, {"freeHold"})
         /\ do = "returnHold" => ~ExtraDue(jobs)
         /\ do = "returnExtra" => Never(jobs, {"returnHold"})
         /\ ExtraDue(jobs) \/ ~Never(jobs, {"returnHold"}) => c /\ Head(jobs).usd = x
<1> DEFINE first == JobIf(c, do, x)
<1>1. IsSeq(first) /\ IsSeq(s) /\ Reasons(first)
      /\ \A K : do \notin K => Never(first, K)
  <2>1. IsSeq(first) /\ \A K : do \notin K => Never(first, K)  BY JobLeaves, Zenon
  <2>2. Reasons(first)  BY ReasonsOf
  <2> QED BY <2>1, <2>2 DEF Closing
<1>2. do # "returnExtra" => ~ExtraDue(first)  BY JobsOf
<1>3. ~c => jobs = s
  <2>1. ~c => first = <<>>  BY DEF JobIf
  <2>2. <<>> \o s = s  BY <1>1 DEF IsSeq
  <2> QED BY <2>1, <2>2
<1>4. c => Head(jobs).usd = x
  <2> SUFFICES ASSUME c PROVE Head(jobs).usd = x
    OBVIOUS
  <2> DEFINE j == [do |-> do, usd |-> x]
  <2>1. first = <<j>> /\ j.usd = x  BY DEF JobIf, Job
  <2>2. Head(<<j>> \o s) = j
    <3> HIDE DEF j
    <3> DEFINE S == Range(s) \union {j}
    <3>1. <<j>> \in Seq(S) /\ s \in Seq(S)  BY <1>1 DEF IsSeq
    <3>2. <<j>> \o s \in Seq(S) /\ (<<j>> \o s)[1] = j /\ Len(<<j>> \o s) > 0
      BY <3>1
    <3> QED BY <3>2
  <2> QED BY <2>1, <2>2
<1>5. jobs = first \o s  OBVIOUS
<1> HIDE DEF first
<1>6. /\ "returnHold" \notin Internal /\ "returnExtra" \notin Internal
      /\ "returnHold" \notin Credit /\ "returnExtra" \notin Credit
      /\ "returnHold" \notin Metered /\ "returnExtra" \notin Metered
      /\ "returnHold" \notin Settled /\ "returnExtra" \notin Settled
      /\ "returnHold" \notin {"debit", "freeHold"} /\ "returnExtra" \notin {"debit", "freeHold"}
  BY DEF Internal, Credit, Metered, Settled
<1>7. /\ Never(first, Internal) /\ Never(first, Credit) /\ Never(first, Metered)
      /\ Never(first, Settled) /\ Never(first, {"debit", "freeHold"})
      /\ Never(first, {"freeHold"})
      /\ do = "returnExtra" => Never(first, {"returnHold"})
  BY <1>1, <1>6
<1>8. /\ Never(s, {"returnHold"}) /\ ~ExtraDue(s)
  BY DEF Never, ExtraDue
<1>9. IsSeq(jobs) /\ Reasons(jobs)  BY <1>1, <1>5, CatJobs, ReasonsOf DEF Closing
<1>10. /\ Never(jobs, Settled)
       /\ Never(s, {"freeHold"}) => Never(jobs, {"freeHold"})
       /\ do = "returnExtra" => Never(jobs, {"returnHold"})
       /\ ~NeedsHold => Never(jobs, {"debit", "freeHold"})
       /\ NeedsLease => Leaves(jobs, Internal, usd)
       /\ ~NeedsLease => Never(jobs, Internal)
  <2>1. /\ ~NeedsHold => Never(s, {"debit", "freeHold"})
        /\ NeedsLease => Leaves(s, Internal, usd)
        /\ ~NeedsLease => Never(s, Internal)
    BY DEF Closing
  <2>2. \A K : Never(first, K) /\ Never(s, K) => Never(jobs, K)
    BY <1>1, <1>5, LeavesCat
  <2>3. Never(s, {"freeHold"}) => Never(jobs, {"freeHold"})
    BY <1>7, <2>2
  <2>4. do = "returnExtra" => Never(jobs, {"returnHold"})
    BY <1>7, <1>8, <2>2
  <2>5. ~NeedsHold => Never(jobs, {"debit", "freeHold"})
    BY <1>7, <2>1, <2>2
  <2>6. (NeedsLease => Leaves(jobs, Internal, usd)) /\ (~NeedsLease => Never(jobs, Internal))
    BY <1>1, <1>5, <1>7, <2>1, LeavesCat
  <2>7. Never(jobs, Settled)  BY <1>7, <2>2
  <2> QED BY <2>3, <2>4, <2>5, <2>6, <2>7
<1>11. /\ Leaves(s, Credit, usd) => Leaves(jobs, Credit, usd)
       /\ Never(s, Credit) => Never(jobs, Credit)
       /\ Leaves(s, Metered, usd) => Leaves(jobs, Metered, usd)
       /\ Never(s, Metered) => Never(jobs, Metered)
  BY <1>1, <1>5, <1>7, LeavesCat
<1>12. ExtraDue(jobs) => ExtraDue(first)  BY <1>1, <1>5, <1>8, CatJobs
<1>13. Closing(jobs, usd)  BY <1>9, <1>10, <1>11 DEF Closing, Apart
<1>14. ExtraDue(jobs) \/ ~Never(jobs, {"returnHold"}) => c
  BY <1>3, <1>8
<1> QED BY <1>2, <1>4, <1>10, <1>11, <1>12, <1>13, <1>14

\* A refusal or a release before any model has charged.
LEMMA RefusedMoney ==
  ASSUME MoneyInv, AuditInv, CoverInv, pc \notin {"answer", "reply"}, pc' = "reply",
         UNCHANGED <<call, books, spent, safety>>,
         catching' \in {catching, "none", "inner", "stream"},
         faults' = faults \/ faults' # <<>>,
         Closing(todo', safety), Never(todo', Settled),
         NeedsHold /\ faults' = <<>> => Leaves(todo', Credit, safety),
         NeedsHold /\ hold' = None /\ faults' = <<>> => Never(todo', {"freeHold"}),
         ExtraDue(todo') => /\ hold' = reserved' + Head(todo').usd /\ Head(todo').usd \in Int
                            /\ reserved' >= safety',
         ~Never(todo', {"returnHold"}) => hold' = Head(todo').usd
  PROVE  MoneyInv'
<1>1. /\ spent.model = 0 /\ Net = safety /\ safety \in Nat
      /\ spent \in [{"classifier", "forgotten", "model"} -> Nat]
  BY DEF AuditInv, CoverInv
<1>2. /\ Known' = Known /\ Net' = Net /\ Charged' = Charged
      /\ NeedsHold' = NeedsHold /\ IsStream' = IsStream
  BY SameSpend
<1>3. safety = Known /\ Known <= Charged /\ Net >= 0  BY <1>1, Totals
<1>4. Never(todo', Metered) /\ ~Owed("settleLease")' /\ ~Owed("settleBilling")'
  BY DEF Never, Metered, Settled, Owed
<1>5. (faults = <<>>)' => Backed'
  BY <1>1, <1>2, <1>4 DEF Backed, Owed
<1>6. Sound' => /\ safety = Known'
                /\ NeedsHold => Leaves(todo', Credit, safety)
                /\ spent'.model = 0 /\ Never(todo', Metered)
  BY <1>1, <1>2, <1>3, <1>4 DEF Sound
<1>7. /\ spent' \in [{"classifier", "forgotten", "model"} -> Nat] /\ Net' >= 0
      /\ safety <= Charged' /\ spent'.model = 0 /\ Net' = safety'
  BY <1>1, <1>2, <1>3
<1> QED BY <1>1, <1>5, <1>6, <1>7, EndedMoney

\* The lists of a release, or of a refusal before anything is held.
LEMMA ReleaseLists ==
  ASSUME safety \in Nat, NEW jobs,
         \/ jobs = ReleaseWithSafety
         \/ \E t : Plain(t) /\ jobs = ReleaseWithSafety \o t
  PROVE  /\ Closing(jobs, safety) /\ Never(jobs, Settled)
         /\ NeedsHold /\ hold # None => Leaves(jobs, Credit, safety)
         /\ Never(jobs, {"returnHold", "returnExtra"}) /\ Never(jobs, {"returnHold"})
         /\ ~ExtraDue(jobs)
<1> DEFINE s == ReleaseWithSafety
<1>1. /\ Closing(s, safety) /\ Never(s, Settled)
      /\ NeedsHold /\ hold # None => Leaves(s, Credit, safety)
      /\ Never(s, {"returnHold", "returnExtra"})
  BY ClosingRelease
<1> HIDE DEF s
<1>2. /\ Settled \subseteq Settled \union Returned
      /\ {"returnHold", "returnExtra"} \subseteq Settled \union Returned
      /\ Credit \subseteq Settled \union Returned
  BY DEF Settled, Returned, Credit
<1>3. /\ Closing(jobs, safety) /\ Never(jobs, Settled)
      /\ NeedsHold /\ hold # None => Leaves(jobs, Credit, safety)
      /\ Never(jobs, {"returnHold", "returnExtra"})
  <2>1. CASE jobs = s  BY <1>1, <2>1
  <2>2. CASE \E t : Plain(t) /\ jobs = s \o t
    <3>1. PICK t : Plain(t) /\ jobs = s \o t  BY <2>2
    <3> QED BY <1>1, <1>2, <3>1, ClosingRow
  <2> QED BY <2>1, <2>2 DEF s
<1>4. Never(jobs, {"returnHold"}) /\ ~ExtraDue(jobs)
  BY <1>3 DEF Never, ExtraDue
<1> QED BY <1>3, <1>4

\* Spend before anything is held, with the row that tells of it.
LEMMA IncurLists ==
  ASSUME NEW usd \in Nat, NEW jobs,
         \/ jobs = IncurSafety(usd)
         \/ \E t : Plain(t) /\ jobs = IncurSafety(usd) \o t
         \/ usd = 0 /\ Plain(jobs)
  PROVE  /\ Closing(jobs, usd) /\ Never(jobs, Settled)
         /\ NeedsHold => Leaves(jobs, Credit, usd)
         /\ Never(jobs, {"freeHold"}) /\ Never(jobs, {"returnHold", "returnExtra"})
         /\ Never(jobs, {"returnHold"}) /\ ~ExtraDue(jobs)
<1> DEFINE s == IncurSafety(usd)
<1>1. /\ Closing(s, usd) /\ Never(s, Settled)
      /\ NeedsHold => Leaves(s, Credit, usd)
      /\ Never(s, {"freeHold", "returnHold", "returnExtra"})
  BY ClosingIncur
<1> HIDE DEF s
<1>2. /\ Settled \subseteq Settled \union Returned
      /\ {"freeHold", "returnHold", "returnExtra"} \subseteq Settled \union Returned
      /\ Credit \subseteq Settled \union Returned /\ Internal \subseteq Settled \union Returned
      /\ Metered \subseteq Settled \union Returned
      /\ Returned \subseteq Settled \union Returned
      /\ {"debit", "freeHold"} \subseteq Settled \union Returned
      /\ {"freeHold"} \subseteq Settled \union Returned
  BY DEF Settled, Returned, Credit, Internal, Metered
<1>3. /\ Closing(jobs, usd) /\ Never(jobs, Settled)
      /\ NeedsHold => Leaves(jobs, Credit, usd)
      /\ Never(jobs, {"freeHold", "returnHold", "returnExtra"})
  <2>1. CASE jobs = s  BY <1>1, <2>1
  <2>2. CASE \E t : Plain(t) /\ jobs = s \o t
    <3>1. PICK t : Plain(t) /\ jobs = s \o t  BY <2>2
    <3> QED BY <1>1, <1>2, <3>1, ClosingRow
  <2>3. CASE usd = 0 /\ Plain(jobs)
    <3>1. ASSUME NEW K, K \subseteq Settled \union Returned PROVE Never(jobs, K)
      BY <2>3, <3>1, NeverFewer DEF Plain
    <3>2. /\ Never(jobs, Settled) /\ Never(jobs, {"freeHold", "returnHold", "returnExtra"})
          /\ Never(jobs, Credit) /\ Never(jobs, Internal) /\ Never(jobs, Metered)
          /\ Never(jobs, Returned) /\ Never(jobs, {"debit", "freeHold"})
          /\ Never(jobs, {"freeHold"})
      BY <1>2, <3>1
    <3> QED BY <2>3, <3>2 DEF Closing, Apart, Plain, Leaves
  <2> QED BY <2>1, <2>2, <2>3 DEF s
<1>4. /\ Never(jobs, {"freeHold"}) /\ Never(jobs, {"returnHold", "returnExtra"})
      /\ Never(jobs, {"returnHold"}) /\ ~ExtraDue(jobs)
  BY <1>3 DEF Never, ExtraDue
<1> QED BY <1>3, <1>4

\* An operation that failed is on the list of those that did.
LEMMA FaultIsListed ==
  ASSUME ResolveInv, call' = call, NEW op, Fault(op)
  PROVE  faults' # <<>>
<1>1. op \in Range(faults')  BY FaultsGrow DEF Fault, ResolveInv
<1>2. Range(<<>>) = {}  BY DEF Range
<1> QED BY <1>1, <1>2

\* A release: the wallet pays what the classifier charged under the hold.
LEMMA ReleasedMoney ==
  ASSUME MoneyInv, AuditInv, CoverInv, pc \notin {"answer", "reply"}, pc' = "reply",
         UNCHANGED <<call, books, spent, safety>>,
         catching' \in {catching, "none", "inner", "stream"},
         faults' = faults \/ faults' # <<>>,
         NeedsHold /\ faults' = <<>> => hold' = hold /\ hold # None,
         \/ todo' = ReleaseWithSafety
         \/ \E t : Plain(t) /\ todo' = ReleaseWithSafety \o t
  PROVE  MoneyInv'
<1>1. safety \in Nat  BY DEF CoverInv
<1>2. /\ Closing(todo', safety) /\ Never(todo', Settled)
      /\ NeedsHold /\ hold # None => Leaves(todo', Credit, safety)
      /\ Never(todo', {"returnHold"}) /\ ~ExtraDue(todo')
  BY <1>1, ReleaseLists
<1> QED BY <1>2, RefusedMoney

\* A rejection before anything is held.
LEMMA IncurredMoney ==
  ASSUME MoneyInv, AuditInv, CoverInv, pc \notin {"answer", "reply"}, pc' = "reply",
         UNCHANGED <<call, books, spent, safety, catching, faults>>,
         \/ todo' = IncurSafety(safety)
         \/ \E t : Plain(t) /\ todo' = IncurSafety(safety) \o t
         \/ safety = 0 /\ Plain(todo')
  PROVE  MoneyInv'
<1>1. safety \in Nat  BY DEF CoverInv
<1>2. /\ Closing(todo', safety) /\ Never(todo', Settled)
      /\ NeedsHold => Leaves(todo', Credit, safety)
      /\ Never(todo', {"freeHold"}) /\ Never(todo', {"returnHold"}) /\ ~ExtraDue(todo')
  BY <1>1, IncurLists
<1> QED BY <1>2, RefusedMoney

\* Nor do they change what the rest of the list books.
LEMMA ReturnLeaves ==
  ASSUME NEW c, NEW do, NEW x, NEW s, IsSeq(s), NEW usd, NEW K, do \notin K
  PROVE  /\ Leaves(s, K, usd) => Leaves(JobIf(c, do, x) \o s, K, usd)
         /\ Never(s, K) => Never(JobIf(c, do, x) \o s, K)
<1> DEFINE first == JobIf(c, do, x)
<1>1. IsSeq(first) /\ Never(first, K)  BY JobLeaves
<1> HIDE DEF first
<1>2. /\ Leaves(s, K, usd) => Leaves(first \o s, K, usd)
      /\ Never(s, K) => Never(first \o s, K)
  BY <1>1, LeavesCat
<1> QED BY <1>2 DEF first

\* The two steps that reserve.
LEMMA HoldMoney ==
  ASSUME MoneyInv, AuditInv, CoverInv, CoverInv', AuditInv', NEW estimate, NEW jobs,
         AcquireCreditHold(estimate, jobs),
         \/ \E t : Plain(t) /\ jobs = IncurSafety(safety) \o t
         \/ safety = 0 /\ Plain(jobs)
  PROVE  MoneyInv'
<1>1. pc = "hold" /\ UNCHANGED <<call, safety, books, spent, catching, faults>>
  BY DEF AcquireCreditHold, At
<1>2. CASE pc' = "reply"
  <2>1. todo' = jobs  BY <1>2 DEF AcquireCreditHold, Answer
  <2> QED BY <1>1, <1>2, <2>1, IncurredMoney
<1>3. CASE pc' # "reply"
  <2>1. pc' = "lease"  BY <1>3 DEF AcquireCreditHold, Answer
  <2>2. Net' >= 0  BY <1>1 DEF Net, MoneyInv
  <2> QED BY <1>1, <2>1, <2>2, GoesOnMoney
<1> QED BY <1>2, <1>3

\* A step that reserves in the budget, or is refused there.
LEMMA LeaseMoney ==
  ASSUME MoneyInv, AuditInv, CoverInv, CoverInv', AuditInv', NEW jobs,
         ReserveBudget(jobs),
         \/ \E t : Plain(t) /\ jobs = IncurSafety(safety) \o t
         \/ safety = 0 /\ Plain(jobs)
  PROVE  MoneyInv'
<1>1. pc = "lease" /\ UNCHANGED <<call, safety, books, spent, catching, faults, hold>>
  BY DEF ReserveBudget, At
<1>2. CASE pc' = "reply"
  <2> DEFINE held == hold # None
  <2>1. todo' = JobIf(held, "returnHold", reserved) \o jobs
    BY <1>2 DEF ReserveBudget, Answer
  <2>2. held => hold = reserved
    BY <1>1 DEF CoverInv
  <2> HIDE DEF held
  <2>3. safety \in Nat  BY DEF CoverInv
  <2>4. /\ Closing(jobs, safety) /\ Never(jobs, Settled)
        /\ NeedsHold => Leaves(jobs, Credit, safety)
        /\ Never(jobs, {"freeHold"}) /\ Never(jobs, {"returnHold", "returnExtra"})
    BY <2>3, IncurLists
  <2>5. /\ Closing(todo', safety) /\ Never(todo', Settled)
        /\ Leaves(jobs, Credit, safety) => Leaves(todo', Credit, safety)
        /\ Never(todo', {"freeHold"}) /\ ~ExtraDue(todo')
        /\ ~Never(todo', {"returnHold"}) => held /\ Head(todo').usd = reserved
    <3>1. PICK c \in BOOLEAN : c = held  BY DEF held
    <3>2. PICK do : do = "returnHold"  OBVIOUS
    <3>3. do \in {"returnHold", "returnExtra"} /\ todo' = JobIf(c, do, reserved) \o jobs
      BY <2>1, <3>1, <3>2
    <3>4. Never(jobs, {"freeHold"})  BY <2>4
    <3>5. Closing(todo', safety)  BY <2>4, <3>3, <3>4, ReturnClosing
    <3>6. Never(todo', Settled)  BY <2>4, <3>3, <3>4, ReturnClosing
    <3>7. ASSUME Leaves(jobs, Credit, safety) PROVE Leaves(todo', Credit, safety)
      BY <2>4, <3>2, <3>3, <3>7, ReturnLeaves DEF Credit, Closing
    <3>8. Never(todo', {"freeHold"})
      BY <2>4, <3>2, <3>3, <3>4, ReturnLeaves DEF Closing
    <3>9. ~ExtraDue(todo')  BY <2>4, <3>2, <3>3, <3>4, ReturnClosing
    <3>10. ~Never(todo', {"returnHold"}) => c /\ Head(todo').usd = reserved
      BY <2>4, <3>3, <3>4, ReturnClosing
    <3> QED BY <3>1, <3>5, <3>6, <3>7, <3>8, <3>9, <3>10
  <2> QED BY <1>1, <1>2, <2>2, <2>4, <2>5, RefusedMoney
<1>3. CASE pc' # "reply"
  <2>1. pc' = "call"  BY <1>3 DEF ReserveBudget, Answer
  <2>2. Net' >= 0  BY <1>1 DEF Net, MoneyInv
  <2> QED BY <1>1, <2>1, <2>2, GoesOnMoney
<1> QED BY <1>2, <1>3

\* The three steps of a top-up.
LEMMA GrowHoldMoney ==
  ASSUME MoneyInv, AuditInv, CoverInv, CoverInv', AuditInv', NEW refused,
         GrowHold(refused), Plain(refused)
  PROVE  MoneyInv'
<1>1. /\ pc = "grow_hold" /\ UNCHANGED <<call, safety, books, spent, catching, faults>>
      /\ reserved \in Nat
  BY DEF GrowHold, At, CoverInv
<1>2. CASE pc' = "reply"
  <2>1. todo' = ReleaseWithSafety \o refused /\ hold' = hold
    BY <1>2 DEF GrowHold, Answer
  <2>2. NeedsHold => hold = reserved  BY <1>1 DEF CoverInv, Held
  <2>3. NeedsHold => hold # None  BY <1>1, <2>2, NoneIsNoNumber
  <2> QED BY <1>1, <1>2, <2>1, <2>3, ReleasedMoney
<1>3. CASE pc' # "reply"
  <2>1. /\ pc' \in {"call_fallback", "grow_lease"}
        /\ pc' = "grow_lease" => UNCHANGED reserved
    BY <1>3 DEF GrowHold, Answer
  <2>2. Net' >= 0 /\ (pc' = "grow_lease" => reserved' >= safety')
    BY <1>1, <2>1 DEF Net, MoneyInv
  <2> QED BY <1>1, <2>1, <2>2, GoesOnMoney
<1> QED BY <1>2, <1>3

\* The budget's share of a top-up, taken or refused.
LEMMA GrowLeaseMoney ==
  ASSUME MoneyInv, AuditInv, CoverInv, CoverInv', AuditInv', NEW refused,
         GrowLease(refused), Plain(refused)
  PROVE  MoneyInv'
<1>1. /\ pc = "grow_lease" /\ UNCHANGED <<call, safety, books, spent, catching, faults, hold>>
      /\ reserved \in Nat /\ safety \in Nat /\ ~Hierarchical /\ reserved >= safety
      /\ hold = IF NeedsHold THEN reserved + Extra ELSE None
  BY DEF GrowLease, At, CoverInv, MoneyInv
<1>2. CASE pc' = "reply"
  <2> DEFINE wanted == UsesCredits
             first == JobIf(wanted, "returnExtra", Extra)
             rest == ReleaseWithSafety \o refused
  <2>1. todo' = first \o ReleaseWithSafety \o refused /\ reserved' = reserved
    BY <1>2 DEF GrowLease, Answer
  <2>2. IsSeq(first) /\ IsSeq(ReleaseWithSafety) /\ IsSeq(refused)
    BY Lists, Batches DEF Plain
  <2>3. todo' = first \o rest
    <3> DEFINE b == ReleaseWithSafety
    <3> HIDE DEF first, b
    <3>1. (first \o b) \o refused = first \o (b \o refused)  BY <2>2 DEF IsSeq, b
    <3> QED BY <2>1, <3>1 DEF b
  <2>4. /\ Closing(rest, safety) /\ Never(rest, Settled)
        /\ NeedsHold /\ hold # None => Leaves(rest, Credit, safety)
        /\ Never(rest, {"returnHold", "returnExtra"})
    BY <1>1, ReleaseLists
  <2>5. wanted => NeedsHold  BY <1>1 DEF NeedsHold
  <2>6. wanted \in BOOLEAN  BY DEF UsesCredits
  <2> HIDE DEF wanted, rest
  <2>7. /\ Closing(todo', safety) /\ Never(todo', Settled)
        /\ Leaves(rest, Credit, safety) => Leaves(todo', Credit, safety)
        /\ Never(todo', {"returnHold"})
        /\ ExtraDue(todo') => wanted /\ Head(todo').usd = Extra
    <3>1. PICK c \in BOOLEAN : c = wanted  BY <2>6
    <3>2. PICK do : do = "returnExtra"  OBVIOUS
    <3>3. do \in {"returnHold", "returnExtra"} /\ todo' = JobIf(c, do, Extra) \o rest
      BY <2>3, <3>1, <3>2
    <3>4. do # "returnHold"  BY <3>2
    <3>5. Closing(todo', safety)  BY <2>4, <3>3, <3>4, ReturnClosing
    <3>6. Never(todo', Settled)  BY <2>4, <3>3, <3>4, ReturnClosing
    <3>7. ASSUME Leaves(rest, Credit, safety) PROVE Leaves(todo', Credit, safety)
      BY <2>4, <3>2, <3>3, <3>7, ReturnLeaves DEF Credit, Closing
    <3>8. Never(todo', {"returnHold"})
      <4>1. Never(rest, {"returnHold"})  BY <2>4 DEF Never
      <4> QED BY <2>4, <3>2, <3>3, <4>1, ReturnLeaves DEF Closing
    <3>9. ExtraDue(todo') => c /\ Head(todo').usd = Extra
      BY <2>4, <3>3, <3>4, ReturnClosing
    <3> QED BY <3>1, <3>5, <3>6, <3>7, <3>8, <3>9
  <2>8. (NeedsHold => hold # None) /\ Extra \in Int
    <3>1. decision.estimate \in Nat
      BY <1>1, Surfaces DEF CoverInv, Decided, DecidedWell
    <3>2. Extra \in Int /\ reserved + Extra \in Int  BY <1>1, <3>1 DEF Extra
    <3> QED BY <1>1, <3>2, NoneIsNoNumber
  <2>9. ExtraDue(todo') => /\ hold' = reserved' + Head(todo').usd /\ Head(todo').usd \in Int
                           /\ reserved' >= safety'
    BY <1>1, <2>1, <2>5, <2>7, <2>8
  <2> QED BY <1>1, <1>2, <2>4, <2>7, <2>8, <2>9, RefusedMoney
<1>3. CASE pc' # "reply"
  <2>1. pc' = "call_fallback"  BY <1>3 DEF GrowLease, Answer
  <2>2. Net' >= 0  BY <1>1 DEF Net, MoneyInv
  <2> QED BY <1>1, <2>1, <2>2, GoesOnMoney
<1> QED BY <1>2, <1>3

\* A top-up that throws gives back what it had added.
LEMMA GrowThrowsMoney ==
  ASSUME MoneyInv, AuditInv, CoverInv, ResolveInv, NEW with, NEW jobs,
         GrowThrows(with, jobs), Plain(jobs)
  PROVE  MoneyInv'
<1>1. /\ pc \in {"grow_hold", "grow_lease"} /\ pc' = "reply"
      /\ UNCHANGED <<call, safety, books, spent>> /\ catching' = "none"
      /\ todo' = ReleaseWithSafety \o jobs /\ Fault(pc)
  BY DEF GrowThrows, At, Answer
<1>2. faults' # <<>>  BY <1>1, FaultIsListed
<1> QED BY <1>1, <1>2, ReleasedMoney

\* A guard that is unavailable names no cost, whatever its classifier charged.
LEMMA UnavailableIsFree ==
  ASSUME NEW guard, NEW pl, NEW tx, NEW image, NEW scan \in Scans, NEW verdict \in Verdicts,
         InspectInput(guard, pl, tx, image, scan, verdict).action = "unavailable"
  PROVE  InspectInput(guard, pl, tx, image, scan, verdict).cost = 0
<1>1. ScreenText(guard, pl, tx, scan).action \in {"allow", "block", "unavailable", "crash"}
  BY DEF ScreenText, Scans
<1> QED BY <1>1 DEF InspectInput, Verdicts, ClassifierCost

\* The guard refuses: the classifier's spend is booked without a hold.
LEMMA JudgedMoney ==
  ASSUME MoneyInv, AuditInv, pc \notin {"answer", "reply"}, pc' = "reply",
         UNCHANGED <<call, books, catching, faults>>,
         spent' \in [{"classifier", "forgotten", "model"} -> Nat], Net' >= 0,
         spent'.model = 0, NEW usd \in Nat, usd = Known',
         \/ todo' = IncurSafety(usd)
         \/ \E t : Plain(t) /\ todo' = IncurSafety(usd) \o t
         \/ usd = 0 /\ Plain(todo')
  PROVE  MoneyInv'
<1>1. /\ Closing(todo', usd) /\ Never(todo', Settled)
      /\ NeedsHold => Leaves(todo', Credit, usd)
      /\ Never(todo', {"freeHold"}) /\ Never(todo', {"returnHold"}) /\ ~ExtraDue(todo')
  BY IncurLists
<1>2. usd <= Charged'
  <2>1. /\ spent'.classifier \in Nat /\ spent'.forgotten \in Nat /\ spent'.model \in Nat
    OBVIOUS
  <2> QED BY <2>1 DEF Known, Charged
<1>3. /\ Never(todo', Metered) /\ ~Owed("settleLease")' /\ ~Owed("settleBilling")'
      /\ ~Owed("freeHold")'
  BY <1>1 DEF Never, Metered, Settled, Owed
<1>4. Backed'  BY <1>3 DEF Backed
<1> QED BY <1>1, <1>2, <1>3, <1>4, EndedMoney

\* The model has answered: the lease is to be settled for what the call cost.
LEMMA AnsweredMoney ==
  ASSUME MoneyInv, CoverInv, AuditInv, AuditInv',
         pc \in {"call", "call_fallback"}, pc' = "answer", ~IsStream,
         UNCHANGED <<call, books, faults, safety, lease, hold>>,
         catching' \in {catching, "none"},
         NEW c, c <=> NeedsLease, todo' = JobIf(c, "settleLease", spent'.model + safety)
  PROVE  MoneyInv'
<1> DEFINE usd == spent'.model + safety
<1>1. /\ spent' \in [{"classifier", "forgotten", "model"} -> Nat] /\ Net' = safety
      /\ safety \in Nat /\ reserved \in Nat
  BY DEF AuditInv, CoverInv
<1>2. usd \in Nat /\ usd = Known' /\ usd <= Charged' /\ Charged' \in Nat /\ Net' >= 0
  <2>1. spent'.classifier \in Nat /\ spent'.forgotten \in Nat /\ spent'.model \in Nat
    BY <1>1
  <2> QED BY <1>1, <2>1 DEF Known, Net, Charged
<1>3. /\ NeedsLease' = NeedsLease /\ NeedsHold' = NeedsHold /\ UsesMeter' = UsesMeter
      /\ IsStream' = IsStream
  BY SameLedgers
<1>4. todo' = JobIf(c, "settleLease", usd)  OBVIOUS
<1> HIDE DEF usd
<1>5. /\ \A K : "settleLease" \notin K => Never(todo', K)
      /\ ~c => \A K : Never(todo', K)
      /\ c => Leaves(todo', Internal, usd)
      /\ IsSeq(todo')
  BY <1>4, JobLeaves DEF Internal
<1>6. /\ Never(todo', Credit) /\ Never(todo', Metered) /\ Never(todo', Returned)
      /\ Never(todo', {"debit", "freeHold"}) /\ Never(todo', {"returnHold"})
      /\ Never(todo', {"returnExtra"}) /\ Never(todo', {"freeHold"})
      /\ Never(todo', {"settleBilling"})
  BY <1>5 DEF Credit, Metered, Returned
<1>7. Reasons(todo')  BY <1>4, ReasonsOf
<1>8. Closing(todo', usd)  BY <1>5, <1>6, <1>7 DEF Closing, Apart
<1>9. /\ Listed(todo')
      /\ \A K \in {Internal, Credit, Metered}, most \in Nat :
           usd <= most => Within(todo', K, 0, most)
  BY <1>2, <1>8, ClosingLists
<1>10. Listed(todo)'  BY <1>9, SameLedgers
<1>11. books'.internal = 0 /\ books'.wallet = 0 /\ books'.meter = 0
  BY DEF MoneyInv, Nothing
<1>12. Bound'  BY <1>2, <1>9, <1>11 DEF Bound
<1>13. ~ExtraDue(todo)' /\ ~Owed("returnHold")' /\ ~Owed("settleBilling")' /\ ~Owed("freeHold")'
  BY <1>6 DEF ExtraDue, Never, Owed
<1>14. Backed'
  <2>1. (NeedsLease => lease = reserved) /\ (NeedsHold => hold = reserved)
    BY DEF CoverInv, Held
  <2>2. Owed("settleLease")' => NeedsLease  BY <1>5 DEF Owed
  <2> QED BY <1>1, <1>3, <2>1, <2>2, NoneIsNoNumber DEF Backed
<1>15. Balance'
  <2>1. NeedsLease => Sums(todo', Internal, 0, usd)
    BY <1>2, <1>5, AllDue
  <2> QED BY <1>2, <1>3, <1>11, <2>1 DEF Balance
<1>16. \A j \in Range(todo') : j.do = "settleLease"
  <2> SUFFICES ASSUME NEW j \in Range(todo'), j.do # "settleLease" PROVE FALSE
    OBVIOUS
  <2>1. Never(todo', {j.do})  BY <1>5
  <2> QED BY <2>1 DEF Never
<1> QED BY <1>2, <1>3, <1>10, <1>11, <1>12, <1>13, <1>14, <1>15, <1>16 DEF MoneyInv

\* After the answer only the wallet or the meter is settled.
LEMMA BillingLists ==
  ASSUME NEW jobs,
         \/ jobs = SettleBilling
         \/ \E row : Plain(row) /\ jobs = row \o SettleBilling
  PROVE  /\ IsSeq(jobs) /\ Reasons(jobs) /\ Never(jobs, Internal) /\ Never(jobs, Returned)
         /\ UsesCredits \/ UsesMeter =>
              Leaves(jobs, Credit, Actual) /\ Leaves(jobs, Metered, Actual)
         /\ ~(UsesCredits \/ UsesMeter) => Never(jobs, Credit) /\ Never(jobs, Metered)
<1> DEFINE z == SettleBilling
<1>1. /\ IsSeq(z) /\ Reasons(z)
      /\ \A K : /\ "settleBilling" \notin K => Never(z, K)
                /\ "settleBilling" \in K => /\ UsesCredits \/ UsesMeter => Leaves(z, K, Actual)
                                            /\ ~(UsesCredits \/ UsesMeter) => Never(z, K)
  <2> DEFINE d == UsesCredits \/ UsesMeter
             usd == Actual
  <2>1. z = JobIf(d, "settleBilling", usd)  BY DEF SettleBilling
  <2> HIDE DEF z, usd
  <2>2. IsSeq(z) /\ Reasons(z)  BY <2>1, JobLeaves, ReasonsOf
  <2>3. \A K : /\ "settleBilling" \notin K => Never(z, K)
               /\ "settleBilling" \in K => /\ d => Leaves(z, K, usd)
                                           /\ ~d => Never(z, K)
    BY <2>1, JobLeaves, Zenon
  <2> QED BY <2>2, <2>3 DEF usd
<1> HIDE DEF z
<1>2. /\ "settleBilling" \notin Internal /\ "settleBilling" \notin Returned
      /\ "settleBilling" \in Credit /\ "settleBilling" \in Metered
  BY DEF Internal, Returned, Credit, Metered
<1>3. CASE jobs = z
  BY <1>1, <1>2, <1>3
<1>4. CASE \E row : Plain(row) /\ jobs = row \o z
  <2>1. PICK row : Plain(row) /\ jobs = row \o z  BY <1>4
  <2>2. IsSeq(row) /\ Reasons(row)  BY <2>1 DEF Plain
  <2>3. /\ Internal \subseteq Settled \union Returned /\ Credit \subseteq Settled \union Returned
        /\ Metered \subseteq Settled \union Returned /\ Returned \subseteq Settled \union Returned
    BY DEF Internal, Credit, Metered, Settled, Returned
  <2>4. ASSUME NEW K, K \subseteq Settled \union Returned
        PROVE  /\ Never(z, K) => Never(jobs, K)
               /\ Leaves(z, K, Actual) => Leaves(jobs, K, Actual)
    <3>1. Never(row, K)  BY <2>1, <2>4, NeverFewer DEF Plain
    <3> QED BY <1>1, <2>1, <2>2, <3>1, LeavesCat
  <2>5. IsSeq(jobs) /\ Reasons(jobs)  BY <1>1, <2>1, <2>2, CatJobs, ReasonsOf
  <2>6. Never(jobs, Internal) /\ Never(jobs, Returned)
    BY <1>1, <1>2, <2>3, <2>4
  <2>7. /\ UsesCredits \/ UsesMeter =>
             Leaves(jobs, Credit, Actual) /\ Leaves(jobs, Metered, Actual)
        /\ ~(UsesCredits \/ UsesMeter) => Never(jobs, Credit) /\ Never(jobs, Metered)
    BY <1>1, <1>2, <2>3, <2>4
  <2> QED BY <2>5, <2>6, <2>7
<1> QED BY <1>3, <1>4 DEF z

\* The answer is screened, and the call settled with its customer.
LEMMA ScreenedMoney ==
  ASSUME MoneyInv, AuditInv, CoverInv, pc = "answer", todo = <<>>, pc' = "reply",
         UNCHANGED <<call, books, faults, spent, safety, catching, lease, hold, reserved>>,
         \/ reply' = Crash /\ (todo' = <<>> \/ todo' = SettleBilling)
         \/ \E row : Plain(row) /\ todo' = row \o SettleBilling
  PROVE  MoneyInv'
<1>1. /\ Known' = Known /\ Net' = Net /\ Charged' = Charged /\ Actual' = Actual
      /\ NeedsLease' = NeedsLease /\ NeedsHold' = NeedsHold /\ UsesMeter' = UsesMeter
      /\ IsStream' = IsStream
  BY SameSpend
<1>2. /\ Actual = Known /\ Known \in Nat /\ Charged \in Nat /\ Known <= Charged /\ Net >= 0
  <2>1. Net = safety /\ spent \in [{"classifier", "forgotten", "model"} -> Nat] /\ Net >= 0
    BY DEF AuditInv, MoneyInv
  <2>2. spent.model \in Nat /\ Net \in Nat  BY <2>1, Totals
  <2>3. Known = Net + spent.model  BY <2>1, Totals
  <2>4. Actual = Known  BY <2>1, <2>2, <2>3 DEF Actual
  <2> QED BY <2>1, <2>4, Totals
<1>3. /\ IsSeq(todo') /\ Reasons(todo') /\ Never(todo', Internal) /\ Never(todo', Returned)
      /\ \/ Leaves(todo', Credit, Known) /\ Leaves(todo', Metered, Known)
         \/ Never(todo', Credit) /\ Never(todo', Metered)
  <2>1. CASE todo' = <<>>
    BY <2>1, NoJobs, ReasonsOf
  <2>2. CASE todo' # <<>>
    BY <1>2, <2>2, BillingLists
  <2> QED BY <2>1, <2>2
<1>4. reply' # Crash /\ (UsesCredits \/ UsesMeter) =>
        Leaves(todo', Credit, Known) /\ Leaves(todo', Metered, Known)
  BY <1>2, BillingLists
<1>5. Never(todo', {"debit", "freeHold"}) /\ Never(todo', {"returnHold"})
      /\ Never(todo', {"freeHold"}) /\ Never(todo', {"settleLease"}) /\ ~ExtraDue(todo')
  BY <1>3 DEF Never, Returned, Internal, ExtraDue
<1>6. Listed(todo')
  <2>1. Apart(todo')  BY <1>3, <1>5 DEF Apart
  <2>2. ASSUME NEW K \in {Internal, Credit, Metered}
        PROVE  \E due \in Nat : Leaves(todo', K, due)
    <3>1. Leaves(todo', K, Known) \/ Never(todo', K)  BY <1>3
    <3>2. Never(todo', K) => Leaves(todo', K, 0)  BY DEF Leaves
    <3> QED BY <1>2, <3>1, <3>2
  <2> QED BY <1>3, <1>5, <2>1, <2>2 DEF Listed
<1>7. Listed(todo)'  BY <1>6, SameLedgers
<1>8. /\ books.internal \in Nat /\ books.wallet = 0 /\ books.meter = 0 /\ ~IsStream
  BY DEF MoneyInv
<1>9. \A K : Never(<<>>, K)  BY NoJobs
<1>10. Bound => Bound'
  <2> SUFFICES ASSUME Bound PROVE Bound'
    OBVIOUS
  <2>1. Within(<<>>, Internal, books.internal, Charged)  BY DEF Bound
  <2>2. books.internal <= Charged  BY <1>2, <1>8, <1>9, <2>1, NothingDue
  <2>3. Within(todo', Internal, books.internal, Charged)
    BY <1>2, <1>3, <1>8, <2>2, NothingDue
  <2>4. Within(todo', Credit, 0, Charged) /\ Within(todo', Metered, 0, Charged)
    BY <1>2, <1>3, AllDue
  <2> QED BY <1>1, <1>8, <2>3, <2>4 DEF Bound
<1>11. Sound' => Balance'
  <2> SUFFICES ASSUME Sound' PROVE Balance'
    OBVIOUS
  <2>1. faults = <<>> /\ reply' # Crash /\ Sound  BY DEF Sound, Crashed
  <2>2. Balance  BY <2>1 DEF MoneyInv
  <2>3. NeedsLease => Sums(todo', Internal, books.internal, Known)
    <3>1. NeedsLease => Sums(<<>>, Internal, books.internal, Known)  BY <2>2 DEF Balance
    <3>2. NeedsLease => books.internal = Known
      BY <1>2, <1>8, <1>9, <3>1, NothingDue
    <3> QED BY <1>2, <1>3, <1>8, <3>2, NothingDue
  <2>4. UsesCredits \/ UsesMeter =>
          Sums(todo', Credit, 0, Known) /\ Sums(todo', Metered, 0, Known)
    BY <1>2, <1>4, <2>1, AllDue
  <2> QED BY <1>1, <1>8, <2>3, <2>4 DEF Balance, NeedsHold
<1>12. Backed => Backed'
  BY <1>1, <1>5 DEF Backed, Owed
<1>13. ~ExtraDue(todo)' /\ ~Owed("returnHold")'  BY <1>5 DEF Owed
<1> QED BY <1>1, <1>2, <1>7, <1>8, <1>10, <1>11, <1>12, <1>13 DEF MoneyInv

\* A call that is settled as soon as its model has answered.
LEMMA SettledMoney ==
  ASSUME MoneyInv, AuditInv, CoverInv, pc \in Held, pc' = "reply",
         UNCHANGED <<call, books, faults, safety, lease, hold, reserved>>,
         catching' \in {catching, "stream"},
         spent' \in [{"classifier", "forgotten", "model"} -> Nat],
         spent'.classifier = spent.classifier, spent'.forgotten = spent.forgotten,
         NEW usd, usd = spent'.model + safety,
         NEW c, c <=> NeedsLease, NEW d, d <=> UsesCredits \/ UsesMeter,
         NEW status, NEW lost \in Replies \union {None},
         todo' = JobIf(c, "settleLease", usd) \o Row(status, usd, lost)
                 \o JobIf(d, "settleBilling", usd),
         IsStream /\ call.reports = {None} => usd <= reserved
  PROVE  MoneyInv'
<1>1. /\ Net = safety /\ safety \in Nat /\ reserved \in Nat /\ Net' = Net
      /\ spent \in [{"classifier", "forgotten", "model"} -> Nat]
  BY DEF AuditInv, CoverInv, Net, Held
<1>2. /\ usd \in Nat /\ usd = Known' /\ usd <= Charged' /\ Actual' = usd /\ Net' >= 0
  <2>1. /\ spent'.classifier \in Nat /\ spent'.forgotten \in Nat /\ spent'.model \in Nat
    OBVIOUS
  <2>2. Known' = Net' + spent'.model  BY <2>1 DEF Known, Net
  <2> QED BY <1>1, <2>1, <2>2 DEF Charged, Actual, Known
<1>3. /\ Closing(todo', usd) /\ Never(todo', Returned)
      /\ UsesCredits \/ UsesMeter => Leaves(todo', Credit, usd) /\ Leaves(todo', Metered, usd)
  BY <1>2, ClosingSettled
<1>4. ~ExtraDue(todo') /\ Never(todo', {"returnHold"}) /\ Never(todo', {"freeHold"})
  BY <1>3 DEF Never, Returned, ExtraDue
<1>5. Backed'
  <2>1. (NeedsLease => lease = reserved) /\ (NeedsHold => hold = reserved)
    BY DEF CoverInv
  <2>2. ~NeedsLease => Never(todo', {"settleLease"})
    BY <1>3 DEF Closing, Never, Internal
  <2>3. NeedsHold' = NeedsHold  BY SameLedgers
  <2> QED BY <1>1, <2>1, <2>2, <2>3, NoneIsNoNumber DEF Backed, Owed
<1>6. pc \notin {"answer", "reply"}  BY DEF Held
<1>7. NeedsHold => UsesCredits  BY DEF NeedsHold
<1> QED BY <1>2, <1>3, <1>4, <1>5, <1>6, <1>7, EndedMoney

\* An operation throws: the rest of the list is dropped, or the call is released
\* from the start.
LEMMA ThrownMoney ==
  ASSUME IsSeq(todo), MoneyInv, AuditInv, CoverInv, ResolveInv, OperationThrows
  PROVE  MoneyInv'
<1>1. /\ todo # <<>> /\ pc' = "reply" /\ Fault(Head(todo).do)
      /\ UNCHANGED <<call, spent, safety, reserved, lease, hold, books>>
      /\ \/ catching' = "rerun" /\ todo' = ReleaseWithSafety \o RejectionRow("failed", safety)
         \/ /\ catching' = catching /\ Head(todo).do = "returnExtra"
            /\ todo' = ReleaseWithSafety \o RejectionRow("failed", safety)
         \/ catching' = catching /\ todo' = <<>>
  BY DEF OperationThrows, Due
<1>2. faults' # <<>> /\ pc \in {"answer", "reply"}  BY <1>1, FaultIsListed DEF CoverInv
<1>3. /\ Known' = Known /\ Net' = Net /\ Charged' = Charged /\ Actual' = Actual
      /\ NeedsLease' = NeedsLease /\ NeedsHold' = NeedsHold /\ UsesMeter' = UsesMeter
      /\ IsStream' = IsStream
  BY <1>1, SameSpend
<1>4. /\ books.internal \in Nat /\ books.wallet \in Nat /\ books.meter \in Nat
      /\ Net \in Nat /\ Known \in Nat /\ Charged \in Nat /\ safety \in Nat
      /\ Known <= Charged /\ Known = Net + spent.model
  BY Totals DEF MoneyInv, AuditInv, CoverInv
<1>5. (pc = "reply" /\ IsStream /\ call.reports = {None} =>
         spent.model = 0 \/ Actual <= reserved)'
  BY <1>1, <1>2, <1>3 DEF MoneyInv
<1>6. ~Sound'  BY <1>2 DEF Sound
<1>7. CASE todo' = <<>> /\ catching' = catching
  <2>1. (\A K : Never(<<>>, K)) /\ ~ExtraDue(<<>>) /\ IsSeq(<<>>)  BY NoJobs
  <2>2. Closing(<<>>, 0)  BY <2>1, ReasonsOf DEF Closing, Apart, Leaves
  <2>3. Listed(todo)'  BY <1>1, <1>7, <2>2, ClosingLists, SameLedgers
  <2>4. Bound => Bound'
    <3> SUFFICES ASSUME Bound PROVE Bound'
      OBVIOUS
    <3>1. ASSUME NEW K, NEW booked \in Nat, Within(todo, K, booked, Charged)
          PROVE  Within(<<>>, K, booked, Charged)
      <4>1. PICK due \in Nat : booked + due <= Charged  BY <3>1 DEF Within
      <4>2. booked <= Charged  BY <1>4, <3>1, <4>1
      <4> QED BY <1>4, <2>1, <3>1, <4>2, NothingDue
    <3> QED BY <1>1, <1>3, <1>4, <1>7, <3>1 DEF Bound
  <2>5. ~ExtraDue(todo') /\ Never(todo', {"returnHold"})  BY <1>7, <2>1
  <2>6. ~ExtraDue(todo)' /\ ~Owed("returnHold")'  BY <2>5 DEF Owed
  <2>7. catching' # "rerun" => Bound'  BY <1>7, <2>4 DEF MoneyInv
  <2>8. catching' \in {"none", "inner", "rerun", "stream"}  BY <1>7 DEF MoneyInv
  <2> QED BY <1>1, <1>2, <1>3, <1>5, <1>6, <2>3, <2>6, <2>7, <2>8 DEF MoneyInv
<1>8. CASE /\ todo' = ReleaseWithSafety \o RejectionRow("failed", safety)
           /\ catching' = "rerun" \/ (catching' = catching /\ Head(todo).do = "returnExtra")
  <2>1. /\ Closing(todo', safety) /\ ~ExtraDue(todo') /\ Never(todo', {"returnHold"})
    BY <1>4, <1>8, PlainLists, ReleaseLists
  <2>2. /\ Listed(todo')
        /\ \A K \in {Internal, Credit, Metered}, most \in Nat :
             safety <= most => Within(todo', K, 0, most)
    BY <1>4, <2>1, ClosingLists
  <2>3. Listed(todo)'  BY <1>1, <2>2, SameLedgers
  <2>4. ~ExtraDue(todo)' /\ ~Owed("returnHold")'  BY <2>1 DEF Owed
  <2>5. catching' \in {"none", "inner", "rerun", "stream"}  BY <1>1 DEF MoneyInv
  <2>6. Head(todo).do = "returnExtra" => Bound'
    <3> SUFFICES ASSUME Head(todo).do = "returnExtra" PROVE Bound'
      OBVIOUS
    <3>1. Head(todo) \in Range(todo)  BY <1>1, TailOfJobs
    <3>2. ExtraDue(todo)  BY <3>1 DEF ExtraDue
    <3>3. Nothing /\ Net = safety /\ spent.model = 0  BY <3>2 DEF MoneyInv
    <3>4. safety <= Charged  BY <1>4, <3>3
    <3> QED BY <1>1, <1>3, <1>4, <2>2, <3>3, <3>4 DEF Bound, Nothing
  <2>7. catching' # "rerun" => Bound'  BY <1>1, <1>8, <2>6
  <2> QED BY <1>1, <1>2, <1>3, <1>5, <1>6, <2>3, <2>4, <2>5, <2>7 DEF MoneyInv
<1> QED BY <1>1, <1>7, <1>8

\* What the job at the head tells of the list.
LEMMA HeadOwed ==
  ASSUME IsSeq(todo), todo # <<>>
  PROVE  /\ Owed(Head(todo).do)
         /\ Head(todo).do = "returnExtra" => ExtraDue(todo)
         /\ \A K : Never(todo, K) => Head(todo).do \notin K
<1>1. Head(todo) \in Range(todo)  BY TailOfJobs
<1> QED BY <1>1 DEF Owed, Never, ExtraDue

\* An operation of the ledgers that succeeds.
LEMMA DoneMoney ==
  ASSUME IsSeq(todo), MoneyInv, AuditInv, CoverInv, ResolveInv,
         Debit \/ Book \/ FreeLease \/ FreeHold \/ ReturnHold \/ SettleLease
         \/ SettleBillingDone \/ WriteAudit
  PROVE  MoneyInv'
<1> DEFINE op == Head(todo).do
           usd == Head(todo).usd
<1>1. /\ todo # <<>> /\ todo' = Tail(todo)
      /\ UNCHANGED <<call, pc, spent, safety, reserved, catching, faults, reply>>
  BY DEF Debit, Book, FreeLease, FreeHold, ReturnHold, SettleLease, SettleBillingDone,
         WriteAudit, Due, Done, Keep
<1>2. Queue(todo, hold) /\ pc \in {"answer", "reply"}
  BY <1>1 DEF ResolveInv, CoverInv
<1>3. /\ books \in [{"internal", "wallet", "meter"} -> Nat] /\ Known \in Nat
      /\ op \in Internal \union Credit => usd \in Nat
      /\ ~NeedsHold => op \notin {"debit", "freeHold"}
      /\ faults = <<>> => Backed
      /\ Owed(op)
  <2>1. Known \in Nat  BY Totals DEF MoneyInv, AuditInv
  <2> QED BY <1>1, <2>1, HeadAmount, HeadOwed DEF MoneyInv, Listed
<1> DEFINE Paid ==
      /\ books' \in [{"internal", "wallet", "meter"} -> Nat]
      /\ \/ op \in Internal /\ books'.internal = books.internal + usd
         \/ books'.internal = books.internal /\ (op \in Internal => faults # <<>>)
      /\ \/ op \in Credit /\ NeedsHold /\ books'.wallet = books.wallet + usd
         \/ /\ books'.wallet = books.wallet
            /\ op \in Credit /\ NeedsHold => faults # <<>> \/ Known = 0
      /\ \/ op \in Metered /\ UsesMeter /\ books'.meter = books.meter + usd
         \/ books'.meter = books.meter /\ (op \in Metered => ~UsesMeter)
      /\ lease' = lease \/ op \in {"freeLease", "settleLease"}
      /\ \/ hold' = hold
         \/ op \in {"freeHold", "settleBilling", "returnHold"}
         \/ op = "returnExtra" /\ (Known > 0 => hold' # None)
<1>4. Paid => MoneyInv'
  <2> SUFFICES ASSUME Paid PROVE MoneyInv'
    OBVIOUS
  <2> QED BY <1>1, <1>2, PoppedMoney
<1>5. ASSUME Debit PROVE Paid
  <2>1. op = "debit" /\ UNCHANGED <<lease, hold>>
        /\ books' = [books EXCEPT !.wallet = @ + usd]
    BY <1>5 DEF Debit, Due, Usd
  <2> HIDE DEF op, usd
  <2> QED BY <1>3, <2>1 DEF Internal, Credit, Metered
<1>6. ASSUME Book PROVE Paid
  <2>1. op = "book" /\ UNCHANGED <<lease, hold>>
        /\ books' = [books EXCEPT !.internal = @ + usd]
    BY <1>6 DEF Book, Due, Usd
  <2> HIDE DEF op, usd
  <2> QED BY <1>3, <2>1 DEF Internal, Credit, Metered
<1>7. ASSUME FreeLease PROVE Paid
  <2>1. op = "freeLease" /\ UNCHANGED <<books, hold>>
    BY <1>7 DEF FreeLease, Due
  <2> HIDE DEF op, usd
  <2> QED BY <1>3, <2>1 DEF Internal, Credit, Metered
<1>8. ASSUME FreeHold PROVE Paid
  <2>1. op = "freeHold" /\ UNCHANGED lease
        /\ books' = IF hold = None THEN books ELSE [books EXCEPT !.wallet = @ + usd]
    BY <1>8 DEF FreeHold, Due, Usd
  <2> HIDE DEF op, usd
  <2>2. hold = None /\ NeedsHold => faults # <<>> \/ Known = 0
    BY <1>3, <2>1 DEF Backed
  <2> QED BY <1>3, <2>1, <2>2 DEF Internal, Credit, Metered
<1>9. ASSUME ReturnHold PROVE Paid
  <2>1. op \in {"returnHold", "returnExtra"} /\ UNCHANGED <<books, lease>>
        /\ hold' = IF hold = None \/ hold = usd THEN None ELSE hold - usd
    BY <1>9 DEF ReturnHold, Due, Usd
  <2>2. op = "returnExtra" => /\ hold = reserved + usd /\ usd \in Int /\ reserved >= safety
                              /\ Net = safety /\ spent.model = 0
    BY <1>1, HeadOwed DEF MoneyInv
  <2> HIDE DEF op, usd
  <2>3. ASSUME op = "returnExtra", Known > 0 PROVE hold' # None
    <3>1. reserved \in Nat /\ safety \in Nat /\ Known = Net + spent.model /\ Net \in Nat
      BY Totals DEF CoverInv, MoneyInv, AuditInv
    <3>2. reserved > 0  BY <2>2, <2>3, <3>1
    <3>3. hold \in Int /\ hold # usd /\ hold - usd \in Int  BY <2>2, <2>3, <3>1, <3>2
    <3> QED BY <2>1, <3>3, NoneIsNoNumber
  <2> QED BY <1>3, <2>1, <2>3 DEF Internal, Credit, Metered
<1>10. ASSUME SettleLease PROVE Paid
  <2>1. op = "settleLease" /\ UNCHANGED hold
        /\ books' = IF lease = None THEN books ELSE [books EXCEPT !.internal = @ + usd]
    BY <1>10 DEF SettleLease, Due, Usd
  <2> HIDE DEF op, usd
  <2>2. lease = None => faults # <<>>  BY <1>3, <2>1 DEF Backed
  <2> QED BY <1>3, <2>1, <2>2 DEF Internal, Credit, Metered
<1>11. ASSUME SettleBillingDone PROVE Paid
  <2>1. /\ op = "settleBilling" /\ UNCHANGED lease
        /\ books' = [books EXCEPT
             !.wallet = IF UsesCredits /\ hold # None THEN @ + usd ELSE @,
             !.meter  = IF UsesMeter THEN @ + usd ELSE @]
    BY <1>11 DEF SettleBillingDone, Due, Usd
  <2> HIDE DEF op, usd
  <2>2. /\ hold = None /\ NeedsHold => faults # <<>> \/ Known = 0
        /\ hold # None => NeedsHold
        /\ NeedsHold => UsesCredits
    BY <1>3, <2>1 DEF Backed, ResolveInv, NeedsHold
  <2>3. op \in Credit /\ op \in Metered /\ op \notin Internal
    BY <2>1 DEF Internal, Credit, Metered
  <2> DEFINE w == IF UsesCredits /\ hold # None THEN books.wallet + usd ELSE books.wallet
             m == IF UsesMeter THEN books.meter + usd ELSE books.meter
  <2>4. books' = [books EXCEPT !.wallet = w, !.meter = m]  BY <2>1
  <2>5. w \in Nat /\ m \in Nat  BY <1>3, <2>3
  <2> HIDE DEF w, m
  <2>6. /\ books' \in [{"internal", "wallet", "meter"} -> Nat]
        /\ books'.internal = books.internal /\ books'.wallet = w /\ books'.meter = m
    BY <1>3, <2>4, <2>5
  <2> QED BY <2>1, <2>2, <2>3, <2>6 DEF w, m
<1>12. ASSUME WriteAudit PROVE Paid
  <2>1. op = "audit" /\ UNCHANGED <<books, lease, hold>>
    BY <1>12 DEF WriteAudit, Due
  <2> HIDE DEF op, usd
  <2> QED BY <1>3, <2>1 DEF Internal, Credit, Metered
<1> QED BY <1>4, <1>5, <1>6, <1>7, <1>8, <1>9, <1>10, <1>11, <1>12

\* An operation that has failed and was logged.
LEMMA PassedMoney ==
  ASSUME IsSeq(todo), MoneyInv, AuditInv, CoverInv, ResolveInv,
         OperationIsLogged \/ StreamReleaseIsLogged \/ AuditFails
  PROVE  MoneyInv'
<1>1. /\ todo # <<>> /\ (\E op : Fault(op))
      /\ UNCHANGED <<call, pc, spent, safety, reserved, catching, books, lease, hold>>
      /\ \/ todo' = Tail(todo)
         \/ Tail(todo) # <<>> /\ todo' = Tail(Tail(todo))
  BY DEF OperationIsLogged, StreamReleaseIsLogged, AuditFails, Due, Keep
<1>2. /\ faults' # <<>> /\ pc \in {"answer", "reply"} /\ Queue(todo, hold) /\ Listed(todo)
      /\ Charged \in Nat
  <2>1. Charged \in Nat  BY Totals DEF MoneyInv, AuditInv
  <2> QED BY <1>1, <2>1, FaultIsListed DEF CoverInv, ResolveInv, MoneyInv
<1> DEFINE s == Tail(todo)
<1>3. /\ IsSeq(s) /\ Listed(s) /\ ~ExtraDue(s) /\ Never(s, {"returnHold"})
      /\ Range(todo) = {Head(todo)} \union Range(s)
      /\ \A K : \A booked \in Nat :
           Within(todo, K, booked, Charged) => Within(s, K, booked, Charged)
  BY <1>1, <1>2, ListDropped, ReturnsGone, TailOfJobs, BoundDropped
<1>4. CASE todo' = s
  BY <1>1, <1>2, <1>3, <1>4, LoggedMoney
<1>5. CASE s # <<>> /\ todo' = Tail(s)
  <2> HIDE DEF s
  <2>1. /\ IsSeq(todo') /\ Listed(todo') /\ \A K : Never(s, K) => Never(todo', K)
        /\ Range(s) = {Head(s)} \union Range(todo')
    BY <1>3, <1>5, ListDropped, TailOfJobs
  <2>2. ~ExtraDue(todo') /\ Never(todo', {"returnHold"})
    BY <1>3, <2>1 DEF ExtraDue
  <2>3. \A K : \A booked \in Nat :
          Within(s, K, booked, Charged) => Within(todo', K, booked, Charged)
    BY <1>2, <1>3, <1>5, BoundDropped
  <2>4. Range(todo') \subseteq Range(todo)  BY <1>3, <2>1
  <2> QED BY <1>1, <1>2, <1>3, <2>1, <2>2, <2>3, <2>4, LoggedMoney
<1> QED BY <1>1, <1>4, <1>5

\* No step books what the call did not cost, or leaves out what it did.
LEMMA MoneyStep ==
  ASSUME IsSeq(todo), ApprovedInv, CoverInv, CoverInv', ResolveInv, AuditInv, AuditInv',
         MoneyInv, [Next]_vars
  PROVE  MoneyInv'
\* The queue.
<1>1. ASSUME \/ Debit \/ Book \/ FreeLease \/ FreeHold \/ ReturnHold \/ SettleLease
            \/ SettleBillingDone \/ WriteAudit
      PROVE MoneyInv'
  BY <1>1, DoneMoney
<1>2. ASSUME OperationIsLogged \/ StreamReleaseIsLogged \/ AuditFails PROVE MoneyInv'
  BY <1>2, PassedMoney
<1>3. ASSUME OperationThrows PROVE MoneyInv'
  BY <1>3, ThrownMoney
<1>4. ASSUME ReserveThrows PROVE MoneyInv'
  <2>1. /\ pc \in {"hold", "lease"} /\ pc' = "reply" /\ Fault(pc)
        /\ UNCHANGED <<call, books, spent, catching>> /\ todo' = <<>> /\ reply' = Crash
    BY <1>4 DEF ReserveThrows, At
  <2>2. faults' # <<>>  BY <2>1, FaultIsListed
  <2>3. /\ spent' \in [{"classifier", "forgotten", "model"} -> Nat] /\ spent'.model = 0
        /\ Net' >= 0
    BY <2>1 DEF AuditInv, MoneyInv, Net
  <2> QED BY <2>1, <2>2, <2>3, CrashedMoney
\* On the way to the reservation.
<1>5. ASSUME CheckPause PROVE MoneyInv'
  <2>1. pc = "pause" /\ UNCHANGED <<call, books, spent, safety, catching, faults>>
    BY <1>5 DEF CheckPause, At, Answer
  <2>2. CASE pc' = "reply"
    <3>1. todo' = <<>>
      BY <1>5, <2>1, <2>2 DEF CheckPause, At, Answer
    <3>2. Plain(todo') /\ safety = 0
      BY <1>5, <2>1, <3>1, PlainLists, RepliesMade, Surfaces DEF AuditInv
    <3> QED BY <2>1, <2>2, <3>2, IncurredMoney
  <2>3. CASE pc' # "reply"
    <3>1. pc' \in {"evaluate"}
      BY <1>5, <2>1, <2>3 DEF CheckPause, At, Answer
    <3>2. Net' >= 0  BY <2>1 DEF Net, MoneyInv
    <3> QED BY <2>1, <3>1, <3>2, GoesOnMoney
  <2> QED BY <2>2, <2>3
<1>6. ASSUME EvaluateChat PROVE MoneyInv'
  <2>1. pc = "evaluate" /\ UNCHANGED <<call, books, spent, safety, catching, faults>>
    BY <1>6 DEF EvaluateChat, At, Answer, Following, FlatOrder, PathOrder
  <2>2. CASE pc' = "reply"
    <3>1. todo' = <<>> \/ todo' = RejectionRow("failed", 0)
      BY <1>6, <2>1, <2>2 DEF EvaluateChat, At, Answer, Following, FlatOrder, PathOrder
    <3>2. Plain(todo') /\ safety = 0
      BY <1>6, <2>1, <3>1, PlainLists, RepliesMade, Surfaces DEF AuditInv
    <3> QED BY <2>1, <2>2, <3>2, IncurredMoney
  <2>3. CASE pc' # "reply"
    <3>1. pc' \in {"path", "screen", "guard", "hold"}
      BY <1>6, <2>1, <2>3 DEF EvaluateChat, At, Answer, Following, FlatOrder, PathOrder
    <3>2. Net' >= 0  BY <2>1 DEF Net, MoneyInv
    <3> QED BY <2>1, <3>1, <3>2, GoesOnMoney
  <2> QED BY <2>2, <2>3
<1>7. ASSUME EvaluateEmbeddings PROVE MoneyInv'
  <2>1. pc = "evaluate" /\ UNCHANGED <<call, books, spent, safety, catching, faults>>
    BY <1>7 DEF EvaluateEmbeddings, At, Answer
  <2>2. CASE pc' = "reply"
    <3>1. todo' = <<>> \/ todo' = RejectionRow("failed", 0)
      BY <1>7, <2>1, <2>2 DEF EvaluateEmbeddings, At, Answer
    <3>2. Plain(todo') /\ safety = 0
      BY <1>7, <2>1, <3>1, PlainLists, RepliesMade, Surfaces DEF AuditInv
    <3> QED BY <2>1, <2>2, <3>2, IncurredMoney
  <2>3. CASE pc' # "reply"
    <3>1. pc' \in {"path", "screen", "guard", "hold"}
      BY <1>7, <2>1, <2>3 DEF EvaluateEmbeddings, At, Answer
    <3>2. Net' >= 0  BY <2>1 DEF Net, MoneyInv
    <3> QED BY <2>1, <3>1, <3>2, GoesOnMoney
  <2> QED BY <2>2, <2>3
<1>8. ASSUME EvaluateDocument PROVE MoneyInv'
  <2>1. pc = "evaluate" /\ UNCHANGED <<call, books, spent, safety, catching, faults>>
    BY <1>8 DEF EvaluateDocument, At, Answer
  <2>2. CASE pc' = "reply"
    <3>1. todo' = <<>> \/ todo' = RejectionRow("failed", 0)
      BY <1>8, <2>1, <2>2 DEF EvaluateDocument, At, Answer
    <3>2. Plain(todo') /\ safety = 0
      BY <1>8, <2>1, <3>1, PlainLists, RepliesMade, Surfaces DEF AuditInv
    <3> QED BY <2>1, <2>2, <3>2, IncurredMoney
  <2>3. CASE pc' # "reply"
    <3>1. pc' \in {"path", "screen", "guard", "hold"}
      BY <1>8, <2>1, <2>3 DEF EvaluateDocument, At, Answer
    <3>2. Net' >= 0  BY <2>1 DEF Net, MoneyInv
    <3> QED BY <2>1, <3>1, <3>2, GoesOnMoney
  <2> QED BY <2>2, <2>3
<1>9. ASSUME LoadHierarchicalPath PROVE MoneyInv'
  <2>1. pc = "path" /\ UNCHANGED <<call, books, spent, safety, catching, faults>>
    BY <1>9 DEF LoadHierarchicalPath, At, Answer, Following, PathOrder, CoverInv
  <2>2. CASE pc' = "reply"
    <3>1. todo' = <<>> \/ todo' = Row("failed", 0, AuditUnavailable(TRUE))
      BY <1>9, <2>1, <2>2 DEF LoadHierarchicalPath, At, Answer, Following, PathOrder, CoverInv
    <3>2. Plain(todo') /\ safety = 0
      BY <1>9, <2>1, <3>1, PlainLists, RepliesMade, Surfaces DEF AuditInv
    <3> QED BY <2>1, <2>2, <3>2, IncurredMoney
  <2>3. CASE pc' # "reply"
    <3>1. pc' \in {"screen"}
      BY <1>9, <2>1, <2>3 DEF LoadHierarchicalPath, At, Answer, Following, PathOrder, CoverInv
    <3>2. Net' >= 0  BY <2>1 DEF Net, MoneyInv
    <3> QED BY <2>1, <3>1, <3>2, GoesOnMoney
  <2> QED BY <2>2, <2>3
<1>10. ASSUME ScreenEmbeddings PROVE MoneyInv'
  <2>1. pc = "guard" /\ UNCHANGED <<call, books, spent, safety, catching, faults>>
    BY <1>10 DEF ScreenEmbeddings, At, Answer
  <2>2. CASE pc' = "reply"
    <3>1. todo' = <<>> \/ \E status : todo' = RejectionRow(status, 0)
      BY <1>10, <2>1, <2>2 DEF ScreenEmbeddings, At, Answer
    <3>2. Plain(todo') /\ safety = 0
      BY <1>10, <2>1, <3>1, PlainLists, RepliesMade, Surfaces DEF CoverInv, ScreenEmbeddings
    <3> QED BY <2>1, <2>2, <3>2, IncurredMoney
  <2>3. CASE pc' # "reply"
    <3>1. pc' \in {"hold"}
      BY <1>10, <2>1, <2>3 DEF ScreenEmbeddings, At, Answer
    <3>2. Net' >= 0  BY <2>1 DEF Net, MoneyInv
    <3> QED BY <2>1, <3>1, <3>2, GoesOnMoney
  <2> QED BY <2>2, <2>3
<1>11. ASSUME ScreenContext PROVE MoneyInv'
  <2>1. /\ pc = "screen" /\ UNCHANGED <<call, books, catching, faults>>
        /\ pc' \in {"guard", "reply"}
    BY <1>11 DEF ScreenContext, At, Answer, Following, FlatOrder, PathOrder
  <2>2. /\ safety = 0 /\ Net = 0 /\ spent.model = 0
        /\ spent \in [{"classifier", "forgotten", "model"} -> Nat]
    BY <2>1 DEF AuditInv
  <2>3. CASE ~(plan.grounding = "strict" /\ plan.injection = "block")
    <3>1. pc' = "guard" /\ UNCHANGED <<spent, safety>>
      BY <1>11, <2>1, <2>3 DEF ScreenContext, Following, FlatOrder, PathOrder
    <3>2. Net' >= 0  BY <3>1 DEF Net, MoneyInv
    <3> QED BY <2>1, <3>1, <3>2, GoesOnMoney
  <2>4. CASE plan.grounding = "strict" /\ plan.injection = "block"
    <3> DEFINE R(v) == InspectInput(call.guard, ContextPlan, Req.context.text, FALSE, "up", v)
    <3>1. PICK verdict \in Verdicts :
            /\ Inspected(R(verdict))
            /\ \/ pc' = "guard"
               \/ pc' = "reply" /\ todo' = IncurSafety(R(verdict).cost)
               \/ /\ pc' = "reply" /\ R(verdict).action = "unavailable"
                  /\ todo' = <<>>
      BY <1>11, <2>1, <2>4 DEF ScreenContext, Answer, Following, FlatOrder, PathOrder
    <3> DEFINE r == R(verdict)
    <3>2. /\ r.cost \in Nat /\ r.paid \in Nat /\ r.paid >= r.cost
          /\ r.action = "unavailable" => r.cost = 0
      BY Charges, UnavailableIsFree DEF Scans
    <3>3. /\ Inspected(r)
          /\ pc' = "reply" => \/ todo' = IncurSafety(r.cost)
                              \/ r.action = "unavailable" /\ todo' = <<>>
      BY <3>1
    <3> HIDE DEF r, R
    <3>4. /\ spent' \in [{"classifier", "forgotten", "model"} -> Nat] /\ spent'.model = 0
          /\ Net' = 0 + r.cost /\ Known' = 0 + r.cost
      BY <2>2, <3>2, <3>3, InspectedCost
    <3>5. Net' >= 0 /\ r.cost = Known'  BY <3>2, <3>4
    <3>6. CASE pc' = "reply"
      <4>1. todo' = IncurSafety(r.cost) \/ (r.cost = 0 /\ Plain(todo'))
        BY <3>2, <3>3, <3>6, PlainLists
      <4> QED BY <2>1, <3>2, <3>4, <3>5, <3>6, <4>1, JudgedMoney
    <3>7. CASE pc' # "reply"
      <4>1. pc' = "guard"  BY <2>1, <3>7
      <4> QED BY <2>1, <3>5, <4>1, GoesOnMoney
    <3> QED BY <3>6, <3>7
  <2> QED BY <2>3, <2>4
<1>12. ASSUME RunInputSafety PROVE MoneyInv'
  <2> DEFINE R(v, s) == InspectInput(call.guard, plan, text, Req.image, s, v)
  <2>1. PICK verdict \in Verdicts, scan \in Scans :
          /\ Inspected(R(verdict, scan))
          /\ \/ pc' \in {"hold", "reserve_path"}
             \/ /\ pc' = "reply"
                /\ todo' = IncurSafety(safety + R(verdict, scan).cost)
                           \o RejectionRow("safety_blocked", safety + R(verdict, scan).cost)
             \/ /\ pc' = "reply" /\ R(verdict, scan).action = "unavailable"
                /\ todo' = IncurSafety(safety)
             \/ pc' = "reply" /\ reply' = Crash /\ todo' = <<>>
    BY <1>12 DEF RunInputSafety, Answer, Following, FlatOrder, PathOrder
  <2>2. /\ pc = "guard" /\ UNCHANGED <<call, books, catching, faults>>
    BY <1>12 DEF RunInputSafety, At
  <2> DEFINE r == R(verdict, scan)
  <2>3. /\ r.cost \in Nat /\ r.paid \in Nat /\ r.paid >= r.cost
        /\ r.action = "unavailable" => r.cost = 0
    BY Charges, UnavailableIsFree
  <2>4. /\ Inspected(r)
        /\ \/ pc' \in {"hold", "reserve_path"}
           \/ pc' = "reply" /\ \/ todo' = IncurSafety(safety + r.cost)
                                         \o RejectionRow("safety_blocked", safety + r.cost)
                               \/ r.action = "unavailable" /\ todo' = IncurSafety(safety)
                               \/ reply' = Crash /\ todo' = <<>>
    BY <2>1
  <2> HIDE DEF r, R
  <2>5. /\ safety \in Nat /\ Net = safety /\ spent.model = 0
        /\ spent \in [{"classifier", "forgotten", "model"} -> Nat]
    BY <2>2 DEF CoverInv, AuditInv
  <2> DEFINE cost == safety + r.cost
  <2>6. /\ spent' \in [{"classifier", "forgotten", "model"} -> Nat] /\ spent'.model = 0
        /\ Net' = cost /\ Known' = cost
    BY <2>3, <2>4, <2>5, InspectedCost
  <2>7. /\ cost \in Nat /\ Net' >= 0
        /\ r.action = "unavailable" => cost = safety
    BY <2>3, <2>5, <2>6
  <2>8. CASE pc' \in {"hold", "reserve_path"}
    BY <2>2, <2>7, <2>8, GoesOnMoney
  <2>9. CASE pc' = "reply" /\ reply' = Crash /\ todo' = <<>>
    BY <2>2, <2>6, <2>7, <2>9, CrashedMoney
  <2>10. CASE /\ pc' = "reply"
             /\ \/ todo' = IncurSafety(cost) \o RejectionRow("safety_blocked", cost)
                \/ r.action = "unavailable" /\ todo' = IncurSafety(safety)
    <3>1. \/ todo' = IncurSafety(cost)
          \/ \E t : Plain(t) /\ todo' = IncurSafety(cost) \o t
      BY <2>7, <2>10, PlainLists
    <3> HIDE DEF cost
    <3> QED BY <2>2, <2>6, <2>7, <2>10, <3>1, JudgedMoney
  <2> QED BY <2>4, <2>8, <2>9, <2>10
\* The reservation.
<1>13. ASSUME ReserveFlatHold PROVE MoneyInv'
  <2> DEFINE jobs == IncurSafety(safety) \o Row("failed", safety, AuditUnavailable(TRUE))
  <2>1. AcquireCreditHold(decision.estimate + safety, jobs)
    BY <1>13 DEF ReserveFlatHold
  <2>2. Plain(Row("failed", safety, AuditUnavailable(TRUE)))  BY PlainLists, RepliesMade
  <2>3. \E t : Plain(t) /\ jobs = IncurSafety(safety) \o t  BY <2>2
  <2> HIDE DEF jobs
  <2> QED BY <2>1, <2>3, HoldMoney
<1>14. ASSUME ReserveFlatLease PROVE MoneyInv'
  <2> DEFINE jobs == IncurSafety(safety) \o RejectionRow("failed", safety)
  <2>1. ReserveBudget(jobs)
    BY <1>14 DEF ReserveFlatLease
  <2>2. Plain(RejectionRow("failed", safety))  BY PlainLists, RepliesMade
  <2>3. \E t : Plain(t) /\ jobs = IncurSafety(safety) \o t  BY <2>2
  <2> HIDE DEF jobs
  <2> QED BY <2>1, <2>3, LeaseMoney
<1>15. ASSUME ReserveEmbeddingHold PROVE MoneyInv'
  <2>1. AcquireCreditHold(decision.estimate, RejectionRow("failed", 0))
    BY <1>15 DEF ReserveEmbeddingHold
  <2>2. Plain(RejectionRow("failed", 0))  BY PlainLists
  <2>3. safety = 0  BY <1>15, Surfaces DEF ReserveEmbeddingHold, CoverInv
  <2> QED BY <2>1, <2>2, <2>3, HoldMoney
<1>16. ASSUME ReserveEmbeddingLease PROVE MoneyInv'
  <2>1. ReserveBudget(RejectionRow("failed", 0))
    BY <1>16 DEF ReserveEmbeddingLease
  <2>2. Plain(RejectionRow("failed", 0))  BY PlainLists
  <2>3. safety = 0  BY <1>16, Surfaces DEF ReserveEmbeddingLease, CoverInv
  <2> QED BY <2>1, <2>2, <2>3, LeaseMoney
<1>17. ASSUME ReserveDocumentHold PROVE MoneyInv'
  <2>1. AcquireCreditHold(EstimatedPages * PageRate, RejectionRow("failed", 0))
    BY <1>17 DEF ReserveDocumentHold
  <2>2. Plain(RejectionRow("failed", 0))  BY PlainLists
  <2>3. safety = 0  BY <1>17, Surfaces DEF ReserveDocumentHold, CoverInv
  <2> QED BY <2>1, <2>2, <2>3, HoldMoney
<1>18. ASSUME ReserveDocumentLease PROVE MoneyInv'
  <2>1. ReserveBudget(RejectionRow("failed", 0))
    BY <1>18 DEF ReserveDocumentLease
  <2>2. Plain(RejectionRow("failed", 0))  BY PlainLists
  <2>3. safety = 0  BY <1>18, Surfaces DEF ReserveDocumentLease, CoverInv
  <2> QED BY <2>1, <2>2, <2>3, LeaseMoney
<1>19. ASSUME ReserveHierarchical PROVE MoneyInv'
  <2>1. pc = "reserve_path" /\ UNCHANGED <<call, books, spent, safety, catching, faults>>
    BY <1>19 DEF ReserveHierarchical, At
  <2>2. CASE pc' = "reply"
    <3> DEFINE row == RejectionRow("failed", safety)
    <3>1. todo' = IncurSafety(safety) \o row
      BY <1>19, <2>1, <2>2 DEF ReserveHierarchical, Answer
    <3>2. Plain(row)  BY PlainLists
    <3> HIDE DEF row
    <3> QED BY <2>1, <2>2, <3>1, <3>2, IncurredMoney
  <2>3. CASE pc' # "reply"
    <3>1. pc' = "call"  BY <1>19, <2>1, <2>3 DEF ReserveHierarchical, Answer
    <3>2. Net' >= 0  BY <2>1 DEF Net, MoneyInv
    <3> QED BY <2>1, <3>1, <3>2, GoesOnMoney
  <2> QED BY <2>2, <2>3
\* The provider fails, or falls back.
<1>20. ASSUME ProviderFails PROVE MoneyInv'
  <2>1. /\ pc \in {"call", "call_fallback"} /\ pc' = "reply"
        /\ UNCHANGED <<call, books, spent, safety, hold, faults>>
        /\ catching' = "none"
        /\ todo' = ReleaseWithSafety \o RejectionRow("failed", safety)
    BY <1>20 DEF ProviderFails, At, Answer
  <2>2. NeedsHold => hold # None
    <3>1. NeedsHold => hold = reserved  BY <2>1 DEF CoverInv, Held
    <3> QED BY <3>1, NoneIsNoNumber DEF CoverInv
  <2>3. \E t : Plain(t) /\ todo' = ReleaseWithSafety \o t  BY <2>1, PlainLists
  <2> QED BY <2>1, <2>2, <2>3, ReleasedMoney
<1>21. ASSUME EmbeddingFails PROVE MoneyInv'
  <2>1. /\ pc \in {"call", "call_fallback"} /\ pc' = "reply"
        /\ UNCHANGED <<call, books, spent, safety, hold, faults>>
        /\ catching' = catching
        /\ todo' = ReleaseWithSafety \o RejectionRow("failed", 0)
    BY <1>21 DEF EmbeddingFails, At, Answer
  <2>2. NeedsHold => hold # None
    <3>1. NeedsHold => hold = reserved  BY <2>1 DEF CoverInv, Held
    <3> QED BY <3>1, NoneIsNoNumber DEF CoverInv
  <2>3. \E t : Plain(t) /\ todo' = ReleaseWithSafety \o t  BY <2>1, PlainLists
  <2> QED BY <2>1, <2>2, <2>3, ReleasedMoney
<1>22. ASSUME ExtractFails PROVE MoneyInv'
  <2>1. /\ pc \in {"call", "call_fallback"} /\ pc' = "reply"
        /\ UNCHANGED <<call, books, spent, safety, hold, faults>>
        /\ catching' = catching
        /\ todo' = ReleaseWithSafety \o RejectionRow("failed", 0)
    BY <1>22 DEF ExtractFails, At, Answer
  <2>2. NeedsHold => hold # None
    <3>1. NeedsHold => hold = reserved  BY <2>1 DEF CoverInv, Held
    <3> QED BY <3>1, NoneIsNoNumber DEF CoverInv
  <2>3. \E t : Plain(t) /\ todo' = ReleaseWithSafety \o t  BY <2>1, PlainLists
  <2> QED BY <2>1, <2>2, <2>3, ReleasedMoney
<1>23. ASSUME StreamReleased PROVE MoneyInv'
  <2>1. /\ pc \in {"first"} /\ pc' = "reply"
        /\ UNCHANGED <<call, books, spent, safety, hold, faults>>
        /\ catching' = "stream"
        /\ todo' = ReleaseWithSafety
    BY <1>23 DEF StreamReleased, At, Answer
  <2>2. NeedsHold => hold # None
    <3>1. NeedsHold => hold = reserved  BY <2>1 DEF CoverInv, Held
    <3> QED BY <3>1, NoneIsNoNumber DEF CoverInv
  <2> QED BY <2>1, <2>2, ReleasedMoney
<1>24. ASSUME ProviderFallsBack PROVE MoneyInv'
  <2>1. /\ pc = "call" /\ UNCHANGED <<call, books, spent, safety, reserved, hold, faults>>
        /\ catching' = "inner" /\ ~IsDocument
    BY <1>24 DEF ProviderFallsBack, At, IsDocument, IsChat
  <2>2. NeedsHold => hold # None
    <3>1. NeedsHold => hold = reserved  BY <2>1 DEF CoverInv, Held
    <3> QED BY <3>1, NoneIsNoNumber DEF CoverInv
  <2>3. CASE pc' = "reply"
    <3>1. todo' = ReleaseWithSafety \o RejectionRow("failed", safety)
      BY <1>24, <2>1, <2>3 DEF ProviderFallsBack, Answer
    <3>2. \E t : Plain(t) /\ todo' = ReleaseWithSafety \o t  BY <3>1, PlainLists
    <3> QED BY <2>1, <2>2, <2>3, <3>2, ReleasedMoney
  <2>4. CASE pc' # "reply"
    <3>1. pc' \in {"grow_hold", "call_fallback"}
      BY <1>24, <2>1, <2>4 DEF ProviderFallsBack, Answer
    <3>2. Net' >= 0  BY <2>1 DEF Net, MoneyInv
    <3>3. reserved' >= safety'
      <4>1. Decided  BY <2>1 DEF Decided
      <4> QED BY <2>1, <4>1 DEF CoverInv, Priced, DecidedWell
    <3> QED BY <2>1, <3>1, <3>2, <3>3, GoesOnMoney
  <2> QED BY <2>3, <2>4
<1>25. ASSUME EmbeddingFallsBack PROVE MoneyInv'
  <2>1. /\ pc = "call" /\ UNCHANGED <<call, books, spent, safety, reserved, hold, faults>>
        /\ catching' = catching /\ ~IsDocument
    BY <1>25 DEF EmbeddingFallsBack, At, IsDocument, IsEmbeddings
  <2>2. NeedsHold => hold # None
    <3>1. NeedsHold => hold = reserved  BY <2>1 DEF CoverInv, Held
    <3> QED BY <3>1, NoneIsNoNumber DEF CoverInv
  <2>3. CASE pc' = "reply"
    <3>1. todo' = ReleaseWithSafety \o RejectionRow("failed", 0)
      BY <1>25, <2>1, <2>3 DEF EmbeddingFallsBack, Answer
    <3>2. \E t : Plain(t) /\ todo' = ReleaseWithSafety \o t  BY <3>1, PlainLists
    <3> QED BY <2>1, <2>2, <2>3, <3>2, ReleasedMoney
  <2>4. CASE pc' # "reply"
    <3>1. pc' \in {"grow_hold", "call_fallback"}
      BY <1>25, <2>1, <2>4 DEF EmbeddingFallsBack, Answer
    <3>2. Net' >= 0  BY <2>1 DEF Net, MoneyInv
    <3>3. reserved' >= safety'
      <4>1. Decided  BY <2>1 DEF Decided
      <4> QED BY <2>1, <4>1 DEF CoverInv, Priced, DecidedWell
    <3> QED BY <2>1, <3>1, <3>2, <3>3, GoesOnMoney
  <2> QED BY <2>3, <2>4
\* A fallback dearer than what is held.
<1>26. ASSUME GrowChatHold PROVE MoneyInv'
  <2>1. GrowHold(RejectionRow("failed", safety))  BY <1>26 DEF GrowChatHold
  <2>2. Plain(RejectionRow("failed", safety))  BY PlainLists
  <2> QED BY <2>1, <2>2, GrowHoldMoney
<1>27. ASSUME GrowChatLease PROVE MoneyInv'
  <2>1. GrowLease(RejectionRow("failed", safety))  BY <1>27 DEF GrowChatLease
  <2>2. Plain(RejectionRow("failed", safety))  BY PlainLists
  <2> QED BY <2>1, <2>2, GrowLeaseMoney
<1>28. ASSUME GrowChatThrows PROVE MoneyInv'
  <2>1. \E with : GrowThrows(with, RejectionRow("failed", safety))  BY <1>28 DEF GrowChatThrows
  <2>2. Plain(RejectionRow("failed", safety))  BY PlainLists
  <2> QED BY <2>1, <2>2, GrowThrowsMoney
<1>29. ASSUME GrowEmbeddingHold PROVE MoneyInv'
  <2>1. GrowHold(RejectionRow("failed", 0))  BY <1>29 DEF GrowEmbeddingHold
  <2>2. Plain(RejectionRow("failed", 0))  BY PlainLists
  <2> QED BY <2>1, <2>2, GrowHoldMoney
<1>30. ASSUME GrowEmbeddingLease PROVE MoneyInv'
  <2>1. GrowLease(RejectionRow("failed", 0))  BY <1>30 DEF GrowEmbeddingLease
  <2>2. Plain(RejectionRow("failed", 0))  BY PlainLists
  <2> QED BY <2>1, <2>2, GrowLeaseMoney
<1>31. ASSUME GrowEmbeddingThrows PROVE MoneyInv'
  <2>1. \E with : GrowThrows(with, RejectionRow("failed", 0))  BY <1>31 DEF GrowEmbeddingThrows
  <2>2. Plain(RejectionRow("failed", 0))  BY PlainLists
  <2> QED BY <2>1, <2>2, GrowThrowsMoney
\* The model has answered.
<1>32. ASSUME ProviderAnswers PROVE MoneyInv'
  <2> DEFINE c == Hierarchical \/ ~CreditsOnly
  <2>1. /\ pc \in {"call", "call_fallback"} /\ pc' = "answer" /\ ~IsStream
        /\ UNCHANGED <<call, books, faults, safety, lease, hold>> /\ catching' = "none"
        /\ todo' = JobIf(c, "settleLease", spent'.model + safety)
    BY <1>32 DEF ProviderAnswers, ModelRan, At, IsStream
  <2>2. c <=> NeedsLease  BY DEF NeedsLease
  <2> HIDE DEF c
  <2> QED BY <2>1, <2>2, AnsweredMoney
<1>33. ASSUME ExtractAnswers PROVE MoneyInv'
  <2> DEFINE c == ~CreditsOnly
  <2>1. /\ pc = "call" /\ pc' = "answer" /\ ~IsStream /\ IsDocument
        /\ UNCHANGED <<call, books, faults, safety, lease, hold, catching>>
        /\ todo' = JobIf(c, "settleLease", spent'.model)
    BY <1>33 DEF ExtractAnswers, At, IsStream, IsDocument
  <2>2. (c <=> NeedsLease) /\ safety = 0
    BY <2>1, Surfaces DEF NeedsLease, CoverInv
  <2>3. spent'.model + safety = spent'.model
    <3>1. spent' \in [{"classifier", "forgotten", "model"} -> Nat]  BY DEF AuditInv
    <3> QED BY <2>2, <3>1
  <2> HIDE DEF c
  <2> QED BY <2>1, <2>2, <2>3, AnsweredMoney
<1>34. ASSUME EmbeddingAnswers PROVE MoneyInv'
  <2> DEFINE c == ~CreditsOnly
             d == UsesCredits \/ UsesMeter
             usd == spent'.model
             lost == Final(503, "audit_unavailable")
  <2>1. /\ pc \in {"call", "call_fallback"} /\ pc' = "reply" /\ IsEmbeddings
        /\ UNCHANGED <<call, books, faults, safety, lease, hold, reserved, catching>>
        /\ todo' = JobIf(c, "settleLease", usd) \o Row("ok", usd, lost)
                   \o JobIf(d, "settleBilling", usd)
        /\ spent'.classifier = spent.classifier /\ spent'.forgotten = spent.forgotten
    BY <1>34 DEF EmbeddingAnswers, At, Answer, ModelRan, AuditInv
  <2>2. /\ c <=> NeedsLease
        /\ safety = 0 /\ ~IsStream /\ pc \in Held
    BY <2>1, Surfaces DEF NeedsLease, CoverInv, IsChat, Held
  <2>3. spent' \in [{"classifier", "forgotten", "model"} -> Nat]  BY DEF AuditInv
  <2>4. usd = spent'.model + safety  BY <2>2, <2>3
  <2>5. lost \in Replies \union {None}
    <3>1. "audit_unavailable" \in Codes  BY DEF Codes
    <3> QED BY <3>1, RepliesMade
  <2>6. d <=> UsesCredits \/ UsesMeter  OBVIOUS
  <2> HIDE DEF c, d, usd, lost
  <2> QED BY <2>1, <2>2, <2>3, <2>4, <2>5, <2>6, SettledMoney
<1>35. ASSUME StreamEnds \/ StreamCut PROVE MoneyInv'
  <2> DEFINE c == Hierarchical \/ ~CreditsOnly
             d == UsesCredits \/ UsesMeter
             usd == spent'.model + safety
  <2>0. PICK outcome, reported : /\ reported \in call.reports \/ reported = None
                                /\ \E p \in Produced : SettleStream(reported, p, outcome)
    BY <1>35, Zenon DEF StreamEnds, StreamCut
  <2>1. PICK produced \in Produced : SettleStream(reported, produced, outcome)
    BY <2>0
  <2>2. /\ pc = "stream" /\ pc' = "reply" /\ catching' = "stream"
        /\ UNCHANGED <<call, books, faults, safety, lease, hold, reserved>>
        /\ todo' = JobIf(c, "settleLease", usd) \o Row("ok", usd, None)
                   \o JobIf(d, "settleBilling", usd)
        /\ spent' = [spent EXCEPT !.model = StreamCost(reported, produced)]
    BY <1>35, <2>1 DEF StreamEnds, StreamCut, SettleStream, At, Answer
  <2>3. /\ spent' \in [{"classifier", "forgotten", "model"} -> Nat]
        /\ spent'.classifier = spent.classifier /\ spent'.forgotten = spent.forgotten
        /\ spent'.model = StreamCost(reported, produced)
        /\ pc \in Held
    BY <2>2 DEF AuditInv, Held
  <2>4. c <=> NeedsLease  BY DEF NeedsLease
  <2>5. IsStream /\ call.reports = {None} => usd <= reserved
    <3> SUFFICES ASSUME IsStream, call.reports = {None} PROVE usd <= reserved
      OBVIOUS
    <3>1. reported = None  BY <2>0
    <3>2. /\ safety \in Nat /\ reserved \in Nat /\ reserved >= safety
          /\ spent'.model \in Nat
      BY <2>2, <2>3 DEF CoverInv, AuditInv
    <3>3. decision.estimate \in Nat
      BY <2>2, Surfaces DEF CoverInv, Decided, DecidedWell, IsStream, IsChat
    <3>4. produced \in Nat  BY <2>1, <3>3 DEF Produced
    <3> QED BY <2>3, <3>1, <3>2, <3>4 DEF StreamCost
  <2>6. d <=> UsesCredits \/ UsesMeter  OBVIOUS
  <2>7. usd = spent'.model + safety  OBVIOUS
  <2> HIDE DEF c, d, usd
  <2> QED BY <2>2, <2>3, <2>4, <2>5, <2>6, <2>7, SettledMoney
<1>36. ASSUME ScreenAnswer PROVE MoneyInv'
  <2>1. /\ pc = "answer" /\ todo = <<>>
        /\ UNCHANGED <<call, books, faults, spent, safety, catching, lease, hold, reserved>>
    BY <1>36 DEF ScreenAnswer, At
  <2>2. AnswerBlocked \/ AnswerUnscreened \/ AnswerLost \/ \E r : AnswerServed(r)
    BY <1>36, Endings
  <2> DEFINE Over == \/ reply' = Crash /\ todo' = <<>>
                     \/ \E status : \E why \in Replies \union {None} :
                          todo' = Row(status, Actual, why) \o SettleBilling
  <2>3. Final(503, "audit_unavailable") \in Replies
    <3>1. "audit_unavailable" \in Codes  BY DEF Codes
    <3> QED BY <3>1, RepliesMade
  <2>4. ASSUME AnswerBlocked PROVE pc' = "reply" /\ Over
    BY <2>3, <2>4 DEF AnswerBlocked, Answer
  <2>5. ASSUME AnswerUnscreened PROVE pc' = "reply" /\ Over
    BY <2>3, <2>5 DEF AnswerUnscreened, Answer
  <2>6. ASSUME AnswerLost PROVE pc' = "reply" /\ Over
    BY <2>3, <2>6 DEF AnswerLost, Answer
  <2>7. ASSUME NEW r, AnswerServed(r) PROVE pc' = "reply" /\ Over
    BY <2>3, <2>7 DEF AnswerServed, Answer
  <2>8. pc' = "reply" /\ Over  BY <2>2, <2>4, <2>5, <2>6, <2>7
  <2>9. \/ reply' = Crash /\ (todo' = <<>> \/ todo' = SettleBilling)
        \/ \E row : Plain(row) /\ todo' = row \o SettleBilling
    BY <2>8, PlainLists
  <2> QED BY <2>1, <2>8, <2>9, ScreenedMoney
<1>37. ASSUME ScreenDocument PROVE MoneyInv'
  <2>1. /\ pc = "answer" /\ todo = <<>>
        /\ UNCHANGED <<call, books, faults, spent, safety, catching, lease, hold, reserved>>
    BY <1>37 DEF ScreenDocument, At
  <2>2. DocumentBlocked \/ DocumentUnscreened \/ DocumentLost \/ \E r : DocumentServed(r)
    BY <1>37, Endings
  <2> DEFINE Over == \/ reply' = Crash /\ todo' = SettleBilling
                     \/ \E status : \E why \in Replies \union {None} :
                          todo' = Row(status, Actual, why) \o SettleBilling
  <2>3. Final(503, "audit_unavailable") \in Replies
    <3>1. "audit_unavailable" \in Codes  BY DEF Codes
    <3> QED BY <3>1, RepliesMade
  <2>4. ASSUME DocumentBlocked PROVE pc' = "reply" /\ Over
    BY <2>3, <2>4 DEF DocumentBlocked, Answer
  <2>5. ASSUME DocumentUnscreened PROVE pc' = "reply" /\ Over
    BY <2>3, <2>5 DEF DocumentUnscreened, Answer
  <2>6. ASSUME DocumentLost PROVE pc' = "reply" /\ Over
    BY <2>3, <2>6 DEF DocumentLost, Answer
  <2>7. ASSUME NEW r, DocumentServed(r) PROVE pc' = "reply" /\ Over
    BY <2>3, <2>7 DEF DocumentServed, Answer
  <2>8. pc' = "reply" /\ Over  BY <2>2, <2>4, <2>5, <2>6, <2>7
  <2>9. \/ reply' = Crash /\ (todo' = <<>> \/ todo' = SettleBilling)
        \/ \E row : Plain(row) /\ todo' = row \o SettleBilling
    BY <2>8, PlainLists
  <2> QED BY <2>1, <2>8, <2>9, ScreenedMoney
\* A stream goes on.
<1>38. ASSUME StreamOpens \/ FirstDelta PROVE MoneyInv'
  <2>1. /\ pc \in {"call", "first"} /\ pc' \in {"first", "stream"}
        /\ UNCHANGED <<call, spent, safety, catching, books, faults>>
    BY <1>38 DEF StreamOpens, FirstDelta, At
  <2>2. Net' >= 0  BY <2>1 DEF Net, MoneyInv
  <2> QED BY <2>1, <2>2, GoesOnMoney
<1>39. ASSUME UNCHANGED vars PROVE MoneyInv'
  BY <1>39, SameSpend, SameLedgers DEF vars, MoneyInv, ExtraDue, Nothing, Owed, Bound, Backed,
     Sound, Crashed, Balance
<1> QED BY <1>1, <1>2, <1>3, <1>4, <1>5, <1>6, <1>7, <1>8, <1>9, <1>10, <1>11, <1>12,
     <1>13, <1>14, <1>15, <1>16, <1>17, <1>18, <1>19, <1>20, <1>21, <1>22, <1>23, <1>24,
     <1>25, <1>26, <1>27, <1>28, <1>29, <1>30, <1>31, <1>32, <1>33, <1>34, <1>35, <1>36,
     <1>37, <1>38, <1>39
     DEF Next, LedgerNext, ChatNext, EmbeddingsNext, DocumentsNext

(***************************************************************************)
(* What the type invariant says and no invariant above does.               *)
(***************************************************************************)
Amounts == Nat \union {None}

TypeInv ==
  /\ text \subseteq Entities /\ delivered \subseteq Entities
  /\ lease \in Amounts /\ hold \in Amounts
  /\ Len(faults) <= MaxFaults
  /\ pc = "reply" => reply \in Replies

\* Every reply a handler makes.
LEMMA Outcomes ==
  /\ \A code \in {"ai_requests_paused", "safety_unavailable", "budget_unavailable"} :
       Refuse(503, code) \in Replies
  /\ \A code \in {"unknown_name", "unsupported", "invalid_request", "grounding_context_rejected"} :
       Refuse(400, code) \in Replies
  /\ \A code \in {"policy_blocked", "budget_exceeded", "safety_blocked"} :
       Refuse(403, code) \in Replies
  /\ Refuse(402, "insufficient_credits") \in Replies /\ Refuse(501, "not_implemented") \in Replies
  /\ Refuse(502, "provider_unavailable") \in Replies /\ Refuse(0, "client_gone") \in Replies
  /\ Final(200, "ok") \in Replies /\ Final(200, "interrupted") \in Replies
  /\ Final(403, "safety_blocked") \in Replies /\ Final(503, "safety_unavailable") \in Replies
  /\ Final(502, "upstream_rejected") \in Replies
  /\ Crash \in Replies
BY RepliesMade DEF Codes

\* The guard only takes away from a text.
LEMMA ScreenedIsLess ==
  ASSUME NEW guard, NEW pl, NEW tx, NEW scan \in Scans
  PROVE  ScreenText(guard, pl, tx, scan).text \subseteq tx
BY DEF ScreenText, Processed, Scans

\* A text the input screen lets through holds nothing new.
LEMMA InputIsLess ==
  ASSUME NEW guard, NEW pl, NEW tx, NEW image, NEW scan \in Scans, NEW verdict \in Verdicts,
         InspectInput(guard, pl, tx, image, scan, verdict).action = "allow"
  PROVE  InspectInput(guard, pl, tx, image, scan, verdict).text \subseteq tx
<1> DEFINE screened == ScreenText(guard, pl, tx, scan)
           r == InspectInput(guard, pl, tx, image, scan, verdict)
<1>1. r.text = tx \/ r.text = screened.text
  <2> HIDE DEF Verdicts
  <2> QED BY DEF InspectInput, Verdicts
<1>2. screened.text \subseteq tx  BY ScreenedIsLess
<1> HIDE DEF screened, r
<1> QED BY <1>1, <1>2 DEF r

\* Nor does one that passed the output screen.
LEMMA OutputIsLess ==
  ASSUME NEW guard, NEW pl, NEW tx, NEW scan \in Scans
  PROVE  InspectOutput(guard, pl, tx, scan).text \subseteq tx
BY ScreenedIsLess DEF InspectOutput

\* Nor does an answer, structured or grounded or plain.
LEMMA AnswerIsLess ==
  ASSUME NEW content, NEW json, NEW answer, NEW scan \in Scans
  PROVE  Answers(content, json, answer)[scan].text \subseteq content
<1> DEFINE verified == IF plan.grounding # "strict" THEN content
                       ELSE IF VerifyGrounding(answer, Feature.citesPages) THEN content ELSE {}
           structured == Req.format # "text" /\ json /\ plan.grounding # "strict"
           r == Answers(content, json, answer)[scan]
<1>1. r = IF structured THEN MaskStructuredOutput(call.guard, plan, verified, scan)
          ELSE InspectOutput(call.guard, plan, verified, scan)
  BY DEF Answers
<1>2. verified \subseteq content  OBVIOUS
<1> HIDE DEF verified, structured, r
<1>3. InspectOutput(call.guard, plan, verified, scan).text \subseteq verified  BY OutputIsLess
<1>4. MaskStructuredOutput(call.guard, plan, verified, scan).text \subseteq verified
  BY <1>3 DEF MaskStructuredOutput
<1>5. r.text \subseteq content  BY <1>1, <1>2, <1>3, <1>4
<1> QED BY <1>5 DEF r

\* Nor does the extract of a document.
LEMMA ExtractIsLess ==
  ASSUME NEW content, NEW values \in SUBSET content, NEW scan \in Scans, NEW again \in Scans
  PROVE  ScreenExtract(content, values, scan, again).text \subseteq content
<1> DEFINE first == InspectOutput(call.guard, plan, content, scan)
           second == InspectOutput(call.guard, plan, values, again)
           r == ScreenExtract(content, values, scan, again)
<1>1. r = IF first.action # "allow" THEN first
          ELSE IF ~PlanCanMask \/ values = {}
               THEN [action |-> "allow", text |-> first.text \union values]
          ELSE IF ~call.guard.batch THEN [action |-> "allow", text |-> first.text]
          ELSE IF second.action # "allow" THEN second
          ELSE [action |-> "allow", text |-> first.text \union second.text]
  BY DEF ScreenExtract
<1>2. first.text \subseteq content /\ second.text \subseteq values  BY OutputIsLess
<1> HIDE DEF first, second, r
<1>3. \/ r.text = first.text \/ r.text = first.text \union values
      \/ r.text = second.text \/ r.text = first.text \union second.text
  BY <1>1
<1>4. r.text \subseteq content  BY <1>2, <1>3
<1> QED BY <1>4 DEF r

\* One failure more is still one the model allows.
LEMMA FaultsBounded ==
  ASSUME IsSeq(faults), NEW op, Fault(op)
  PROVE  Len(faults') <= MaxFaults
<1>1. /\ IsSeq(<<op>>) /\ Len(<<op>>) = 1 /\ Append(faults, op) = faults \o <<op>>
      /\ Len(faults) \in Nat
  BY DEF IsSeq, Range
<1> DEFINE S == Range(faults) \union {op}
<1>2. faults \in Seq(S) /\ <<op>> \in Seq(S)  BY DEF IsSeq
<1> HIDE DEF S
<1>3. Len(faults \o <<op>>) = Len(faults) + 1  BY <1>1, <1>2
<1> QED BY <1>1, <1>3, LedgerConstants DEF Fault

\* A step that leaves text, amounts and failures as they are.
LEMMA RepliesOnly ==
  ASSUME TypeInv, UNCHANGED <<text, delivered, lease, hold, faults>>,
         pc' = "reply" => reply' \in Replies
  PROVE  TypeInv'
BY DEF TypeInv

\* No step leaves the types behind.
LEMMA TypeStep ==
  ASSUME IsSeq(todo), ApprovedInv, CoverInv, CoverInv', ResolveInv, MoneyInv, TypeInv, [Next]_vars
  PROVE  TypeInv'
<1>0. pc' \in {"call_fallback", "grow_lease"} => lease' \in Amounts /\ hold' \in Amounts
  <2>1. reserved' \in Nat /\ safety' \in Nat  BY DEF CoverInv
  <2>2. ASSUME pc' = "grow_lease" PROVE (reserved + Extra)' \in Nat
    <3>1. decision'.estimate \in Nat  BY <2>2 DEF CoverInv, Decided, DecidedWell
    <3> QED BY <2>1, <3>1 DEF Extra
  <2> QED BY <2>1, <2>2 DEF CoverInv, Held, Amounts
<1>1. ASSUME Debit \/ Book \/ FreeLease \/ FreeHold \/ SettleLease
             \/ SettleBillingDone \/ WriteAudit
      PROVE  TypeInv'
  BY <1>1 DEF TypeInv, Amounts, Debit, Book, FreeLease, FreeHold, SettleLease, SettleBillingDone,
     WriteAudit, Done, Keep
<1>2. ASSUME ReturnHold
      PROVE  TypeInv'
  <2>1. reserved \in Nat  BY DEF CoverInv
  <2>2. hold' \in Amounts
    <3>1. CASE Due("returnHold")
      <4>1. Owed("returnHold")  BY <3>1, HeadOwed DEF Due
      <4> QED BY <1>2, <4>1 DEF ReturnHold, MoneyInv, Usd, Amounts
    <3>2. CASE Due("returnExtra")
      <4>1. ExtraDue(todo)  BY <3>2, HeadOwed DEF Due
      <4>2. hold = reserved + Usd /\ Usd \in Int  BY <4>1 DEF MoneyInv, Usd
      <4>3. hold - Usd = reserved  BY <2>1, <4>2
      <4> QED BY <1>2, <2>1, <4>3 DEF ReturnHold, Amounts
    <3> QED BY <1>2, <3>1, <3>2 DEF ReturnHold
  <2> QED BY <1>2, <2>2 DEF TypeInv, ReturnHold, Done, Keep
<1>3. ASSUME OperationThrows
      PROVE  TypeInv'
  <2>1. Fault(Head(todo).do)  BY <1>3 DEF OperationThrows
  <2>2. Len(faults') <= MaxFaults  BY <2>1, FaultsBounded DEF ResolveInv
  <2>3. reply' \in Replies  BY <1>3, Outcomes DEF OperationThrows
  <2> QED BY <1>3, <2>2, <2>3 DEF TypeInv, OperationThrows
<1>4. ASSUME ReserveThrows
      PROVE  TypeInv'
  <2>1. Fault(pc)  BY <1>4 DEF ReserveThrows
  <2>2. Len(faults') <= MaxFaults  BY <2>1, FaultsBounded DEF ResolveInv
  <2> QED BY <1>4, <2>2, Outcomes DEF TypeInv, ReserveThrows
<1>5. ASSUME OperationIsLogged \/ StreamReleaseIsLogged
      PROVE  TypeInv'
  <2>1. Fault(Head(todo).do)  BY <1>5 DEF OperationIsLogged, StreamReleaseIsLogged
  <2>2. Len(faults') <= MaxFaults  BY <2>1, FaultsBounded DEF ResolveInv
  <2> QED BY <1>5, <2>2 DEF TypeInv, OperationIsLogged, StreamReleaseIsLogged, Keep
<1>6. ASSUME AuditFails
      PROVE  TypeInv'
  <2>1. Fault("audit")  BY <1>6 DEF AuditFails
  <2>2. Len(faults') <= MaxFaults  BY <2>1, FaultsBounded DEF ResolveInv
  <2>3. Head(todo).lost \in Replies \union {None}
    <3>1. Head(todo) \in Range(todo) /\ Head(todo).do = "audit"
      BY <1>6, TailOfJobs DEF AuditFails, Due
    <3> QED BY <3>1 DEF MoneyInv, Listed, Reasons
  <2>4. pc = "reply" => reply' \in Replies  BY <1>6, <2>3 DEF AuditFails, TypeInv
  <2> QED BY <1>6, <2>2, <2>4 DEF TypeInv, AuditFails, Keep
<1>7. ASSUME CheckPause
      PROVE  TypeInv'
  <2>1. /\ UNCHANGED <<text, delivered, lease, hold, faults>>
        /\ pc' = "reply" => reply' \in Replies
    BY <1>7, Outcomes DEF CheckPause, At, Answer
  <2> QED BY <2>1, RepliesOnly
<1>8. ASSUME EvaluateChat
      PROVE  TypeInv'
  <2>1. UNCHANGED <<text, delivered, lease, hold, faults>>  BY <1>8 DEF EvaluateChat
  <2>2. \/ pc' = Following("evaluate")
        \/ reply' \in {Refuse(400, "unknown_name"), Refuse(403, "policy_blocked"),
                     Refuse(400, "unsupported")}
    BY <1>8 DEF EvaluateChat, Answer
  <2>3. Following("evaluate") # "reply"
    BY <1>8 DEF EvaluateChat, At, CoverInv, Following, FlatOrder, PathOrder
  <2>4. pc' = "reply" => reply' \in Replies  BY <2>2, <2>3, Outcomes
  <2> QED BY <2>1, <2>4, RepliesOnly
<1>9. ASSUME LoadHierarchicalPath
      PROVE  TypeInv'
  <2>1. UNCHANGED <<text, delivered, lease, hold, faults>>  BY <1>9 DEF LoadHierarchicalPath
  <2>2. \/ pc' = Following("path")
        \/ reply' \in {Refuse(400, "unsupported"), Refuse(400, "invalid_request"),
                     Refuse(403, "budget_exceeded")}
    BY <1>9 DEF LoadHierarchicalPath, Answer
  <2>3. Following("path") # "reply"
    BY <1>9 DEF LoadHierarchicalPath, At, CoverInv, Following, FlatOrder, PathOrder
  <2>4. pc' = "reply" => reply' \in Replies  BY <2>2, <2>3, Outcomes
  <2> QED BY <2>1, <2>4, RepliesOnly
<1>10. ASSUME ScreenContext
      PROVE  TypeInv'
  <2>1. UNCHANGED <<text, delivered, lease, hold, faults>>  BY <1>10 DEF ScreenContext
  <2>2. \/ pc' = Following("screen")
        \/ reply' \in {Refuse(400, "grounding_context_rejected"), Refuse(503, "safety_unavailable")}
    BY <1>10 DEF ScreenContext, Answer
  <2>3. Following("screen") # "reply"
    BY <1>10 DEF ScreenContext, At, CoverInv, Following, FlatOrder, PathOrder
  <2>4. pc' = "reply" => reply' \in Replies  BY <2>2, <2>3, Outcomes
  <2> QED BY <2>1, <2>4, RepliesOnly
<1>11. ASSUME RunInputSafety
      PROVE  TypeInv'
  <2>1. PICK verdict \in Verdicts, scan \in Scans :
          LET r == InspectInput(call.guard, plan, text, Req.image, scan, verdict)
          IN /\ (r.action = "allow" /\ text' = r.text) \/ UNCHANGED text
             /\ pc' = "reply" => reply' \in Replies
    BY <1>11, Outcomes DEF RunInputSafety, Answer, Following, FlatOrder, PathOrder, At
  <2>2. text' \subseteq text  BY <2>1, InputIsLess
  <2> QED BY <1>11, <2>1, <2>2 DEF TypeInv, RunInputSafety
<1>12. ASSUME ReserveFlatHold
      PROVE  TypeInv'
  <2>1. /\ UNCHANGED <<text, delivered, lease, faults>>
        /\ pc' = "reply" => reply' \in Replies
        /\ pc' = "lease" \/ UNCHANGED hold
    BY <1>12, Outcomes DEF ReserveFlatHold, AcquireCreditHold, At, Answer
  <2>2. pc' = "lease" => hold' \in Amounts  BY DEF CoverInv, Amounts
  <2> QED BY <2>1, <2>2 DEF TypeInv
<1>13. ASSUME ReserveFlatLease
      PROVE  TypeInv'
  <2>1. /\ UNCHANGED <<text, delivered, hold, faults>>
        /\ pc' = "reply" => reply' \in Replies
        /\ pc' = "call" \/ UNCHANGED lease
    BY <1>13, Outcomes DEF ReserveFlatLease, ReserveBudget, At, Answer
  <2>2. pc' = "call" => lease' \in Amounts  BY DEF CoverInv, Amounts, Held
  <2> QED BY <2>1, <2>2 DEF TypeInv
<1>14. ASSUME ReserveHierarchical
      PROVE  TypeInv'
  <2>1. /\ UNCHANGED <<text, delivered, hold, faults>>
        /\ pc' = "reply" => reply' \in Replies
        /\ pc' = "call" \/ UNCHANGED lease
    BY <1>14, Outcomes DEF ReserveHierarchical, At, Answer
  <2>2. pc' = "call" => lease' \in Amounts  BY DEF CoverInv, Amounts, Held
  <2> QED BY <2>1, <2>2 DEF TypeInv
<1>15. ASSUME ProviderAnswers
      PROVE  TypeInv'
  <2>1. /\ UNCHANGED <<text, delivered, lease, hold, faults>>
        /\ pc' = "reply" => reply' \in Replies
    BY <1>15, Outcomes DEF ProviderAnswers, ModelRan, At
  <2> QED BY <2>1, RepliesOnly
<1>16. ASSUME ProviderFails
      PROVE  TypeInv'
  <2>1. /\ UNCHANGED <<text, delivered, lease, hold, faults>>
        /\ pc' = "reply" => reply' \in Replies
    BY <1>16, Outcomes DEF ProviderFails, At, Answer
  <2> QED BY <2>1, RepliesOnly
<1>17. ASSUME ProviderFallsBack
      PROVE  TypeInv'
  <2>1. UNCHANGED <<text, delivered, lease, hold, faults>>  BY <1>17 DEF ProviderFallsBack
  <2>2. \/ pc' \in {"grow_hold", "call_fallback"}
        \/ reply' \in {Refuse(403, "policy_blocked")}
    BY <1>17 DEF ProviderFallsBack, Answer
  <2>3. pc' = "reply" => reply' \in Replies  BY <2>2, Outcomes
  <2> QED BY <2>1, <2>3, RepliesOnly
<1>18. ASSUME GrowChatHold
      PROVE  TypeInv'
  <2>1. /\ UNCHANGED <<text, delivered, lease, faults>>
        /\ pc' = "reply" => reply' \in Replies
        /\ pc' \in {"call_fallback", "grow_lease"} \/ UNCHANGED hold
    BY <1>18, Outcomes DEF GrowChatHold, GrowHold, At, Answer
  <2>2. pc' \in {"call_fallback", "grow_lease"} => hold' \in Amounts  BY <1>0
  <2> QED BY <2>1, <2>2 DEF TypeInv
<1>19. ASSUME GrowChatLease
      PROVE  TypeInv'
  <2>1. /\ UNCHANGED <<text, delivered, hold, faults>>
        /\ pc' = "reply" => reply' \in Replies
        /\ pc' = "call_fallback" \/ UNCHANGED lease
    BY <1>19, Outcomes DEF GrowChatLease, GrowLease, At, Answer
  <2>2. pc' = "call_fallback" => lease' \in Amounts  BY <1>0
  <2> QED BY <2>1, <2>2 DEF TypeInv
<1>20. ASSUME GrowChatThrows
      PROVE  TypeInv'
  <2>1. /\ pc \in {"grow_hold", "grow_lease"} /\ Fault(pc)
        /\ hold' = IF pc = "grow_lease" /\ UsesCredits THEN hold - Extra ELSE hold
        /\ UNCHANGED <<text, delivered, lease>> /\ reply' \in Replies
    BY <1>20, Outcomes DEF GrowChatThrows, GrowThrows, At, Answer
  <2>2. Len(faults') <= MaxFaults  BY <2>1, FaultsBounded DEF ResolveInv
  <2>3. hold' \in Amounts
    <3>1. CASE pc = "grow_lease" /\ UsesCredits
      <4>1. /\ reserved \in Nat /\ safety \in Nat /\ hold = reserved + Extra
            /\ decision.estimate \in Nat
        BY <3>1 DEF CoverInv, NeedsHold, Decided, DecidedWell
      <4>2. hold - Extra = reserved  BY <4>1 DEF Extra
      <4> QED BY <2>1, <3>1, <4>1, <4>2 DEF Amounts
    <3>2. CASE ~(pc = "grow_lease" /\ UsesCredits)  BY <2>1, <3>2 DEF TypeInv
    <3> QED BY <3>1, <3>2
  <2> QED BY <2>1, <2>2, <2>3 DEF TypeInv
<1>21. ASSUME ScreenAnswer
      PROVE  TypeInv'
  <2>1. PICK content \in SUBSET Entities, json \in BOOLEAN, scan \in Scans,
             answer \in call.answers :
          LET r == Answers(content, json, answer)[scan]
          IN \/ AnswerServed(r.text) \/ AnswerBlocked \/ AnswerUnscreened \/ AnswerLost
    BY <1>21 DEF ScreenAnswer
  <2> DEFINE tx == Answers(content, json, answer)[scan].text
  <2>2. tx \subseteq Entities
    <3>1. tx \subseteq content  BY AnswerIsLess
    <3> QED BY <3>1
  <2>3. AnswerServed(tx) \/ AnswerBlocked \/ AnswerUnscreened \/ AnswerLost  BY <2>1
  <2> HIDE DEF tx
  <2>4. (delivered' = tx \/ UNCHANGED delivered) /\ reply' \in Replies
    BY <2>3, Outcomes DEF AnswerServed, AnswerBlocked, AnswerUnscreened, AnswerLost, Answer
  <2>5. UNCHANGED <<text, lease, hold, faults>>  BY <1>21 DEF ScreenAnswer
  <2> QED BY <2>2, <2>4, <2>5 DEF TypeInv
<1>22. ASSUME StreamOpens
      PROVE  TypeInv'
  <2>1. /\ UNCHANGED <<text, delivered, lease, hold, faults>>
        /\ pc' = "reply" => reply' \in Replies
    BY <1>22, Outcomes DEF StreamOpens, At
  <2> QED BY <2>1, RepliesOnly
<1>23. ASSUME StreamReleased
      PROVE  TypeInv'
  <2>1. /\ UNCHANGED <<text, delivered, lease, hold, faults>>
        /\ pc' = "reply" => reply' \in Replies
    BY <1>23, Outcomes DEF StreamReleased, At, Answer
  <2> QED BY <2>1, RepliesOnly
<1>24. ASSUME FirstDelta
      PROVE  TypeInv'
  BY <1>24 DEF FirstDelta, TypeInv
<1>25. ASSUME StreamEnds
      PROVE  TypeInv'
  <2>1. /\ UNCHANGED <<text, delivered, lease, hold, faults>>
        /\ pc' = "reply" => reply' \in Replies
    BY <1>25, Outcomes DEF StreamEnds, SettleStream, Answer
  <2> QED BY <2>1, RepliesOnly
<1>26. ASSUME StreamCut
      PROVE  TypeInv'
  <2>1. /\ UNCHANGED <<text, delivered, lease, hold, faults>>
        /\ pc' = "reply" => reply' \in Replies
    BY <1>26, Outcomes DEF StreamCut, SettleStream, Answer
  <2> QED BY <2>1, RepliesOnly
<1>27. ASSUME EvaluateEmbeddings
      PROVE  TypeInv'
  <2>1. UNCHANGED <<text, delivered, lease, hold, faults>>  BY <1>27 DEF EvaluateEmbeddings
  <2>2. \/ pc' \in {"guard"}
        \/ reply' \in {Refuse(400, "unknown_name"), Refuse(403, "policy_blocked")}
    BY <1>27 DEF EvaluateEmbeddings, Answer
  <2>3. pc' = "reply" => reply' \in Replies  BY <2>2, Outcomes
  <2> QED BY <2>1, <2>3, RepliesOnly
<1>28. ASSUME ScreenEmbeddings
      PROVE  TypeInv'
  <2> DEFINE R(scan) == InspectInput(call.guard, EmbeddingPlan, text, FALSE, scan, "safe")
  <2>1. \E scan \in Scans : \/ R(scan).action = "allow" /\ text' = R(scan).text
                            \/ UNCHANGED text
    BY <1>28, Zenon DEF ScreenEmbeddings
  <2>2. "safe" \in Verdicts  BY DEF Verdicts
  <2>3. text' \subseteq text
    <3>1. PICK scan \in Scans  :
           (R(scan).action = "allow" /\ text' = R(scan).text) \/ UNCHANGED text
      BY <2>1
    <3>2. R(scan).action = "allow" => R(scan).text \subseteq text
      BY <2>2, InputIsLess
    <3> HIDE DEF R
    <3> QED BY <3>1, <3>2
  <2>4. \/ pc' = "hold" \/ reply' = Crash
        \/ reply' = Refuse(403, "safety_blocked") \/ reply' = Refuse(503, "safety_unavailable")
    <3>1. \/ pc' = "hold" \/ Answer(Crash, <<>>)
          \/ Answer(Refuse(403, "safety_blocked"), RejectionRow("safety_blocked", 0))
          \/ Answer(Refuse(503, "safety_unavailable"), RejectionRow("failed", 0))
      BY <1>28, Zenon DEF ScreenEmbeddings
    <3> QED BY <3>1 DEF Answer
  <2>5. pc' = "reply" => reply' \in Replies  BY <2>4, Outcomes
  <2> QED BY <1>28, <2>3, <2>5 DEF TypeInv, ScreenEmbeddings
<1>29. ASSUME ReserveEmbeddingHold
      PROVE  TypeInv'
  <2>1. /\ UNCHANGED <<text, delivered, lease, faults>>
        /\ pc' = "reply" => reply' \in Replies
        /\ pc' = "lease" \/ UNCHANGED hold
    BY <1>29, Outcomes DEF ReserveEmbeddingHold, AcquireCreditHold, At, Answer
  <2>2. pc' = "lease" => hold' \in Amounts  BY DEF CoverInv, Amounts
  <2> QED BY <2>1, <2>2 DEF TypeInv
<1>30. ASSUME ReserveEmbeddingLease
      PROVE  TypeInv'
  <2>1. /\ UNCHANGED <<text, delivered, hold, faults>>
        /\ pc' = "reply" => reply' \in Replies
        /\ pc' = "call" \/ UNCHANGED lease
    BY <1>30, Outcomes DEF ReserveEmbeddingLease, ReserveBudget, At, Answer
  <2>2. pc' = "call" => lease' \in Amounts  BY DEF CoverInv, Amounts, Held
  <2> QED BY <2>1, <2>2 DEF TypeInv
<1>31. ASSUME EmbeddingAnswers
      PROVE  TypeInv'
  <2>1. /\ UNCHANGED <<text, delivered, lease, hold, faults>>
        /\ pc' = "reply" => reply' \in Replies
    BY <1>31, Outcomes DEF EmbeddingAnswers, ModelRan, At, Answer
  <2> QED BY <2>1, RepliesOnly
<1>32. ASSUME EmbeddingFails
      PROVE  TypeInv'
  <2>1. /\ UNCHANGED <<text, delivered, lease, hold, faults>>
        /\ pc' = "reply" => reply' \in Replies
    BY <1>32, Outcomes DEF EmbeddingFails, At, Answer
  <2> QED BY <2>1, RepliesOnly
<1>33. ASSUME EmbeddingFallsBack
      PROVE  TypeInv'
  <2>1. UNCHANGED <<text, delivered, lease, hold, faults>>  BY <1>33 DEF EmbeddingFallsBack
  <2>2. \/ pc' \in {"grow_hold", "call_fallback"}
        \/ reply' \in {Refuse(403, "policy_blocked")}
    BY <1>33 DEF EmbeddingFallsBack, Answer
  <2>3. pc' = "reply" => reply' \in Replies  BY <2>2, Outcomes
  <2> QED BY <2>1, <2>3, RepliesOnly
<1>34. ASSUME GrowEmbeddingHold
      PROVE  TypeInv'
  <2>1. /\ UNCHANGED <<text, delivered, lease, faults>>
        /\ pc' = "reply" => reply' \in Replies
        /\ pc' \in {"call_fallback", "grow_lease"} \/ UNCHANGED hold
    BY <1>34, Outcomes DEF GrowEmbeddingHold, GrowHold, At, Answer
  <2>2. pc' \in {"call_fallback", "grow_lease"} => hold' \in Amounts  BY <1>0
  <2> QED BY <2>1, <2>2 DEF TypeInv
<1>35. ASSUME GrowEmbeddingLease
      PROVE  TypeInv'
  <2>1. /\ UNCHANGED <<text, delivered, hold, faults>>
        /\ pc' = "reply" => reply' \in Replies
        /\ pc' = "call_fallback" \/ UNCHANGED lease
    BY <1>35, Outcomes DEF GrowEmbeddingLease, GrowLease, At, Answer
  <2>2. pc' = "call_fallback" => lease' \in Amounts  BY <1>0
  <2> QED BY <2>1, <2>2 DEF TypeInv
<1>36. ASSUME GrowEmbeddingThrows
      PROVE  TypeInv'
  <2>1. /\ pc \in {"grow_hold", "grow_lease"} /\ Fault(pc)
        /\ hold' = IF pc = "grow_lease" /\ UsesCredits THEN hold - Extra ELSE hold
        /\ UNCHANGED <<text, delivered, lease>> /\ reply' \in Replies
    BY <1>36, Outcomes DEF GrowEmbeddingThrows, GrowThrows, At, Answer
  <2>2. Len(faults') <= MaxFaults  BY <2>1, FaultsBounded DEF ResolveInv
  <2>3. hold' \in Amounts
    <3>1. CASE pc = "grow_lease" /\ UsesCredits
      <4>1. /\ reserved \in Nat /\ safety \in Nat /\ hold = reserved + Extra
            /\ decision.estimate \in Nat
        BY <3>1 DEF CoverInv, NeedsHold, Decided, DecidedWell
      <4>2. hold - Extra = reserved  BY <4>1 DEF Extra
      <4> QED BY <2>1, <3>1, <4>1, <4>2 DEF Amounts
    <3>2. CASE ~(pc = "grow_lease" /\ UsesCredits)  BY <2>1, <3>2 DEF TypeInv
    <3> QED BY <3>1, <3>2
  <2> QED BY <2>1, <2>2, <2>3 DEF TypeInv
<1>37. ASSUME EvaluateDocument
      PROVE  TypeInv'
  <2>1. UNCHANGED <<text, delivered, lease, hold, faults>>  BY <1>37 DEF EvaluateDocument
  <2>2. \/ pc' \in {"hold"}
        \/ reply' \in {Refuse(400, "invalid_request"), Refuse(400, "unknown_name"),
                      Refuse(403, "policy_blocked")}
    BY <1>37 DEF EvaluateDocument, Answer
  <2>3. pc' = "reply" => reply' \in Replies  BY <2>2, Outcomes
  <2> QED BY <2>1, <2>3, RepliesOnly
<1>38. ASSUME ReserveDocumentHold
      PROVE  TypeInv'
  <2>1. /\ UNCHANGED <<text, delivered, lease, faults>>
        /\ pc' = "reply" => reply' \in Replies
        /\ pc' = "lease" \/ UNCHANGED hold
    BY <1>38, Outcomes DEF ReserveDocumentHold, AcquireCreditHold, At, Answer
  <2>2. pc' = "lease" => hold' \in Amounts  BY DEF CoverInv, Amounts
  <2> QED BY <2>1, <2>2 DEF TypeInv
<1>39. ASSUME ReserveDocumentLease
      PROVE  TypeInv'
  <2>1. /\ UNCHANGED <<text, delivered, hold, faults>>
        /\ pc' = "reply" => reply' \in Replies
        /\ pc' = "call" \/ UNCHANGED lease
    BY <1>39, Outcomes DEF ReserveDocumentLease, ReserveBudget, At, Answer
  <2>2. pc' = "call" => lease' \in Amounts  BY DEF CoverInv, Amounts, Held
  <2> QED BY <2>1, <2>2 DEF TypeInv
<1>40. ASSUME ExtractAnswers
      PROVE  TypeInv'
  <2>1. /\ UNCHANGED <<text, delivered, lease, hold, faults>>
        /\ pc' = "reply" => reply' \in Replies
    BY <1>40, Outcomes DEF ExtractAnswers, At
  <2> QED BY <2>1, RepliesOnly
<1>41. ASSUME ExtractFails
      PROVE  TypeInv'
  <2>1. /\ UNCHANGED <<text, delivered, lease, hold, faults>>
        /\ pc' = "reply" => reply' \in Replies
    BY <1>41, Outcomes DEF ExtractFails, At, Answer
  <2> QED BY <2>1, RepliesOnly
<1>42. ASSUME ScreenDocument
      PROVE  TypeInv'
  <2>1. PICK values \in SUBSET text, scan \in Scans, again \in Scans :
          LET r == ScreenExtract(text, values, scan, again)
          IN \/ DocumentServed(r.text) \/ DocumentBlocked \/ DocumentUnscreened \/ DocumentLost
    BY <1>42 DEF ScreenDocument
  <2> DEFINE tx == ScreenExtract(text, values, scan, again).text
  <2>2. tx \subseteq text  BY ExtractIsLess
  <2>3. DocumentServed(tx) \/ DocumentBlocked \/ DocumentUnscreened \/ DocumentLost  BY <2>1
  <2> HIDE DEF tx
  <2>4. (delivered' = tx \/ UNCHANGED delivered) /\ reply' \in Replies
    BY <2>3, Outcomes DEF DocumentServed, DocumentBlocked, DocumentUnscreened, DocumentLost, Answer
  <2>5. UNCHANGED <<text, lease, hold, faults>>  BY <1>42 DEF ScreenDocument
  <2> QED BY <2>2, <2>4, <2>5 DEF TypeInv
<1>43. ASSUME UNCHANGED vars
      PROVE  TypeInv'
  BY <1>43 DEF vars, TypeInv
<1> QED BY <1>1, <1>2, <1>3, <1>4, <1>5, <1>6, <1>7, <1>8, <1>9, <1>10, <1>11, <1>12,
     <1>13, <1>14, <1>15, <1>16, <1>17, <1>18, <1>19, <1>20, <1>21, <1>22, <1>23, <1>24,
     <1>25, <1>26, <1>27, <1>28, <1>29, <1>30, <1>31, <1>32, <1>33, <1>34, <1>35, <1>36,
     <1>37, <1>38, <1>39, <1>40, <1>41, <1>42, <1>43
     DEF Next, LedgerNext, ChatNext, EmbeddingsNext, DocumentsNext

\* What every part of the bookkeeping needs of the others.
BookInv ==
  /\ IsSeq(todo) /\ ApprovedInv /\ CoverInv /\ ResolveInv /\ AuditInv
  /\ MoneyInv /\ TypeInv

\* An empty list is in order, and books nothing.
LEMMA NothingIsListed == Listed(<<>>) /\ \A K : Never(<<>>, K)
<1>1. \A K : Never(<<>>, K)  BY NoJobs
<1>2. Reasons(<<>>)  BY ReasonsOf
<1>3. \A K : Leaves(<<>>, K, 0)  BY <1>1 DEF Leaves
<1>4. 0 \in Nat  OBVIOUS
<1> QED BY <1>1, <1>2, <1>3, <1>4 DEF Listed, Apart

\* The books of a call that begins.
LEMMA BooksOpen ==
  ASSUME CallInit
  PROVE  BookInv
<1>1. ApprovedInv /\ CoverInv  BY CoversAtFirst
<1>2. /\ todo = <<>> /\ faults = <<>> /\ pc = "pause" /\ lease = None /\ hold = None
      /\ catching = "none" /\ trail = <<>> /\ safety = 0
      /\ spent = [classifier |-> 0, forgotten |-> 0, model |-> 0]
      /\ books = [internal |-> 0, wallet |-> 0, meter |-> 0]
  BY DEF CallInit
<1>3. ResolveInv  BY <1>2, Lists, OrderlyLists DEF ResolveInv, Queue
<1>4. RowLast(todo) /\ ~ExtraDue(todo) /\ \A K : Never(todo, K)
  BY <1>2, NoJobs, NothingIsListed
<1>5. AuditInv  BY <1>2, <1>4 DEF AuditInv, Net, Repeats
<1>6. MoneyInv
  <2>1. Listed(todo)  BY <1>2, NothingIsListed
  <2>2. \A op : ~Owed(op)  BY <1>4 DEF Owed
  <2>3. Charged = 0 /\ Nothing  BY <1>2 DEF Charged, Nothing
  <2>4. Bound
    <3>1. \A K : Within(todo, K, 0, 0)  BY <1>4, NothingDue DEF Within
    <3> QED BY <1>2, <2>3, <3>1 DEF Bound
  <2>5. Backed  BY <1>2, <2>2 DEF Backed
  <2>6. Balance  BY <1>2 DEF Balance
  <2> QED BY <1>2, <1>4, <2>1, <2>2, <2>3, <2>4, <2>5, <2>6 DEF MoneyInv, Net, Nothing
<1>7. TypeInv
  <2>1. call.request.text \subseteq Entities  BY <1>1, LoadedCalls DEF ApprovedInv
  <2>2. Len(faults) = 0  BY <1>2
  <2> QED BY <1>2, <2>1, <2>2, LedgerConstants DEF TypeInv, CallInit, Amounts
<1> QED BY <1>1, <1>2, <1>3, <1>5, <1>6, <1>7, Lists DEF BookInv

\* Every step keeps the books.
LEMMA BooksStep ==
  ASSUME BookInv, [Next]_vars
  PROVE  BookInv'
<1> USE DEF BookInv
<1>1. IsSeq(todo')  BY TodoStep
<1>2. ApprovedInv' /\ CoverInv'  BY ApprovedStep, CoverStep
<1>3. ResolveInv'  BY <1>2, ResolveStep
<1>4. AuditInv'  BY <1>2, AuditStep
<1>5. MoneyInv'  BY <1>2, <1>4, MoneyStep
<1>6. TypeInv'  BY <1>2, TypeStep
<1> QED BY <1>1, <1>2, <1>3, <1>4, <1>5, <1>6

\* A call with nothing left to do has booked what was due, in every ledger.
LEMMA BooksClosed ==
  ASSUME BookInv, Finished, faults = <<>>, ~Crashed
  PROVE  Exact
<1>1. pc = "reply" /\ todo = <<>> /\ Sound  BY DEF Finished, Sound
<1>2. Balance /\ \A K : Never(todo, K)  BY <1>1, NothingIsListed DEF BookInv, MoneyInv
<1>0. Known \in Nat /\ books.internal \in Nat /\ books.wallet \in Nat /\ books.meter \in Nat
  BY DEF BookInv, MoneyInv, AuditInv, Net, Known
<1>3. \A K : \A booked \in Nat : Sums(todo, K, booked, Known) => booked = Known
  BY <1>0, <1>2, NothingDue
<1>4. (NeedsLease => books.internal = Known) /\ (NeedsHold => books.wallet = Known)
  BY <1>0, <1>1, <1>2, <1>3 DEF Balance
<1>5. UsesMeter => books.meter = Known \/ (spent.model = 0 /\ books.meter = 0)
  BY <1>0, <1>1, <1>2, <1>3 DEF Balance
<1>6. /\ ~NeedsLease => books.internal = 0
      /\ ~NeedsHold => books.wallet = 0
      /\ ~UsesMeter => books.meter = 0
      /\ spent.model \in Nat
  BY DEF BookInv, MoneyInv, AuditInv
<1> QED BY <1>4, <1>5, <1>6 DEF Exact, NeedsLease, NeedsHold

\* No ledger is charged more than the call, at any time.
LEMMA BooksBounded ==
  ASSUME BookInv, catching # "rerun", NEW ledger \in DOMAIN books
  PROVE  books[ledger] <= spent.classifier + spent.model
<1>1. Bound /\ books \in [{"internal", "wallet", "meter"} -> Nat] /\ Listed(todo)
  BY DEF BookInv, MoneyInv
<1>0. Charged \in Nat  BY DEF BookInv, AuditInv, Charged
<1>2. ASSUME NEW K \in {Internal, Credit, Metered}, NEW booked \in Nat,
             Within(todo, K, booked, Charged)
      PROVE  booked <= Charged
  BY <1>2, <1>0 DEF Within
<1>3. /\ books.internal <= Charged /\ books.wallet <= Charged /\ books.meter <= Charged
      /\ books.internal \in Nat /\ books.wallet \in Nat /\ books.meter \in Nat
  <2> HIDE DEF Charged
  <2>1. /\ books.internal \in Nat /\ books.wallet \in Nat /\ books.meter \in Nat
    BY <1>1
  <2>2. /\ Within(todo, Internal, books.internal, Charged)
        /\ Within(todo, Credit, books.wallet, Charged)
        /\ Within(todo, Metered, books.meter, Charged)
    BY <1>1 DEF Bound
  <2> QED BY <1>2, <2>1, <2>2
<1>4. ledger \in {"internal", "wallet", "meter"}  BY <1>1
<1> QED BY <1>1, <1>3, <1>4 DEF Charged

\* When nothing failed, every ledger of the call's billing mode carries exactly
\* what the gateway knows it was charged, and no other ledger carries anything;
\* whatever fails, none carries more than the call cost, unless the outer catch
\* has repeated a release; and a stream whose cost nobody reported is never
\* booked above what was held for it.
THEOREM SpendIsBooked == Spec => []SpendBooked
<1>1. BookInv => SpendBooked
  <2> SUFFICES ASSUME BookInv PROVE SpendBooked
    OBVIOUS
  <2>1. TypeOK
    <3>1. Len(trail) <= 1
      <4>1. trail = <<>> \/ Len(trail) = 1  BY DEF BookInv, AuditInv
      <4>2. CASE trail = <<>>  BY <4>2
      <4>3. CASE Len(trail) = 1  BY <4>3
      <4> QED BY <4>1, <4>2, <4>3
    <3>2. safety \in Nat /\ reserved \in Nat  BY DEF BookInv, CoverInv
    <3>3. spent \in [{"classifier", "forgotten", "model"} -> Nat]  BY DEF BookInv, AuditInv
    <3>4. /\ books \in [{"internal", "wallet", "meter"} -> Nat]
          /\ catching \in {"none", "inner", "rerun", "stream"}
      BY DEF BookInv, MoneyInv
    <3> QED BY <3>1, <3>2, <3>3, <3>4 DEF BookInv, TypeInv, TypeOK, Amounts
  <2>2. Finished /\ faults = <<>> /\ ~Crashed => Exact  BY BooksClosed
  <2>3. catching # "rerun" =>
          \A ledger \in DOMAIN books : books[ledger] <= spent.classifier + spent.model
    BY BooksBounded
  <2>4. Finished /\ IsStream /\ call.reports = {None} => Actual <= reserved \/ spent.model = 0
    BY DEF BookInv, MoneyInv, Finished
  <2> QED BY <2>1, <2>2, <2>3, <2>4 DEF SpendBooked
<1> QED BY <1>1, BooksOpen, BooksStep, PTL DEF Spec
==============================================================================
