-------------------------- MODULE DeliveriesProofs ---------------------------
(***************************************************************************)
(* Proofs for any callers, requests, replicas, workloads, bounds on the    *)
(* attempts and number of faults: the outbox implements an at-least-once   *)
(* queue, metered usage counts as reported only when it was invoiced, one  *)
(* replica at a time does each piece of work unless a fault frees a lock,  *)
(* and Stripe's events have the effect of one delivery in order.           *)
(***************************************************************************)
EXTENDS Deliveries, FiniteSetTheorems, TLAPS

-----------------------------------------------------------------------------
(* The attempts of a row whose POST has not been answered yet.             *)
Open(c) == {n \in 1 .. MaxAttempts :
              \E p \in posts : p.hook = c /\ p.attempts = n /\ p.stage = "post"}

Post == [hook : Callers, worker : Ticks, attempts : 1 .. MaxAttempts,
         stage : {"post", "accepted", "failed"}, awaited : BOOLEAN]

OutboxTypes ==
  /\ outbox \in [Callers -> Row]
  /\ alerter \in [Callers -> [month : Months \cup {None},
                              at : {"idle", "claimed", "late", "failed", "enqueued", "direct",
                                    "posted", "died"}]]
  /\ posts \subseteq Post
  /\ received \in [Callers -> Nat]

(* A call enqueues once.                                                   *)
Unsent == \A c \in Callers : alerter[c].at \in {"idle", "claimed"} => outbox[c] = NoRow

(* A POST under way is of a row that is there and of an attempt of its own *)
(* that the row has counted.                                               *)
PostsSound ==
  \A p \in posts :
    /\ outbox[p.hook].state = "row"
    /\ p.attempts <= outbox[p.hook].attempts
    /\ p.stage = "accepted" => received[p.hook] > 0
    /\ \A q \in posts : q.hook = p.hook /\ q.attempts = p.attempts => q = p

(* Each attempt counted is good for one copy.                              *)
CopiesCounted == \A c \in Callers : received[c] + Cardinality(Open(c)) <= outbox[c].attempts

OutboxInv == OutboxTypes /\ Unsent /\ PostsSound /\ CopiesCounted

LEMMA OpenIsFinite ==
  ASSUME NEW c, NEW S \in SUBSET Open(c)
  PROVE  /\ IsFiniteSet(S) /\ IsFiniteSet(Open(c))
         /\ Cardinality(S) \in Nat /\ Cardinality(Open(c)) \in Nat
         /\ Cardinality(S) <= Cardinality(Open(c))
<1>1. IsFiniteSet(1 .. MaxAttempts)
  BY OutboxConstants, FS_Interval
<1>2. Open(c) \subseteq 1 .. MaxAttempts
  BY DEF Open
<1>3. IsFiniteSet(Open(c))
  BY <1>1, <1>2, FS_Subset
<1> QED  BY <1>3, FS_Subset, FS_CardinalityType

(* What neither sends a POST nor lets a copy arrive keeps the count.       *)
LEMMA NoCopyNoClaim ==
  ASSUME OutboxInv, UNCHANGED received,
         NEW c \in Callers, outbox'[c].attempts = outbox[c].attempts,
         \A p \in posts' : p.stage = "post" =>
           \E q \in posts : q.hook = p.hook /\ q.attempts = p.attempts /\ q.stage = "post"
  PROVE  received'[c] + Cardinality(Open(c)') <= outbox'[c].attempts
<1>1. Open(c)' \in SUBSET Open(c)
  BY DEF Open
<1>2. /\ Cardinality(Open(c)') \in Nat /\ Cardinality(Open(c)) \in Nat
      /\ Cardinality(Open(c)') <= Cardinality(Open(c))
  BY <1>1, OpenIsFinite
<1>3. received[c] \in Nat /\ outbox[c].attempts \in Nat
  BY OutboxConstants DEF OutboxInv, OutboxTypes, Row
<1>4. received[c] + Cardinality(Open(c)) <= outbox[c].attempts
  BY DEF OutboxInv, CopiesCounted
<1> QED  BY <1>2, <1>3, <1>4

LEMMA InitOutbox == OutboxInit => OutboxInv
<1> SUFFICES ASSUME OutboxInit PROVE OutboxInv
  OBVIOUS
<1> USE DEF OutboxInit
<1>1. OutboxTypes
  BY OutboxConstants DEF OutboxTypes, NoRow, Row
<1>2. Unsent /\ PostsSound
  BY DEF Unsent, PostsSound
<1>3. ASSUME NEW c \in Callers PROVE received[c] + Cardinality(Open(c)) <= outbox[c].attempts
  <2>1. Open(c) = {}
    BY DEF Open
  <2> QED  BY <2>1, FS_EmptySet DEF NoRow
<1> QED  BY <1>1, <1>2, <1>3 DEF OutboxInv, CopiesCounted

LEMMA RowsOfACall ==
  /\ NoRow \in Row /\ NewRow \in Row
  /\ NewRow.state = "row" /\ NewRow.attempts = 0 /\ ~NewRow.delivered
  /\ NoRow.state = "none" /\ NoRow.attempts = 0 /\ ~NoRow.delivered
BY OutboxConstants DEF NoRow, NewRow, Row

(* Raising the alert touches a row only to enqueue it.                     *)
LEMMA AlertKeeps ==
  ASSUME OutboxInv, NEW c \in Callers,
         \/ \E m \in Months : ClaimAlert(c, m) \/ ClaimAlertFails(c, m)
         \/ RaiseAlert(c)
  PROVE  OutboxInv'
<1> USE DEF OutboxInv
<1>1. UNCHANGED <<posts, received>>
  BY DEF ClaimAlert, ClaimAlertFails, RaiseAlert, EnqueueWebhook, EnqueueFails, DeliverDirectly,
         AlerterDies
<1>2. \/ outbox' = outbox
      \/ /\ outbox[c] = NoRow
         /\ outbox' = [outbox EXCEPT ![c] = NewRow]
         /\ alerter'[c].at \in {"enqueued", "direct"}
  BY DEF ClaimAlert, ClaimAlertFails, RaiseAlert, EnqueueWebhook, EnqueueFails, DeliverDirectly,
         AlerterDies, Alerts, OutboxTypes, Unsent
<1>3. OutboxTypes'
  <2>1. outbox' \in [Callers -> Row]
    BY <1>2, RowsOfACall DEF OutboxTypes
  <2>2. alerter' \in [Callers -> [month : Months \cup {None},
                                  at : {"idle", "claimed", "late", "failed", "enqueued", "direct",
                                        "posted", "died"}]]
    BY DEF ClaimAlert, ClaimAlertFails, RaiseAlert, EnqueueWebhook, EnqueueFails, DeliverDirectly,
           AlerterDies, Alerts, OutboxTypes
  <2> QED  BY <1>1, <2>1, <2>2 DEF OutboxTypes
<1>4. Unsent'
  <2>1. \A d \in Callers : alerter'[d].at \in {"idle", "claimed"} =>
          alerter[d].at \in {"idle", "claimed"}
    BY DEF ClaimAlert, ClaimAlertFails, RaiseAlert, EnqueueWebhook, EnqueueFails, DeliverDirectly,
           AlerterDies, Alerts, OutboxTypes
  <2> QED  BY <1>2, <2>1 DEF Unsent, OutboxTypes
<1>5. \A d \in Callers : outbox'[d].attempts = outbox[d].attempts
                         /\ (outbox[d].state = "row" => outbox'[d].state = "row")
  BY <1>2, RowsOfACall DEF OutboxTypes
<1>6. PostsSound'
  BY <1>1, <1>5 DEF PostsSound, OutboxTypes, Post
<1>7. CopiesCounted'
  BY <1>1, <1>5, NoCopyNoClaim DEF CopiesCounted
<1> QED  BY <1>3, <1>4, <1>6, <1>7

(* What a claim does to the rows.                                          *)
LEMMA RowsClaimed ==
  ASSUME OutboxInv, NEW j \in Ticks, ClaimPendingWebhooks(j), NEW c \in Callers
  PROVE  /\ Claimable(c) => /\ outbox'[c].attempts = outbox[c].attempts + 1
                            /\ outbox'[c].state = "row"
                            /\ outbox'[c].delivered = outbox[c].delivered
                            /\ outbox'[c] \in Row
         /\ ~Claimable(c) => outbox'[c] = outbox[c]
<1>1. outbox[c] \in Row
  BY DEF OutboxInv, OutboxTypes
<1>2. CASE Claimable(c)
  <2>1. outbox'[c] = [outbox[c] EXCEPT !.attempts = @ + 1, !.due = FALSE]
    BY <1>2 DEF ClaimPendingWebhooks
  <2>2. outbox[c].state = "row" /\ outbox[c].attempts < MaxAttempts
    BY <1>2 DEF Claimable
  <2>3. outbox[c].attempts + 1 \in 0 .. MaxAttempts
    BY <1>1, <2>2, OutboxConstants DEF Row
  <2>4. outbox'[c] = [state |-> "row", attempts |-> outbox[c].attempts + 1, due |-> FALSE,
                      delivered |-> outbox[c].delivered]
    BY <1>1, <2>1, <2>2 DEF Row
  <2> QED  BY <1>1, <1>2, <2>3, <2>4 DEF Row
<1>3. CASE ~Claimable(c)
  BY <1>3 DEF ClaimPendingWebhooks
<1> QED  BY <1>2, <1>3

(* A claim counts the attempts it opens, and opens no other.               *)
LEMMA ClaimKeeps ==
  ASSUME OutboxInv, NEW j \in Ticks, ClaimPendingWebhooks(j)
  PROVE  OutboxInv'
<1> DEFINE batch == {c \in Callers : Claimable(c)}
           sent(c) == [hook |-> c, worker |-> j, attempts |-> outbox[c].attempts + 1,
                       stage |-> "post", awaited |-> TRUE]
<1> USE DEF OutboxInv
<1>1. /\ outbox' = [c \in Callers |->
                      IF c \in batch THEN [outbox[c] EXCEPT !.attempts = @ + 1, !.due = FALSE]
                                     ELSE outbox[c]]
      /\ posts' = posts \cup {sent(c) : c \in batch}
      /\ UNCHANGED <<alertSent, alerter, received>>
  BY DEF ClaimPendingWebhooks
<1>2. \A c \in Callers : outbox[c] \in Row
  BY DEF OutboxTypes
<1>3. \A c \in batch : c \in Callers /\ outbox[c].state = "row" /\ outbox[c].attempts < MaxAttempts
  BY DEF Claimable
<1>4. \A c \in Callers :
        /\ c \in batch => /\ outbox'[c].attempts = outbox[c].attempts + 1
                           /\ outbox'[c].state = "row"
                           /\ outbox'[c] \in Row
        /\ c \notin batch => outbox'[c] = outbox[c]
  BY RowsClaimed
<1>5. \A c \in Callers : /\ outbox[c].attempts \in Nat /\ outbox'[c].attempts \in Nat
                           /\ outbox[c].attempts <= outbox'[c].attempts
  BY <1>2, <1>4, OutboxConstants DEF Row
<1> HIDE DEF batch
<1>6. OutboxTypes'
  <2>1. outbox' \in [Callers -> Row]
    BY <1>1, <1>2, <1>4
  <2>2. ASSUME NEW c \in batch PROVE sent(c) \in Post
    <3>1. outbox[c].attempts + 1 \in 1 .. MaxAttempts
      BY <1>2, <1>3, OutboxConstants DEF Row
    <3> QED  BY <1>3, <3>1 DEF Post
  <2> QED  BY <1>1, <2>1, <2>2 DEF OutboxTypes
<1>7. Unsent'
  <2>1. \A c \in batch : outbox[c] # NoRow
    BY <1>3, RowsOfACall
  <2> QED  BY <1>1, <1>3, <1>4, <2>1 DEF Unsent
<1>8. ASSUME NEW p \in posts'
      PROVE  \/ /\ p \in posts /\ p.hook \in Callers /\ p.attempts \in Nat
                /\ p.attempts <= outbox[p.hook].attempts
                /\ outbox[p.hook].state = "row"
                /\ p.stage = "accepted" => received[p.hook] > 0
             \/ \E c \in batch : p = sent(c)
  <2>1. CASE p \in posts
    BY <2>1, OutboxConstants DEF OutboxTypes, Post, PostsSound
  <2> QED  BY <1>1, <2>1
<1>9. \A c \in batch : /\ sent(c).hook = c /\ sent(c).attempts = outbox[c].attempts + 1
                        /\ sent(c).stage = "post"
  OBVIOUS
<1>10. PostsSound'
  <2> SUFFICES ASSUME NEW p \in posts'
               PROVE  /\ outbox'[p.hook].state = "row"
                      /\ p.attempts <= outbox'[p.hook].attempts
                      /\ p.stage = "accepted" => received'[p.hook] > 0
                      /\ \A q \in posts' : q.hook = p.hook /\ q.attempts = p.attempts => q = p
    BY DEF PostsSound
  <2>1. outbox'[p.hook].state = "row" /\ p.attempts <= outbox'[p.hook].attempts
    <3>1. CASE p \in posts
      <4>1. /\ p.hook \in Callers /\ outbox[p.hook].state = "row" /\ p.attempts \in Nat
            /\ p.attempts <= outbox[p.hook].attempts
        BY <3>1, OutboxConstants DEF OutboxTypes, Post, PostsSound
      <4> QED  BY <1>4, <1>5, <4>1
    <3>2. ASSUME NEW c \in batch, p = sent(c) PROVE p.hook = c /\ p.attempts = outbox'[c].attempts
      BY <1>3, <1>4, <1>9, <3>2
    <3> QED  BY <1>3, <1>4, <1>5, <1>8, <3>1, <3>2
  <2>2. p.stage = "accepted" => received'[p.hook] > 0
    BY <1>1, <1>8, <1>9
  <2>3. ASSUME NEW q \in posts', q.hook = p.hook, q.attempts = p.attempts PROVE q = p
    <3>1. CASE p \in posts /\ q \in posts
      BY <2>3, <3>1 DEF PostsSound
    <3>2. ASSUME NEW c \in batch, NEW r \in posts, r.hook = c
          PROVE  r.attempts # outbox[c].attempts + 1
      <4>1. r.attempts <= outbox[c].attempts /\ r.attempts \in Nat
        BY <3>2, OutboxConstants DEF PostsSound, OutboxTypes, Post
      <4> QED  BY <1>3, <1>5, <4>1
    <3>3. CASE \E c \in batch : p = sent(c)
      BY <1>8, <1>9, <2>3, <3>2, <3>3
    <3>4. CASE \E c \in batch : q = sent(c)
      BY <1>8, <1>9, <2>3, <3>2, <3>4
    <3> QED  BY <1>8, <3>1, <3>3, <3>4
  <2> QED  BY <2>1, <2>2, <2>3
<1>11. CopiesCounted'
  <2> SUFFICES ASSUME NEW c \in Callers
               PROVE  received'[c] + Cardinality(Open(c)') <= outbox'[c].attempts
    BY DEF CopiesCounted
  <2> DEFINE before == Open(c)  next == outbox[c].attempts + 1
  <2>1. /\ IsFiniteSet(before) /\ Cardinality(before) \in Nat
        /\ received[c] \in Nat /\ outbox[c].attempts \in Nat
        /\ received[c] + Cardinality(before) <= outbox[c].attempts
        /\ received'[c] = received[c]
    BY <1>1, <1>5, OpenIsFinite DEF CopiesCounted, OutboxTypes
  <2>2. CASE c \notin batch
    <3>1. \A p \in posts' : p.hook = c => p \in posts
      BY <1>1, <1>9, <2>2
    <3>2. Open(c)' \in SUBSET Open(c)
      BY <3>1 DEF Open
    <3>3. Cardinality(Open(c)') \in Nat /\ Cardinality(Open(c)') <= Cardinality(before)
      BY <3>2, OpenIsFinite
    <3>4. outbox'[c].attempts = outbox[c].attempts
      BY <1>4, <2>2
    <3> QED  BY <2>1, <3>3, <3>4
  <2>3. CASE c \in batch
    <3>1. \A p \in posts' : p.hook = c => p \in posts \/ p.attempts = next
      BY <1>8, <1>9
    <3>2. Open(c)' \subseteq before \cup {next}
      BY <3>1 DEF Open
    <3> HIDE DEF before
    <3>3. /\ IsFiniteSet(before \cup {next})
          /\ Cardinality(before \cup {next}) <= Cardinality(before) + 1
      BY <2>1, FS_AddElement
    <3>4. /\ IsFiniteSet(Open(c)')
          /\ Cardinality(Open(c)') <= Cardinality(before \cup {next})
      BY <3>2, <3>3, FS_Subset
    <3>5. Cardinality(Open(c)') \in Nat /\ Cardinality(before \cup {next}) \in Nat
      BY <3>3, <3>4, FS_CardinalityType
    <3>6. outbox'[c].attempts = next
      BY <1>4, <2>3
    <3> QED  BY <2>1, <3>3, <3>4, <3>5, <3>6
  <2> QED  BY <2>2, <2>3
<1> QED  BY <1>6, <1>7, <1>10, <1>11

(* What happens to a row after it was enqueued, a claim apart.             *)
LEMMA RowsKept ==
  ASSUME OutboxTypes, NEW d \in Callers, outbox[d].state = "row",
         \/ outbox' = outbox
         \/ outbox' = [outbox EXCEPT ![d].delivered = TRUE]
         \/ outbox' = [outbox EXCEPT ![d].due = TRUE]
         \/ outbox' = [outbox EXCEPT ![d].due = FALSE]
  PROVE  /\ outbox' \in [Callers -> Row]
         /\ \A c \in Callers : /\ outbox'[c].attempts = outbox[c].attempts
                               /\ outbox'[c].state = outbox[c].state
                               /\ outbox[c] = NoRow => outbox'[c] = NoRow
                               /\ c # d => outbox'[c] = outbox[c]
         /\ outbox' # [outbox EXCEPT ![d].delivered = TRUE] =>
              outbox'[d].delivered = outbox[d].delivered
         /\ outbox' = [outbox EXCEPT ![d].delivered = TRUE] => outbox'[d].delivered
<1>1. outbox[d] # NoRow /\ outbox \in [Callers -> Row] /\ outbox[d] \in Row
  BY RowsOfACall DEF OutboxTypes
<1>2. CASE outbox' = outbox /\ outbox' # [outbox EXCEPT ![d].delivered = TRUE]
  BY <1>1, <1>2
<1>3. CASE outbox' = [outbox EXCEPT ![d].delivered = TRUE]
  BY <1>1, <1>3 DEF Row
<1>4. ASSUME NEW b \in BOOLEAN, outbox' = [outbox EXCEPT ![d].due = b]
      PROVE  /\ outbox' \in [Callers -> Row]
             /\ outbox'[d].attempts = outbox[d].attempts /\ outbox'[d].state = outbox[d].state
             /\ outbox'[d].delivered = outbox[d].delivered
             /\ \A c \in Callers : c # d => outbox'[c] = outbox[c]
  BY <1>1, <1>4 DEF Row
<1> QED  BY <1>1, <1>2, <1>3, <1>4

(* A step by which no copy arrives and no POST is sent keeps the invariant *)
(* if it keeps the rows of the POSTs under way and these apart.            *)
LEMMA NoArrivalKeeps ==
  ASSUME OutboxInv, UNCHANGED <<alerter, received>>,
         outbox' \in [Callers -> Row],
         \A c \in Callers : /\ outbox'[c].attempts = outbox[c].attempts
                            /\ outbox[c] = NoRow => outbox'[c] = NoRow,
         posts' \subseteq Post,
         \A p \in posts' :
           /\ outbox'[p.hook].state = "row"
           /\ \E q \in posts : /\ q.hook = p.hook /\ q.attempts = p.attempts
                               /\ p.stage = "post" => q.stage = "post"
                               /\ p.stage = "accepted" => q.stage = "accepted"
           /\ \A q \in posts' : q.hook = p.hook /\ q.attempts = p.attempts => q = p
  PROVE  OutboxInv'
<1> USE DEF OutboxInv
<1>1. OutboxTypes' /\ Unsent'
  BY DEF OutboxTypes, Unsent
<1>2. PostsSound'
  <2> SUFFICES ASSUME NEW p \in posts'
               PROVE  /\ p.attempts <= outbox'[p.hook].attempts
                      /\ p.stage = "accepted" => received'[p.hook] > 0
    BY DEF PostsSound
  <2>1. PICK q \in posts : /\ q.hook = p.hook /\ q.attempts = p.attempts
                           /\ p.stage = "accepted" => q.stage = "accepted"
    OBVIOUS
  <2>2. p.hook \in Callers
    BY DEF Post
  <2> QED  BY <2>1, <2>2 DEF PostsSound
<1>3. CopiesCounted'
  <2> SUFFICES ASSUME NEW c \in Callers
               PROVE  received'[c] + Cardinality(Open(c)') <= outbox'[c].attempts
    BY DEF CopiesCounted
  <2> QED  BY NoCopyNoClaim
<1> QED  BY <1>1, <1>2, <1>3

(* POSTs that end, rows that come due and rows that are pruned.            *)
LEMMA EndingKeeps ==
  ASSUME OutboxInv, UNCHANGED <<alerter, received>>,
         outbox' \in [Callers -> Row],
         \A c \in Callers : /\ outbox'[c].attempts = outbox[c].attempts
                            /\ outbox[c] = NoRow => outbox'[c] = NoRow,
         posts' \subseteq posts,
         \A p \in posts' : outbox'[p.hook].state = "row"
  PROVE  OutboxInv'
BY NoArrivalKeeps DEF OutboxInv, OutboxTypes, PostsSound

LEMMA MarksKeep ==
  ASSUME OutboxInv, NEW p \in posts,
         MarkWebhookDelivered(p) \/ MarkWebhookFailed(p)
  PROVE  OutboxInv'
<1>1. p.hook \in Callers /\ outbox[p.hook].state = "row"
  BY DEF OutboxInv, OutboxTypes, Post, PostsSound
<1>2. /\ UNCHANGED <<alerter, received>> /\ posts' \subseteq posts
      /\ \/ outbox' = [outbox EXCEPT ![p.hook].delivered = TRUE]
         \/ outbox' = [outbox EXCEPT ![p.hook].due = FALSE]
  BY DEF MarkWebhookDelivered, MarkWebhookFailed
<1>3. OutboxTypes /\ PostsSound
  BY DEF OutboxInv
<1>4. /\ outbox' \in [Callers -> Row]
      /\ \A c \in Callers : /\ outbox'[c].attempts = outbox[c].attempts
                            /\ outbox'[c].state = outbox[c].state
                            /\ outbox[c] = NoRow => outbox'[c] = NoRow
  BY <1>1, <1>2, <1>3, RowsKept
<1>5. \A q \in posts' : outbox'[q.hook].state = "row"
  BY <1>2, <1>3, <1>4 DEF OutboxTypes, Post, PostsSound
<1> QED  BY <1>2, <1>4, <1>5, EndingKeeps

LEMMA DueKeeps ==
  ASSUME OutboxInv, NEW c \in Callers, WebhookDue(c)
  PROVE  OutboxInv'
<1>1. /\ outbox[c].state = "row" /\ UNCHANGED <<alerter, received, posts>>
      /\ outbox' = [outbox EXCEPT ![c].due = TRUE]
  BY DEF WebhookDue
<1>2. OutboxTypes /\ PostsSound
  BY DEF OutboxInv
<1>3. /\ outbox' \in [Callers -> Row]
      /\ \A d \in Callers : /\ outbox'[d].attempts = outbox[d].attempts
                            /\ outbox'[d].state = outbox[d].state
                            /\ outbox[d] = NoRow => outbox'[d] = NoRow
  BY <1>1, <1>2, RowsKept
<1>4. \A q \in posts' : outbox'[q.hook].state = "row"
  BY <1>1, <1>2, <1>3 DEF OutboxTypes, Post, PostsSound
<1> QED  BY <1>1, <1>3, <1>4, EndingKeeps

LEMMA CleanupKeeps ==
  ASSUME OutboxInv, NEW old \in SUBSET Prunable, CleanupWebhookOutbox(old)
  PROVE  OutboxInv'
<1>1. /\ UNCHANGED <<alerter, received, posts>>
      /\ outbox' = [c \in Callers |->
                     IF c \in old THEN [outbox[c] EXCEPT !.state = "pruned"] ELSE outbox[c]]
  BY DEF CleanupWebhookOutbox
<1>2. \A c \in old : outbox[c].state = "row" /\ outbox[c] # NoRow /\ \A p \in posts : p.hook # c
  BY RowsOfACall DEF Prunable
<1>3. \A c \in Callers : outbox[c] \in Row
  BY DEF OutboxInv, OutboxTypes
<1>4. /\ outbox' \in [Callers -> Row]
      /\ \A c \in Callers : /\ outbox'[c].attempts = outbox[c].attempts
                            /\ outbox[c] = NoRow => outbox'[c] = NoRow
  BY <1>1, <1>2, <1>3 DEF Row
<1>5. \A q \in posts' : outbox'[q.hook].state = "row"
  BY <1>1, <1>2 DEF OutboxInv, OutboxTypes, Post, PostsSound
<1> QED  BY <1>1, <1>4, <1>5, EndingKeeps
(* A POST that goes on is the same POST of the same attempt.               *)
LEMMA StagesKeep ==
  ASSUME OutboxTypes, PostsSound, NEW p \in posts, NEW stage \in {"accepted", "failed"}
  PROVE  /\ At(p, stage) \subseteq Post
         /\ \A r \in At(p, stage) :
              /\ \E q \in posts : /\ q.hook = r.hook /\ q.attempts = r.attempts
                                  /\ r.stage = "post" => q.stage = "post"
                                  /\ r.stage = "accepted" /\ stage # "accepted" =>
                                       q.stage = "accepted"
              /\ r.stage = "accepted" => r.hook = p.hook \/ r \in posts
              /\ \A q \in At(p, stage) : q.hook = r.hook /\ q.attempts = r.attempts => q = r
         /\ \A r \in At(p, stage) : r.stage = "post" => r \in posts /\ r # p
<1> DEFINE n == [p EXCEPT !.stage = stage]
<1>1. /\ n \in Post /\ n.hook = p.hook /\ n.attempts = p.attempts /\ n.stage = stage
  BY DEF OutboxTypes, Post
<1>2. At(p, stage) = (posts \ {p}) \cup {n}
  BY DEF At
<1>3. \A q, r \in posts : q.hook = r.hook /\ q.attempts = r.attempts => q = r
  BY DEF PostsSound
<1> HIDE DEF n
<1> QED  BY <1>1, <1>2, <1>3 DEF OutboxTypes

(* The endpoint takes a copy only of an attempt whose POST is under way.   *)
LEMMA DeliverKeeps ==
  ASSUME OutboxInv, NEW p \in posts, DeliverOutboxWebhook(p)
  PROVE  OutboxInv' /\ received[p.hook] < outbox[p.hook].attempts
<1> USE DEF OutboxInv
<1>1. /\ p \in Post /\ p.hook \in Callers /\ p.attempts \in 1 .. MaxAttempts /\ p.stage = "post"
      /\ outbox[p.hook].state = "row" /\ received \in [Callers -> Nat]
      /\ outbox[p.hook].attempts \in Nat
  BY OutboxConstants DEF DeliverOutboxWebhook, OutboxTypes, Post, PostsSound, Row
<1>2. p.attempts \in Open(p.hook)
  BY <1>1 DEF Open
<1>3. /\ IsFiniteSet(Open(p.hook) \ {p.attempts})
      /\ Cardinality(Open(p.hook) \ {p.attempts}) = Cardinality(Open(p.hook)) - 1
      /\ Cardinality(Open(p.hook) \ {p.attempts}) \in Nat /\ Cardinality(Open(p.hook)) \in Nat
  BY <1>2, OpenIsFinite, FS_RemoveElement, FS_CardinalityType
<1>4. received[p.hook] + Cardinality(Open(p.hook)) <= outbox[p.hook].attempts
  BY <1>1 DEF CopiesCounted
<1>5. received[p.hook] < outbox[p.hook].attempts
  BY <1>1, <1>3, <1>4
<1>6. /\ UNCHANGED <<alerter, outbox>>
      /\ \/ posts' = At(p, "accepted") \/ posts' = At(p, "failed")
      /\ \/ received' = [received EXCEPT ![p.hook] = @ + 1]
         \/ received' = received /\ posts' = At(p, "failed")
  BY DEF DeliverOutboxWebhook
<1>7. \A c \in Callers : received'[c] \in Nat /\ received[c] <= received'[c]
  BY <1>1, <1>6
<1>8. /\ posts' \subseteq Post
      /\ \A r \in posts' :
           /\ \E q \in posts : q.hook = r.hook /\ q.attempts = r.attempts
           /\ r.stage = "accepted" => r \in posts \/ (r.hook = p.hook /\ posts' # At(p, "failed"))
           /\ r.stage = "post" => r \in posts /\ r # p
           /\ \A q \in posts' : q.hook = r.hook /\ q.attempts = r.attempts => q = r
  <2>1. CASE posts' = At(p, "failed")
    <3>1. \A r \in At(p, "failed") : r.stage = "accepted" => r \in posts
      BY <1>1 DEF At, OutboxTypes, Post
    <3> QED  BY <2>1, <3>1, StagesKeep
  <2>2. CASE posts' = At(p, "accepted") /\ posts' # At(p, "failed")
    BY <2>2, StagesKeep
  <2> QED  BY <1>6, <2>1, <2>2
<1>9. OutboxTypes'
  BY <1>1, <1>6, <1>7, <1>8 DEF OutboxTypes
<1>10. Unsent'
  BY <1>6 DEF Unsent
<1>11. PostsSound'
  <2> SUFFICES ASSUME NEW r \in posts'
               PROVE  /\ outbox[r.hook].state = "row"
                      /\ r.attempts <= outbox[r.hook].attempts
                      /\ r.stage = "accepted" => received'[r.hook] > 0
    BY <1>6, <1>8 DEF PostsSound
  <2>1. /\ outbox[r.hook].state = "row" /\ r.attempts <= outbox[r.hook].attempts
        /\ r.hook \in Callers
    BY <1>8 DEF PostsSound, Post
  <2>2. CASE r.stage = "accepted" /\ r \in posts
    <3>1. received[r.hook] > 0
      BY <2>2 DEF PostsSound
    <3> QED  BY <1>1, <1>7, <2>1, <3>1
  <2>3. CASE r.stage = "accepted" /\ r \notin posts
    <3>1. r.hook = p.hook /\ received' = [received EXCEPT ![p.hook] = @ + 1]
      BY <1>6, <1>8, <2>3
    <3> QED  BY <1>1, <2>1, <3>1
  <2> QED  BY <2>1, <2>2, <2>3
<1>12. CopiesCounted'
  <2> SUFFICES ASSUME NEW c \in Callers
               PROVE  received'[c] + Cardinality(Open(c)') <= outbox'[c].attempts
    BY DEF CopiesCounted
  <2>1. CASE c = p.hook
    <3>1. Open(c)' \subseteq Open(c) \ {p.attempts}
      <4>1. ASSUME NEW r \in posts', r.hook = c, r.stage = "post"
            PROVE  r \in posts /\ r.attempts # p.attempts
        BY <1>8, <2>1, <4>1 DEF PostsSound
      <4> QED  BY <4>1 DEF Open
    <3>2. /\ IsFiniteSet(Open(c)') /\ Cardinality(Open(c)') \in Nat
          /\ Cardinality(Open(c)') <= Cardinality(Open(c)) - 1
      BY <1>3, <2>1, <3>1, FS_Subset, FS_CardinalityType
    <3>3. received'[c] \in Nat /\ received'[c] <= received[c] + 1
      BY <1>1, <1>6, <2>1
    <3> QED  BY <1>1, <1>3, <1>4, <1>6, <2>1, <3>2, <3>3
  <2>2. CASE c # p.hook
    <3>1. Open(c)' \in SUBSET Open(c)
      BY <1>8 DEF Open
    <3>2. Cardinality(Open(c)') \in Nat /\ Cardinality(Open(c)') <= Cardinality(Open(c))
          /\ Cardinality(Open(c)) \in Nat
      BY <3>1, OpenIsFinite
    <3>3. /\ received'[c] = received[c] /\ received[c] \in Nat /\ outbox[c].attempts \in Nat
          /\ received[c] + Cardinality(Open(c)) <= outbox[c].attempts
      BY <1>1, <1>6, <2>2, OutboxConstants DEF CopiesCounted, OutboxTypes, Row
    <3> QED  BY <1>6, <3>2, <3>3
  <2> QED  BY <2>1, <2>2
<1> QED  BY <1>5, <1>9, <1>10, <1>11, <1>12

LEMMA MarkFailsKeeps ==
  ASSUME OutboxInv, NEW p \in posts, MarkDeliveredFails(p)
  PROVE  OutboxInv'
<1>1. /\ OutboxTypes /\ PostsSound
      /\ p.hook \in Callers /\ outbox[p.hook].state = "row"
  BY DEF OutboxInv, OutboxTypes, Post, PostsSound
<1>2. /\ UNCHANGED <<alerter, received>> /\ posts' = At(p, "failed")
      /\ outbox' = outbox \/ outbox' = [outbox EXCEPT ![p.hook].delivered = TRUE]
  BY DEF MarkDeliveredFails
<1>3. /\ outbox' \in [Callers -> Row]
      /\ \A c \in Callers : /\ outbox'[c].attempts = outbox[c].attempts
                            /\ outbox'[c].state = outbox[c].state
                            /\ outbox[c] = NoRow => outbox'[c] = NoRow
  BY <1>1, <1>2, RowsKept
<1>4. /\ posts' \subseteq Post
      /\ \A r \in posts' :
           /\ \E q \in posts : /\ q.hook = r.hook /\ q.attempts = r.attempts
                               /\ r.stage = "post" => q.stage = "post"
                               /\ r.stage = "accepted" => q.stage = "accepted"
           /\ \A q \in posts' : q.hook = r.hook /\ q.attempts = r.attempts => q = r
  BY <1>1, <1>2, StagesKeep
<1>5. \A r \in posts' : outbox'[r.hook].state = "row"
  BY <1>1, <1>3, <1>4 DEF Post, PostsSound
<1> QED  BY <1>2, <1>3, <1>4, <1>5, NoArrivalKeeps

LEMMA ThrowKeeps ==
  ASSUME OutboxInv, NEW p \in posts, DeliveryThrows(p)
  PROVE  OutboxInv'
<1> DEFINE n(q) == [q EXCEPT !.awaited = @ /\ q.worker # p.worker]
<1>1. /\ UNCHANGED <<alerter, received, outbox>> /\ posts' = {n(q) : q \in posts \ {p}}
  BY DEF DeliveryThrows, Orphan
<1>2. /\ OutboxTypes /\ PostsSound
  BY DEF OutboxInv
<1>3. ASSUME NEW q \in posts
      PROVE  /\ n(q) \in Post /\ n(q).hook = q.hook /\ n(q).attempts = q.attempts
             /\ n(q).stage = q.stage
  BY <1>2 DEF OutboxTypes, Post
<1> HIDE DEF n
<1>4. \A q, r \in posts : q.hook = r.hook /\ q.attempts = r.attempts => q = r
  BY <1>2 DEF PostsSound
<1>5. posts' \subseteq Post
  BY <1>1, <1>3
<1>6. ASSUME NEW s \in posts'
      PROVE  /\ outbox'[s.hook].state = "row"
             /\ \E q \in posts : /\ q.hook = s.hook /\ q.attempts = s.attempts
                                 /\ s.stage = "post" => q.stage = "post"
                                 /\ s.stage = "accepted" => q.stage = "accepted"
             /\ \A q \in posts' : q.hook = s.hook /\ q.attempts = s.attempts => q = s
  <2>1. PICK q \in posts : s = n(q)
    BY <1>1
  <2>2. ASSUME NEW t \in posts', t.hook = s.hook, t.attempts = s.attempts PROVE t = s
    <3>1. PICK r \in posts : t = n(r)
      BY <1>1
    <3>2. r = q
      BY <1>3, <1>4, <2>1, <2>2, <3>1
    <3> QED  BY <2>1, <3>1, <3>2
  <2>3. outbox[q.hook].state = "row"
    BY <1>2 DEF PostsSound
  <2> QED  BY <1>1, <1>3, <2>1, <2>2, <2>3
<1>7. /\ outbox' \in [Callers -> Row]
      /\ \A c \in Callers : /\ outbox'[c].attempts = outbox[c].attempts
                            /\ outbox[c] = NoRow => outbox'[c] = NoRow
  BY <1>1, <1>2 DEF OutboxTypes
<1> QED  BY <1>1, <1>5, <1>6, <1>7, NoArrivalKeeps

LEMMA DieKeeps ==
  ASSUME OutboxInv, NEW j \in Ticks, Die(j)
  PROVE  OutboxInv'
<1>1. /\ UNCHANGED <<alerter, received, outbox>> /\ posts' \subseteq posts
  BY DEF Die
<1> QED  BY <1>1, EndingKeeps DEF OutboxInv, OutboxTypes, PostsSound

-----------------------------------------------------------------------------
(* The outbox as a queue.                                                  *)
LEMMA FatesOfRows ==
  ASSUME OutboxInv, NEW c \in Callers
  PROVE  /\ Fate(c) = "unsent" <=> outbox[c].state = "none"
         /\ Fate(c) = "confirmed" <=> outbox[c].state # "none" /\ outbox[c].delivered
         /\ Fate(c) = "dead" <=> /\ outbox[c].state # "none" /\ ~outbox[c].delivered
                                 /\ outbox[c].attempts = MaxAttempts
                                 /\ ~\E p \in posts : p.hook = c
         /\ Fate(c) \in {"unsent", "confirmed", "dead", "pending"}
BY DEF Fate

LEMMA SameFate ==
  ASSUME NEW c \in Callers,
         outbox'[c].state = "none" <=> outbox[c].state = "none",
         outbox'[c].delivered = outbox[c].delivered,
         outbox'[c].attempts = outbox[c].attempts,
         (\E p \in posts' : p.hook = c) <=> (\E p \in posts : p.hook = c)
  PROVE  Fate(c)' = Fate(c)
BY DEF Fate

(* When POSTs end, rows come due or rows are pruned, what was tried for    *)
(* the last time is dead, and no other fate changes.                       *)
LEMMA EndingGivesUp ==
  ASSUME OutboxInv, UNCHANGED received,
         \A c \in Callers : /\ outbox'[c].state = "none" <=> outbox[c].state = "none"
                            /\ outbox'[c].delivered = outbox[c].delivered
                            /\ outbox'[c].attempts = outbox[c].attempts
                            /\ (\E p \in posts' : p.hook = c) => (\E p \in posts : p.hook = c)
  PROVE  Queue!Next
<1> DEFINE batch == {c \in Callers : Fate(c)' # Fate(c)}
<1>1. ASSUME NEW c \in batch
      PROVE  Fate(c) = "pending" /\ outbox[c].attempts = MaxAttempts /\ Fate(c)' = "dead"
  BY DEF Fate
<1>2. Queue!GiveUp(batch)
  BY <1>1 DEF Queue!GiveUp
<1> QED  BY <1>2 DEF Queue!Next

LEMMA EnqueueSends ==
  ASSUME OutboxInv, UNCHANGED <<posts, received>>, NEW c \in Callers, outbox[c] = NoRow,
         outbox' = [outbox EXCEPT ![c] = NewRow]
  PROVE  Queue!Next
<1>1. \A d \in Callers \ {c} : Fate(d)' = Fate(d)
  BY SameFate
<1>2. outbox \in [Callers -> Row]
  BY DEF OutboxInv, OutboxTypes
<1>3. outbox'[c].attempts = outbox[c].attempts /\ Fate(c) = "unsent" /\ Fate(c)' = "pending"
  BY <1>2, RowsOfACall, OutboxConstants DEF Fate
<1>4. Queue!Send(c)
  BY <1>1, <1>2, <1>3 DEF Queue!Send
<1> QED  BY <1>4 DEF Queue!Next

LEMMA ClaimTries ==
  ASSUME OutboxInv, NEW j \in Ticks, ClaimPendingWebhooks(j)
  PROVE  Queue!Next
<1> DEFINE claimed == {c \in Callers : Claimable(c)}
<1>1. /\ UNCHANGED received /\ \A c \in Callers :
        (\E p \in posts' : p.hook = c) <=> (\E p \in posts : p.hook = c) \/ Claimable(c)
  <2> DEFINE sent(c) == [hook |-> c, worker |-> j, attempts |-> outbox[c].attempts + 1,
                         stage |-> "post", awaited |-> TRUE]
  <2>1. posts' = posts \cup {sent(c) : c \in claimed} /\ UNCHANGED received
    BY DEF ClaimPendingWebhooks
  <2>2. \A c \in Callers : sent(c).hook = c
    OBVIOUS
  <2> HIDE DEF sent
  <2> QED  BY <2>1, <2>2
<1>2. ASSUME NEW c \in Callers, Claimable(c)
      PROVE  /\ Fate(c) = "pending" /\ Fate(c)' = "pending"
             /\ outbox[c].attempts < MaxAttempts
             /\ outbox'[c].attempts = outbox[c].attempts + 1
  <2>1. /\ outbox'[c].attempts = outbox[c].attempts + 1 /\ outbox'[c].state = "row"
        /\ outbox'[c].delivered = outbox[c].delivered
    BY <1>2, RowsClaimed
  <2>2. /\ outbox[c].state = "row" /\ ~outbox[c].delivered /\ outbox[c].attempts < MaxAttempts
        /\ outbox[c].attempts \in Nat
    BY <1>2, OutboxConstants DEF Claimable, OutboxInv, OutboxTypes, Row
  <2>3. \E p \in posts' : p.hook = c
    BY <1>2, <1>1
  <2> QED  BY <2>1, <2>2, <2>3, OutboxConstants DEF Fate
<1>3. ASSUME NEW c \in Callers, ~Claimable(c)
      PROVE  Fate(c)' = Fate(c) /\ outbox'[c].attempts = outbox[c].attempts
  <2>1. outbox'[c] = outbox[c]
    BY <1>3, RowsClaimed
  <2>2. (\E p \in posts' : p.hook = c) <=> (\E p \in posts : p.hook = c)
    BY <1>3, <1>1
  <2> QED  BY <2>1, <2>2 DEF Fate
<1>4. PICK batch \in SUBSET Callers : batch = claimed
  OBVIOUS
<1>5. Queue!Try(batch)
  BY <1>1, <1>2, <1>3, <1>4 DEF Queue!Try
<1> QED  BY <1>5 DEF Queue!Next

LEMMA CopyArrives ==
  ASSUME OutboxInv, NEW p \in posts, DeliverOutboxWebhook(p)
  PROVE  Queue!Next
<1>1. /\ p \in Post /\ p.hook \in Callers /\ received[p.hook] < outbox[p.hook].attempts
      /\ received \in [Callers -> Nat]
  BY DeliverKeeps DEF OutboxInv, OutboxTypes, Post
<1>2. /\ outbox' = outbox
      /\ \/ posts' = At(p, "accepted") \/ posts' = At(p, "failed")
      /\ \/ received' = [received EXCEPT ![p.hook] = @ + 1]
         \/ received' = received
  BY DEF DeliverOutboxWebhook
<1>3. PICK q : posts' = (posts \ {p}) \cup {q} /\ q.hook = p.hook
  <2>1. /\ [p EXCEPT !.stage = "accepted"].hook = p.hook
        /\ [p EXCEPT !.stage = "failed"].hook = p.hook
    BY <1>1 DEF Post
  <2> QED  BY <1>2, <2>1 DEF At
<1>4. \A c \in Callers : (\E r \in posts' : r.hook = c) <=> (\E r \in posts : r.hook = c)
  BY <1>3
<1>5. \A c \in Callers : Fate(c)' = Fate(c)
  BY <1>2, <1>4, SameFate
<1>6. CASE received' = received
  BY <1>2, <1>4, <1>6, EndingGivesUp
<1>7. CASE received' = [received EXCEPT ![p.hook] = @ + 1]
  <2>1. Queue!Arrive(p.hook)
    BY <1>1, <1>2, <1>5, <1>7 DEF Queue!Arrive
  <2> QED  BY <1>1, <2>1 DEF Queue!Next
<1> QED  BY <1>2, <1>6, <1>7

(* The mark of an accepted POST confirms the webhook, once.                *)
LEMMA MarkConfirms ==
  ASSUME OutboxInv, NEW p \in posts, p.stage = "accepted", UNCHANGED received,
         outbox' = [outbox EXCEPT ![p.hook].delivered = TRUE],
         posts' = posts \ {p} \/ posts' = At(p, "failed")
  PROVE  Queue!Next
<1> DEFINE d == p.hook
<1>1. /\ p \in Post /\ d \in Callers /\ outbox[d].state = "row" /\ received[d] > 0
      /\ OutboxTypes
  BY DEF OutboxInv, OutboxTypes, Post, PostsSound
<1>2. [p EXCEPT !.stage = "failed"].hook = d
  BY <1>1 DEF Post
<1>3. \A c \in Callers : c # d => ((\E q \in posts' : q.hook = c) <=> (\E q \in posts : q.hook = c))
  BY <1>2 DEF At
<1>4. /\ outbox'[d].delivered /\ outbox'[d].state = "row"
      /\ outbox'[d].attempts = outbox[d].attempts
      /\ \A c \in Callers : c # d => outbox'[c] = outbox[c]
  BY <1>1, RowsKept
<1>5. \A c \in Callers : c # d => Fate(c)' = Fate(c)
  BY <1>3, <1>4, SameFate
<1>6. Fate(d)' = "confirmed" /\ Fate(d) \in {"pending", "confirmed"}
  BY <1>1, <1>4 DEF Fate
<1>7. \A c \in Callers : outbox'[c].attempts = outbox[c].attempts
  BY <1>4
<1>8. CASE Fate(d) = "pending"
  <2>1. Queue!Confirm(d)
    BY <1>1, <1>5, <1>6, <1>7, <1>8 DEF Queue!Confirm
  <2> QED  BY <1>1, <2>1 DEF Queue!Next
<1>9. CASE Fate(d) = "confirmed"
  <2>1. Queue!GiveUp({})
    BY <1>5, <1>6, <1>7, <1>9 DEF Queue!GiveUp
  <2> QED  BY <2>1 DEF Queue!Next
<1> QED  BY <1>6, <1>8, <1>9

-----------------------------------------------------------------------------
(* What a step of the deliveries does to the outbox.                       *)
LEMMA StepsOfTheOutbox ==
  ASSUME [Next]_vars
  PROVE  \/ UNCHANGED <<alerter, outbox, posts, received>>
         \/ \E c \in Callers : \/ \E m \in Months : ClaimAlert(c, m) \/ ClaimAlertFails(c, m)
                               \/ RaiseAlert(c)
                               \/ WebhookDue(c)
         \/ \E j \in Ticks : ClaimPendingWebhooks(j) \/ Die(j)
         \/ \E old \in SUBSET Prunable : CleanupWebhookOutbox(old)
         \/ \E p \in posts : \/ DeliverOutboxWebhook(p) \/ MarkWebhookDelivered(p)
                             \/ MarkDeliveredFails(p) \/ MarkWebhookFailed(p)
                             \/ DeliveryThrows(p)
<1>1. CASE UNCHANGED vars
  BY <1>1 DEF vars, outboxVars
<1>2. ASSUME NEW c \in Callers, Alert(c)
      PROVE  (\E m \in Months : ClaimAlert(c, m) \/ ClaimAlertFails(c, m)) \/ RaiseAlert(c)
  BY <1>2 DEF Alert
<1>3. ASSUME \/ \E r \in Requests : Record(r)
             \/ \E h \in Handlers : Webhook(h)
             \/ \E r \in reports : Report(r)
      PROVE  UNCHANGED outboxVars
  BY <1>3 DEF Record, Webhook, Report
<1>4. ASSUME NEW j \in Ticks, Work(j)
      PROVE  \/ UNCHANGED outboxVars
             \/ ClaimPendingWebhooks(j)
             \/ \E old \in SUBSET Prunable : CleanupWebhookOutbox(old)
  BY <1>4 DEF Work, StartTick, RunReconciliationSweep, TryDeliver, Claim, Delivered, Flush,
              Reported, Prune
<1>5. ASSUME Due PROVE UNCHANGED outboxVars \/ \E c \in Callers : WebhookDue(c)
  BY <1>5 DEF Due
<1>6. ASSUME Errors
      PROVE  \/ UNCHANGED outboxVars
             \/ \E j \in Ticks : Die(j)
             \/ \E p \in posts : DeliveryThrows(p)
             \/ UNCHANGED <<alerter, outbox, posts, received>>
  BY <1>6 DEF Errors, SweepThrows, LoseLock, ReportThrows
<1>7. ASSUME NEW p \in posts, Deliver(p)
      PROVE  \/ DeliverOutboxWebhook(p) \/ MarkWebhookDelivered(p)
             \/ MarkDeliveredFails(p) \/ MarkWebhookFailed(p)
  BY <1>7 DEF Deliver
<1>8. UNCHANGED outboxVars => UNCHANGED <<alerter, outbox, posts, received>>
  BY DEF outboxVars
<1>9. CASE Next
  <2>1. Step
    BY <1>9 DEF Next
  <2> QED  BY <1>2, <1>3, <1>4, <1>5, <1>6, <1>7, <1>8, <2>1 DEF Step
<1> QED  BY <1>1, <1>9

LEMMA OutboxStep ==
  ASSUME OutboxInv, [Next]_vars
  PROVE  OutboxInv'
<1>1. CASE UNCHANGED <<alerter, outbox, posts, received>>
  <2>1. \A c \in Callers : Open(c)' = Open(c)
    BY <1>1 DEF Open
  <2> QED  BY <1>1, <2>1 DEF OutboxInv, OutboxTypes, Unsent, PostsSound, CopiesCounted
<1>2. ASSUME NEW c \in Callers,
             \/ \E m \in Months : ClaimAlert(c, m) \/ ClaimAlertFails(c, m)
             \/ RaiseAlert(c)
      PROVE  OutboxInv'
  BY <1>2, AlertKeeps
<1>3. ASSUME NEW p \in posts,
             \/ DeliverOutboxWebhook(p) \/ MarkWebhookDelivered(p)
             \/ MarkDeliveredFails(p) \/ MarkWebhookFailed(p) \/ DeliveryThrows(p)
      PROVE  OutboxInv'
  BY <1>3, DeliverKeeps, MarksKeep, MarkFailsKeeps, ThrowKeeps
<1>4. ASSUME NEW c \in Callers, WebhookDue(c) PROVE OutboxInv'
  BY <1>4, DueKeeps
<1>5. ASSUME NEW j \in Ticks, ClaimPendingWebhooks(j) \/ Die(j) PROVE OutboxInv'
  BY <1>5, ClaimKeeps, DieKeeps
<1>6. ASSUME NEW old \in SUBSET Prunable, CleanupWebhookOutbox(old) PROVE OutboxInv'
  BY <1>6, CleanupKeeps
<1> QED  BY <1>1, <1>2, <1>3, <1>4, <1>5, <1>6, StepsOfTheOutbox

LEMMA OutboxHolds == Spec => []OutboxInv
<1>1. Init => OutboxInv
  BY InitOutbox DEF Init
<1>2. OutboxInv /\ [Next]_vars => OutboxInv'
  BY OutboxStep
<1> QED  BY <1>1, <1>2, PTL DEF Spec

LEMMA InitialQueue == OutboxInit => Queue!Init
BY RowsOfACall DEF OutboxInit, Queue!Init, Fate

LEMMA QueueStep ==
  ASSUME OutboxInv, [Next]_vars
  PROVE  Queue!Next \/ UNCHANGED Queue!vars
<1> USE DEF OutboxInv
<1>1. CASE UNCHANGED <<outbox, posts, received>>
  BY <1>1, EndingGivesUp
<1>2. ASSUME NEW c \in Callers,
             \/ \E m \in Months : ClaimAlert(c, m) \/ ClaimAlertFails(c, m)
             \/ RaiseAlert(c)
      PROVE  Queue!Next
  <2>1. /\ UNCHANGED <<posts, received>>
        /\ \/ outbox' = outbox
           \/ outbox[c] = NoRow /\ outbox' = [outbox EXCEPT ![c] = NewRow]
    BY <1>2 DEF ClaimAlert, ClaimAlertFails, RaiseAlert, EnqueueWebhook, EnqueueFails,
                DeliverDirectly, AlerterDies, Alerts, OutboxTypes, Unsent
  <2>2. CASE outbox' = outbox
    BY <2>1, <2>2, EndingGivesUp
  <2> QED  BY <2>1, <2>2, EnqueueSends
<1>3. ASSUME NEW p \in posts, MarkWebhookDelivered(p) PROVE Queue!Next
  BY <1>3, MarkConfirms DEF MarkWebhookDelivered
<1>4. ASSUME NEW p \in posts, MarkDeliveredFails(p) PROVE Queue!Next
  <2>1. CASE outbox' = [outbox EXCEPT ![p.hook].delivered = TRUE]
    BY <1>4, <2>1, MarkConfirms DEF MarkDeliveredFails
  <2>2. CASE outbox' = outbox
    <3>1. [p EXCEPT !.stage = "failed"].hook = p.hook
      BY DEF OutboxTypes, Post
    <3>2. \A c \in Callers : (\E q \in posts' : q.hook = c) => (\E q \in posts : q.hook = c)
      BY <1>4, <3>1 DEF MarkDeliveredFails, At
    <3> QED  BY <1>4, <2>2, <3>2, EndingGivesUp DEF MarkDeliveredFails
  <2> QED  BY <1>4, <2>1, <2>2 DEF MarkDeliveredFails
<1>5. ASSUME NEW p \in posts, MarkWebhookFailed(p) PROVE Queue!Next
  <2>1. p.hook \in Callers /\ outbox[p.hook].state = "row"
    BY DEF OutboxTypes, Post, PostsSound
  <2>2. /\ outbox' = [outbox EXCEPT ![p.hook].due = FALSE] /\ UNCHANGED received
        /\ posts' \subseteq posts
    BY <1>5 DEF MarkWebhookFailed
  <2>3. \A c \in Callers : /\ outbox'[c].state = outbox[c].state
                           /\ outbox'[c].delivered = outbox[c].delivered
                           /\ outbox'[c].attempts = outbox[c].attempts
    BY <2>1, <2>2 DEF OutboxTypes, Row
  <2> QED  BY <2>2, <2>3, EndingGivesUp
<1>6. ASSUME NEW p \in posts, DeliveryThrows(p) PROVE Queue!Next
  <2> DEFINE n(q) == [q EXCEPT !.awaited = @ /\ q.worker # p.worker]
  <2>1. UNCHANGED <<outbox, received>> /\ posts' = {n(q) : q \in posts \ {p}}
    BY <1>6 DEF DeliveryThrows, Orphan
  <2>2. \A q \in posts : n(q).hook = q.hook
    BY DEF OutboxTypes, Post
  <2> HIDE DEF n
  <2>3. \A c \in Callers : (\E q \in posts' : q.hook = c) => (\E q \in posts : q.hook = c)
    BY <2>1, <2>2
  <2> QED  BY <2>1, <2>3, EndingGivesUp
<1>7. ASSUME NEW c \in Callers, WebhookDue(c) PROVE Queue!Next
  <2>1. outbox[c].state = "row" /\ outbox' = [outbox EXCEPT ![c].due = TRUE]
        /\ UNCHANGED <<posts, received>>
    BY <1>7 DEF WebhookDue
  <2>2. \A d \in Callers : /\ outbox'[d].state = outbox[d].state
                           /\ outbox'[d].delivered = outbox[d].delivered
                           /\ outbox'[d].attempts = outbox[d].attempts
    BY <2>1 DEF OutboxTypes, Row
  <2> QED  BY <2>1, <2>2, EndingGivesUp
<1>8. ASSUME NEW j \in Ticks, Die(j) PROVE Queue!Next
  BY <1>8, EndingGivesUp DEF Die
<1>9. ASSUME NEW old \in SUBSET Prunable, CleanupWebhookOutbox(old) PROVE Queue!Next
  <2>1. \A c \in Callers : outbox[c] \in Row /\ (c \in old => outbox[c].state = "row")
    BY DEF OutboxTypes, Prunable
  <2>2. \A c \in Callers : /\ outbox'[c].state = "none" <=> outbox[c].state = "none"
                           /\ outbox'[c].delivered = outbox[c].delivered
                           /\ outbox'[c].attempts = outbox[c].attempts
    BY <1>9, <2>1 DEF CleanupWebhookOutbox, Row
  <2> QED  BY <1>9, <2>2, EndingGivesUp DEF CleanupWebhookOutbox
<1>10. ASSUME NEW j \in Ticks, ClaimPendingWebhooks(j) PROVE Queue!Next
  BY <1>10, ClaimTries
<1>11. ASSUME NEW p \in posts, DeliverOutboxWebhook(p) PROVE Queue!Next
  BY <1>11, CopyArrives
<1> QED  BY <1>1, <1>2, <1>3, <1>4, <1>5, <1>6, <1>7, <1>8, <1>9, <1>10, <1>11,
            StepsOfTheOutbox

(* The outbox implements an at-least-once queue: whatever workers die,     *)
(* lose their lock, claim a row again or mark it late, a webhook counts as *)
(* delivered only if a copy arrived, no more copies arrive than attempts   *)
(* were counted and bounded, and it is given up only when these are used   *)
(* up (services/webhookOutbox.ts:40-81).                                   *)
THEOREM OutboxIsAQueue == Spec => WebhooksAtLeastOnce
<1>1. Init => Queue!Init
  BY InitialQueue DEF Init
<1>2. OutboxInv /\ [Next]_vars => [Queue!Next]_(Queue!vars)
  BY QueueStep
<1> QED  BY <1>1, <1>2, OutboxHolds, PTL DEF Spec, WebhooksAtLeastOnce, Queue!Spec

-----------------------------------------------------------------------------
(* Metered usage.                                                          *)
Stages == {"post", "taken", "failed", "refused"}

MeterTypes ==
  /\ meter \in [Requests -> Usage]
  /\ reports \subseteq [request : Requests, worker : Ticks, attempts : 0 .. (MaxMeterAttempts - 1),
                        stage : Stages, awaited : BOOLEAN]
  /\ refused \subseteq Requests

ReportsOf(x) == {r \in reports : r.request = x}

(* Usage that was never recorded is neither reported nor refused; what     *)
(* Stripe has said it took it has taken; a refused row is at rest, and two *)
(* reports of one row cross.                                               *)
MeterInv ==
  /\ MeterTypes
  /\ \A x \in Requests : meter[x].state = "none" => /\ ReportsOf(x) = {} /\ x \notin refused
                                                    /\ ~meter[x].reported
  /\ \A r \in reports : r.stage = "taken" => r.request \in invoiced
  /\ \A x \in Requests : meter[x].reported => x \in invoiced
  /\ \A x \in Requests \ crossed : \A q, r \in ReportsOf(x) : q = r
  /\ \A x \in refused \ crossed : ReportsOf(x) = {} /\ meter[x].attempts = MaxMeterAttempts

LEMMA UsageOfACall ==
  /\ NoUsage \in Usage /\ NewUsage \in Usage /\ LostUsage \in Usage
  /\ ~NoUsage.reported /\ ~NewUsage.reported /\ ~LostUsage.reported
  /\ NoUsage.state = "none" /\ NewUsage.state = "row" /\ LostUsage.state = "lost"
BY MeterConstants DEF NoUsage, NewUsage, LostUsage, Usage

LEMMA InitMeter == MeterInit => MeterInv
BY UsageOfACall DEF MeterInit, MeterInv, MeterTypes, ReportsOf

(* What a step does to the meter that sends no report.                     *)
LEMMA RecordKeeps ==
  ASSUME MeterInv, NEW x \in Requests, RecordMeter(x) \/ RecordMeterFails(x)
  PROVE  MeterInv'
<1> USE DEF MeterInv
<1>1. /\ meter[x].state = "none" /\ UNCHANGED <<reports, invoiced, refused, crossed>>
      /\ \E kept \in {NewUsage, LostUsage} :
           meter' = [meter EXCEPT ![x] = kept]
  BY DEF RecordMeter, RecordMeterFails
<1>2. PICK kept \in Usage : meter' = [meter EXCEPT ![x] = kept] /\ ~kept.reported
                            /\ kept.state # "none"
  BY <1>1, UsageOfACall
<1>3. \A y \in Requests : ReportsOf(y)' = ReportsOf(y)
  BY <1>1 DEF ReportsOf
<1> QED  BY <1>1, <1>2, <1>3 DEF MeterTypes

LEMMA ListKeeps ==
  ASSUME MeterInv, NEW j \in Ticks, NEW linked, ListPendingMeterEvents(j, linked)
  PROVE  MeterInv'
<1> DEFINE sent(x) == [request |-> x, worker |-> j, attempts |-> meter[x].attempts,
                       stage |-> "post", awaited |-> TRUE]
           batch == {x \in Requests : linked /\ Pending(x)}
<1> USE DEF MeterInv
<1>1. /\ reports' = reports \cup {sent(x) : x \in batch}
      /\ crossed' = crossed \cup {x \in batch : \E q \in reports : q.request = x}
      /\ UNCHANGED <<meter, invoiced, refused>>
  BY DEF ListPendingMeterEvents
<1>2. \A x \in batch : /\ x \in Requests /\ meter[x].state = "row"
                        /\ meter[x].attempts < MaxMeterAttempts
  BY DEF Pending
<1>3. \A x \in Requests : meter[x] \in Usage
  BY DEF MeterTypes
<1>4. \A x \in batch : sent(x) \in [request : Requests, worker : Ticks,
                                    attempts : 0 .. (MaxMeterAttempts - 1), stage : Stages,
                                    awaited : BOOLEAN]
  <2> SUFFICES ASSUME NEW x \in batch
               PROVE  meter[x].attempts \in 0 .. (MaxMeterAttempts - 1)
    BY <1>2 DEF Stages
  <2> QED  BY <1>2, <1>3, MeterConstants DEF Usage
<1>5. \A x \in batch : sent(x).request = x /\ sent(x).stage = "post"
  OBVIOUS
<1> HIDE DEF sent, batch
<1>6. MeterTypes'
  BY <1>1, <1>4 DEF MeterTypes
<1>7. \A x \in Requests : \A r \in ReportsOf(x)' :
        r \in ReportsOf(x) \/ (x \in batch /\ r = sent(x))
  BY <1>1, <1>5 DEF ReportsOf
<1>8. \A x \in Requests \ batch : ReportsOf(x)' = ReportsOf(x)
  BY <1>1, <1>5 DEF ReportsOf
<1>9. \A x \in batch : meter[x].state # "none" /\ x \notin refused \ crossed
  BY <1>2, MeterConstants
<1>10. \A x \in Requests \ crossed' :
         /\ x \in Requests \ crossed
         /\ x \in batch => ReportsOf(x) = {}
  BY <1>1 DEF ReportsOf
<1>11. \A r \in reports' : r.stage = "taken" => r.request \in invoiced
  BY <1>1, <1>5
<1>12. \A x \in Requests \ crossed' : \A q, r \in ReportsOf(x)' : q = r
  BY <1>7, <1>10
<1>13. \A x \in refused' \ crossed' : ReportsOf(x)' = {} /\ meter'[x].attempts = MaxMeterAttempts
  BY <1>1, <1>8, <1>9, <1>10 DEF MeterTypes
<1>14. \A x \in Requests : meter'[x].state = "none" =>
         ReportsOf(x)' = {} /\ x \notin refused' /\ ~meter'[x].reported
  BY <1>1, <1>8, <1>9
<1> QED  BY <1>1, <1>6, <1>11, <1>12, <1>13, <1>14

(* One report of one row is answered, or given up with the sweep.          *)
LEMMA ReportsGoOn ==
  ASSUME MeterInv, UNCHANGED <<meter, refused, crossed>>, invoiced \subseteq invoiced',
         reports' \subseteq [request : Requests, worker : Ticks,
                             attempts : 0 .. (MaxMeterAttempts - 1), stage : Stages,
                             awaited : BOOLEAN],
         \A r \in reports' : /\ \E q \in reports : q.request = r.request
                             /\ r.stage = "taken" => r.request \in invoiced',
         \A q, r \in reports' : q.request = r.request /\ r.request \notin crossed => q = r
  PROVE  MeterInv'
<1> USE DEF MeterInv
<1>1. MeterTypes'
  BY DEF MeterTypes
<1>2. \A x \in Requests : ReportsOf(x) = {} => ReportsOf(x)' = {}
  BY DEF ReportsOf
<1>3. \A x \in Requests \ crossed : \A q, r \in ReportsOf(x)' : q = r
  BY DEF ReportsOf
<1>4. \A x \in refused : x \in Requests
  BY DEF MeterTypes
<1> QED  BY <1>1, <1>2, <1>3, <1>4

LEMMA AnswerKeeps ==
  ASSUME MeterInv, NEW r \in reports, CreateStripeMeterEvent(r)
  PROVE  MeterInv'
<1> USE DEF MeterInv
<1>1. PICK stage \in Stages \ {"post"} :
        /\ reports' = (reports \ {r}) \cup {[r EXCEPT !.stage = stage]}
        /\ stage = "taken" => r.request \in invoiced'
  BY DEF CreateStripeMeterEvent, Turns, Stages
<1>2. /\ UNCHANGED <<meter, refused, crossed>> /\ invoiced \subseteq invoiced'
  BY DEF CreateStripeMeterEvent
<1> DEFINE n == [r EXCEPT !.stage = stage]
<1>3. /\ n \in [request : Requests, worker : Ticks, attempts : 0 .. (MaxMeterAttempts - 1),
                stage : Stages, awaited : BOOLEAN]
      /\ n.request = r.request /\ n.stage = stage
  BY DEF MeterTypes
<1> HIDE DEF n
<1>4. \A p, q \in reports : p.request = q.request /\ q.request \notin crossed => p = q
  BY DEF MeterTypes, ReportsOf
<1>5. reports' = (reports \ {r}) \cup {n}
  BY <1>1 DEF n
<1>6. reports' \subseteq [request : Requests, worker : Ticks,
                          attempts : 0 .. (MaxMeterAttempts - 1), stage : Stages,
                          awaited : BOOLEAN]
  BY <1>3, <1>5 DEF MeterTypes
<1>7. \A p \in reports' : /\ \E q \in reports : q.request = p.request
                          /\ p.stage = "taken" => p.request \in invoiced'
  BY <1>1, <1>2, <1>3, <1>5
<1>8. \A p, q \in reports' : p.request = q.request /\ q.request \notin crossed => p = q
  BY <1>3, <1>4, <1>5
<1> QED  BY <1>2, <1>6, <1>7, <1>8, ReportsGoOn

LEMMA ReportThrowsKeeps ==
  ASSUME MeterInv, NEW p \in reports, ReportThrows(p)
  PROVE  MeterInv'
<1> DEFINE n(q) == [q EXCEPT !.awaited = @ /\ q.worker # p.worker]
           Report2 == [request : Requests, worker : Ticks, attempts : 0 .. (MaxMeterAttempts - 1),
                       stage : Stages, awaited : BOOLEAN]
<1> USE DEF MeterInv
<1>1. UNCHANGED <<meter, refused, crossed, invoiced>> /\ reports' = {n(q) : q \in reports \ {p}}
  BY DEF ReportThrows, Orphan
<1>2. ASSUME NEW q \in reports
      PROVE  n(q) \in Report2 /\ n(q).request = q.request /\ n(q).stage = q.stage
  BY DEF MeterTypes
<1> HIDE DEF n
<1>3. \A t, q \in reports : t.request = q.request /\ q.request \notin crossed => t = q
  BY DEF MeterTypes, ReportsOf
<1>4. reports' \subseteq Report2
  BY <1>1, <1>2
<1>5. \A t \in reports' : /\ \E q \in reports : q.request = t.request
                          /\ t.stage = "taken" => t.request \in invoiced'
  BY <1>1, <1>2
<1>6. \A s, t \in reports' : s.request = t.request /\ t.request \notin crossed => s = t
  BY <1>1, <1>2, <1>3
<1> QED  BY <1>1, <1>4, <1>5, <1>6, ReportsGoOn

LEMMA DieKeepsMeter ==
  ASSUME MeterInv, NEW j \in Ticks, Die(j)
  PROVE  MeterInv'
<1> USE DEF MeterInv
<1>1. UNCHANGED <<meter, refused, crossed, invoiced>> /\ reports' \subseteq reports
  BY DEF Die
<1>2. \A p, q \in reports : p.request = q.request /\ q.request \notin crossed => p = q
  BY DEF MeterTypes, ReportsOf
<1> QED  BY <1>1, <1>2, ReportsGoOn DEF MeterTypes

(* A report ends with a mark on its row.                                   *)
LEMMA MeterMarksKeep ==
  ASSUME MeterInv, NEW r \in reports, MarkMeterReported(r) \/ RecordMeterFailure(r)
  PROVE  MeterInv'
<1> DEFINE x == r.request
<1> USE DEF MeterInv
<1>1. /\ x \in Requests /\ r \in ReportsOf(x) /\ meter[x].state # "none" /\ meter[x] \in Usage
      /\ r.attempts + 1 \in 0 .. MaxMeterAttempts
  BY MeterConstants DEF MeterTypes, ReportsOf
<1>2. reports' = reports \ {r} /\ UNCHANGED <<invoiced, crossed>>
  BY DEF MarkMeterReported, RecordMeterFailure
<1>3. \A y \in Requests : ReportsOf(y)' \subseteq ReportsOf(y)
  BY <1>2 DEF ReportsOf
<1>4. x \notin crossed => ReportsOf(x)' = {} /\ x \notin refused
  BY <1>1, <1>2 DEF ReportsOf
<1>5. /\ meter' \in [Requests -> Usage]
      /\ \A y \in Requests : y # x => meter'[y] = meter[y]
      /\ meter'[x].state = meter[x].state
      /\ meter'[x].reported => x \in invoiced
      /\ refused' \subseteq refused \cup {x}
      /\ x \in refused' \ refused => meter'[x].attempts = MaxMeterAttempts
  <2>1. CASE MarkMeterReported(r)
    <3>1. /\ meter' = [meter EXCEPT ![x].reported = TRUE] /\ refused' = refused
          /\ x \in invoiced
      BY <2>1 DEF MarkMeterReported
    <3> HIDE DEF x
    <3>2. /\ meter' \in [Requests -> Usage]
          /\ \A y \in Requests : y # x => meter'[y] = meter[y]
          /\ meter'[x].state = meter[x].state
      BY <1>1, <3>1 DEF MeterTypes, Usage
    <3> QED  BY <1>1, <3>1, <3>2
  <2>2. CASE RecordMeterFailure(r)
    <3>1. PICK a \in 0 .. MaxMeterAttempts, b \in BOOLEAN :
            /\ meter' = [meter EXCEPT ![x].attempts = a, ![x].due = b]
            /\ refused' = refused \/ (refused' = refused \cup {x} /\ a = MaxMeterAttempts)
      <4>1. CASE r.stage = "refused"
        <5>1. /\ meter' = [meter EXCEPT ![x].attempts = MaxMeterAttempts, ![x].due = TRUE]
              /\ refused' = refused \cup {x}
          BY <2>2, <4>1 DEF RecordMeterFailure
        <5>2. MaxMeterAttempts \in 0 .. MaxMeterAttempts
          BY MeterConstants
        <5> QED  BY <5>1, <5>2, Zenon
      <4>2. CASE r.stage # "refused"
        <5>1. /\ meter' = [meter EXCEPT ![x].attempts = r.attempts + 1, ![x].due = FALSE]
              /\ refused' = refused
          BY <2>2, <4>2 DEF RecordMeterFailure
        <5> QED  BY <1>1, <5>1
      <4> QED  BY <4>1, <4>2
    <3>2. /\ meter' \in [Requests -> Usage]
          /\ \A y \in Requests : y # x => meter'[y] = meter[y]
          /\ meter'[x].state = meter[x].state
          /\ meter'[x].reported = meter[x].reported
          /\ meter'[x].attempts = a
      BY <1>1, <3>1 DEF MeterTypes, Usage
    <3> QED  BY <1>1, <3>1, <3>2
  <2> QED  BY <2>1, <2>2
<1> HIDE DEF x
<1>6. MeterTypes'
  BY <1>1, <1>2, <1>5 DEF MeterTypes
<1>7. \A y \in refused' \ crossed' : ReportsOf(y)' = {} /\ meter'[y].attempts = MaxMeterAttempts
  BY <1>1, <1>2, <1>3, <1>4, <1>5 DEF MeterTypes
<1>8. \A y \in Requests \ crossed' : \A p, q \in ReportsOf(y)' : p = q
  BY <1>2, <1>3
<1>9. \A y \in Requests : /\ meter'[y].state = "none" => /\ ReportsOf(y)' = {} /\ y \notin refused'
                                                         /\ ~meter'[y].reported
                          /\ meter'[y].reported => y \in invoiced'
  BY <1>1, <1>2, <1>3, <1>5
<1>10. \A p \in reports' : p.stage = "taken" => p.request \in invoiced'
  BY <1>2
<1> QED  BY <1>6, <1>7, <1>8, <1>9, <1>10

(* Rows that come due and rows that are pruned.                            *)
LEMMA MeterRowsKeep ==
  ASSUME MeterInv, UNCHANGED <<reports, invoiced, refused, crossed>>,
         meter' \in [Requests -> Usage],
         \A x \in Requests : /\ meter'[x].state = "none" => meter[x].state = "none"
                             /\ meter'[x].reported = meter[x].reported
                             /\ meter'[x].attempts = meter[x].attempts
  PROVE  MeterInv'
<1>1. \A x \in Requests : ReportsOf(x)' = ReportsOf(x)
  BY DEF ReportsOf
<1> QED  BY <1>1 DEF MeterInv, MeterTypes

LEMMA MeterDueKeeps ==
  ASSUME MeterInv, NEW x \in Requests, MeterDue(x)
  PROVE  MeterInv'
<1>1. /\ UNCHANGED <<reports, invoiced, refused, crossed>> /\ meter \in [Requests -> Usage]
      /\ meter' = [meter EXCEPT ![x].due = TRUE]
  BY DEF MeterDue, MeterInv, MeterTypes
<1>2. /\ meter' \in [Requests -> Usage]
      /\ \A y \in Requests : /\ meter'[y].state = meter[y].state
                             /\ meter'[y].reported = meter[y].reported
                             /\ meter'[y].attempts = meter[y].attempts
  BY <1>1 DEF Usage
<1> QED  BY <1>1, <1>2, MeterRowsKeep

LEMMA MeterCleanupKeeps ==
  ASSUME MeterInv, NEW old, NEW linked, CleanupMeterEvents(old, linked)
  PROVE  MeterInv'
<1>1. /\ UNCHANGED <<reports, invoiced, refused, crossed>>
      /\ \A x \in Requests : meter[x] \in Usage
  BY DEF CleanupMeterEvents, MeterInv, MeterTypes
<1>2. /\ meter' = [x \in Requests |-> meter'[x]]
      /\ \A x \in Requests : \/ meter'[x] = meter[x]
                             \/ meter'[x] = [meter[x] EXCEPT !.state = "pruned"]
                             \/ meter'[x] = [meter[x] EXCEPT !.state = "abandoned"]
  BY <1>1 DEF CleanupMeterEvents, Usage
<1>3. \A x \in Requests : /\ meter'[x] \in Usage
                          /\ meter'[x].state = "none" => meter[x].state = "none"
                          /\ meter'[x].reported = meter[x].reported
                          /\ meter'[x].attempts = meter[x].attempts
  BY <1>1, <1>2 DEF Usage
<1>4. meter' \in [Requests -> Usage]
  BY <1>2, <1>3
<1> QED  BY <1>1, <1>3, <1>4, MeterRowsKeep

(* What a step of the deliveries does to the meter.                        *)
LEMMA StepsOfTheMeter ==
  ASSUME [Next]_vars
  PROVE  \/ UNCHANGED meterVars
         \/ \E x \in Requests : RecordMeter(x) \/ RecordMeterFails(x) \/ MeterDue(x)
         \/ \E j \in Ticks : ListPendingMeterEvents(j, Linked) \/ Die(j)
         \/ \E old : CleanupMeterEvents(old, Linked)
         \/ \E r \in reports : \/ CreateStripeMeterEvent(r) \/ MarkMeterReported(r)
                               \/ RecordMeterFailure(r) \/ ReportThrows(r)
<1>1. CASE UNCHANGED vars
  BY <1>1 DEF vars
<1>2. ASSUME NEW x \in Requests, Record(x) PROVE RecordMeter(x) \/ RecordMeterFails(x)
  BY <1>2 DEF Record
<1>3. ASSUME \/ \E c \in Callers : Alert(c)
             \/ \E h \in Handlers : Webhook(h)
             \/ \E p \in posts : Deliver(p)
      PROVE  UNCHANGED meterVars
  BY <1>3 DEF Alert, Webhook, Deliver
<1>4. ASSUME NEW j \in Ticks, Work(j)
      PROVE  \/ UNCHANGED meterVars
             \/ ListPendingMeterEvents(j, Linked)
             \/ \E old : CleanupMeterEvents(old, Linked)
  <2>1. CASE Prune(j)
    BY <2>1 DEF Prune
  <2>2. CASE Flush(j)
    BY <2>2 DEF Flush
  <2> QED  BY <1>4, <2>1, <2>2 DEF Work, StartTick, RunReconciliationSweep, TryDeliver, Claim,
              Delivered, Reported
<1>5. ASSUME Due PROVE UNCHANGED meterVars \/ \E x \in Requests : MeterDue(x)
  BY <1>5 DEF Due
<1>6. ASSUME Errors
      PROVE  \/ UNCHANGED meterVars
             \/ \E j \in Ticks : Die(j)
             \/ \E r \in reports : ReportThrows(r)
  BY <1>6 DEF Errors, SweepThrows, LoseLock, DeliveryThrows
<1>7. ASSUME NEW r \in reports, Report(r)
      PROVE  CreateStripeMeterEvent(r) \/ MarkMeterReported(r) \/ RecordMeterFailure(r)
  BY <1>7 DEF Report
<1>8. CASE Next
  <2>1. Step
    BY <1>8 DEF Next
  <2> QED  BY <1>2, <1>3, <1>4, <1>5, <1>6, <1>7, <2>1 DEF Step
<1> QED  BY <1>1, <1>8

LEMMA MeterStep ==
  ASSUME MeterInv, [Next]_vars
  PROVE  MeterInv'
<1>1. CASE UNCHANGED meterVars
  <2>1. \A x \in Requests : ReportsOf(x)' = ReportsOf(x)
    BY <1>1 DEF meterVars, ReportsOf
  <2> QED  BY <1>1, <2>1 DEF meterVars, MeterInv, MeterTypes
<1>2. ASSUME NEW x \in Requests, RecordMeter(x) \/ RecordMeterFails(x) \/ MeterDue(x)
      PROVE  MeterInv'
  BY <1>2, RecordKeeps, MeterDueKeeps
<1>3. ASSUME NEW j \in Ticks, ListPendingMeterEvents(j, Linked) \/ Die(j) PROVE MeterInv'
  BY <1>3, ListKeeps, DieKeepsMeter
<1>4. ASSUME NEW old, CleanupMeterEvents(old, Linked) PROVE MeterInv'
  BY <1>4, MeterCleanupKeeps
<1>5. ASSUME NEW r \in reports,
             \/ CreateStripeMeterEvent(r) \/ MarkMeterReported(r)
             \/ RecordMeterFailure(r) \/ ReportThrows(r)
      PROVE  MeterInv'
  BY <1>5, AnswerKeeps, MeterMarksKeep, ReportThrowsKeeps
<1> QED  BY <1>1, <1>2, <1>3, <1>4, <1>5, StepsOfTheMeter

(* Usage counts as reported only when Stripe took it, and what Stripe has  *)
(* refused is not asked again unless two reports of it crossed, whatever   *)
(* fails and whoever dies (billing/repo.ts:441-464).                       *)
THEOREM ReportedIsInvoiced == Spec => []UsageInvoiced
<1>1. Init => MeterInv
  BY InitMeter DEF Init
<1>2. MeterInv /\ [Next]_vars => MeterInv'
  BY MeterStep
<1>3. MeterInv => UsageInvoiced
  BY DEF MeterInv, UsageInvoiced
<1> QED  BY <1>1, <1>2, <1>3, PTL DEF Spec

-----------------------------------------------------------------------------
(* One replica for each piece of work.                                     *)
Carrying(c) == alerter[c].at \in {"claimed", "enqueued", "direct", "posted", "died"}

(* An alert that was claimed has its month in the table.                   *)
AlertInv ==
  /\ \A c \in Callers : Carrying(c) => alerter[c].month \in alertSent
  /\ \A c, d \in Callers : Carrying(c) /\ Carrying(d) /\ alerter[c].month = alerter[d].month => c = d
  /\ faults = 0 => \A m \in alertSent : \E c \in Callers : Carrying(c) /\ alerter[c].month = m

(* A sweep waits for its own POSTs and reports in one phase; while nothing *)
(* fails it holds the lock, and nothing is left behind by it.              *)
TickInv ==
  /\ tick \in [Ticks -> Phases] /\ lock \in [Locks -> Ticks \cup {None}]
  /\ \A j \in Ticks : lock["maintenance"] = j => tick[j] = "reconcile"
  /\ \A p \in posts : p.awaited => tick[p.worker] = "deliver"
  /\ \A r \in reports : r.awaited => tick[r.worker] = "report"
  /\ faults = 0 => /\ \A j \in Ticks : Delivering(j) => lock["delivery"] = j
                   /\ \A p \in posts : p.awaited
                   /\ \A r \in reports : r.awaited
                   /\ crossed = {}

ElectInv == faults \in Nat /\ AlertInv /\ TickInv

LEMMA InitElect == Init => ElectInv
BY DeliveryConstants DEF Init, OutboxInit, MeterInit, ElectInv, AlertInv, TickInv, Carrying,
   Phases, Locks, Delivering

LEMMA Faults ==
  ASSUME faults \in Nat, Fault
  PROVE  faults' \in Nat /\ faults' # 0
BY DEF Fault

LEMMA AlertElects ==
  ASSUME OutboxTypes, faults \in Nat, AlertInv, NEW c \in Callers, Alert(c)
  PROVE  AlertInv'
<1> USE DEF AlertInv
<1>1. ASSUME NEW m \in Months, ClaimAlert(c, m) PROVE AlertInv'
  <2> DEFINE at == IF m \in alertSent THEN "late" ELSE "claimed"
  <2>1. /\ alerter[c].at = "idle" /\ alertSent' = alertSent \cup {m} /\ faults' = faults
        /\ alerter' = [alerter EXCEPT ![c] = [month |-> m, at |-> at]]
    BY <1>1 DEF ClaimAlert, NoFault
  <2>2. /\ alerter'[c].month = m /\ alerter'[c].at = at
        /\ \A d \in Callers : d # c => alerter'[d] = alerter[d]
    BY <2>1 DEF OutboxTypes
  <2>3. /\ ~Carrying(c) /\ (Carrying(c)' <=> m \notin alertSent)
        /\ \A d \in Callers : d # c => (Carrying(d)' <=> Carrying(d))
    BY <2>1, <2>2 DEF Carrying
  <2> QED  BY <2>1, <2>2, <2>3
<1>2. ASSUME NEW m \in Months, ClaimAlertFails(c, m) PROVE AlertInv'
  <2>1. /\ alerter[c].at = "idle" /\ alertSent \subseteq alertSent' /\ faults' # 0
        /\ alerter' = [alerter EXCEPT ![c] = [month |-> m, at |-> "failed"]]
    BY <1>2, Faults DEF ClaimAlertFails
  <2>2. /\ alerter'[c].at = "failed"
        /\ \A d \in Callers : d # c => alerter'[d] = alerter[d]
    BY <2>1 DEF OutboxTypes
  <2>3. ~Carrying(c)' /\ \A d \in Callers : d # c => (Carrying(d)' <=> Carrying(d))
    BY <2>1, <2>2 DEF Carrying
  <2> QED  BY <2>1, <2>2, <2>3
<1>3. ASSUME RaiseAlert(c) PROVE AlertInv'
  <2>1. PICK at \in {"enqueued", "direct", "posted", "died"} :
          /\ alerter[c].at \in {"claimed", "direct"} /\ alertSent' = alertSent
          /\ faults' = faults \/ faults' # 0
          /\ alerter' = [alerter EXCEPT ![c].at = at]
    BY <1>3, Faults DEF RaiseAlert, EnqueueWebhook, EnqueueFails, DeliverDirectly, AlerterDies,
       Alerts, NoFault
  <2>2. /\ alerter'[c].month = alerter[c].month /\ alerter'[c].at = at
        /\ \A d \in Callers : d # c => alerter'[d] = alerter[d]
    BY <2>1 DEF OutboxTypes
  <2>3. /\ Carrying(c) /\ Carrying(c)' /\ \A d \in Callers : Carrying(d)' <=> Carrying(d)
        /\ \A d \in Callers : alerter'[d].month = alerter[d].month
    BY <2>1, <2>2 DEF Carrying
  <2> QED  BY <2>1, <2>3
<1> QED  BY <1>1, <1>2, <1>3 DEF Alert

(* What takes nobody's phase, lock, POST or report.                        *)
LEMMA TicksUntouched ==
  ASSUME TickInv, faults \in Nat, UNCHANGED <<tick, lock>>,
         faults' = faults \/ Fault,
         \A p \in posts' : /\ p.awaited => \E q \in posts : q.awaited /\ q.worker = p.worker
                           /\ (\A q \in posts : q.awaited) => p.awaited,
         \A r \in reports' : /\ r.awaited => \E q \in reports : q.awaited /\ q.worker = r.worker
                             /\ (\A q \in reports : q.awaited) => r.awaited,
         crossed' = crossed
  PROVE  TickInv'
<1>1. faults' = 0 => faults = 0
  BY Faults
<1> QED  BY <1>1 DEF TickInv, Delivering

LEMMA ArrivalsElect ==
  ASSUME OutboxTypes, MeterTypes, TickInv, faults \in Nat,
         \/ \E c \in Callers : Alert(c)
         \/ \E x \in Requests : Record(x)
         \/ \E h \in Handlers : Webhook(h)
         \/ Due
  PROVE  TickInv'
<1>1. UNCHANGED <<tick, lock, posts, reports, crossed>>
  BY DEF Alert, Record, Webhook, Due, ClaimAlert, ClaimAlertFails, RaiseAlert, EnqueueWebhook,
         EnqueueFails, DeliverDirectly, AlerterDies, RecordMeter, RecordMeterFails, WebhookDue,
         MeterDue, outboxVars, meterVars
<1>2. faults' = faults \/ Fault
  BY DEF Alert, Record, Webhook, Due, ClaimAlert, ClaimAlertFails, RaiseAlert, EnqueueWebhook,
         EnqueueFails, DeliverDirectly, AlerterDies, RecordMeter, RecordMeterFails, WebhookDue,
         MeterDue, Receive, Handle, LookupGrant, LookupSubscription, TopUpCredits, TopUpConflicts,
         TopUpFails, ApplySubscriptionUserType, ApplyFails, NoFault
<1> QED  BY <1>1, <1>2, TicksUntouched

LEMMA DeliverElects ==
  ASSUME OutboxTypes, TickInv, faults \in Nat, NEW p \in posts, Deliver(p)
  PROVE  TickInv'
<1>1. /\ UNCHANGED <<tick, lock, reports, crossed>> /\ (faults' = faults \/ Fault)
      /\ \/ posts' = posts \ {p}
         \/ \E stage \in {"accepted", "failed"} : posts' = At(p, stage)
  BY DEF Deliver, DeliverOutboxWebhook, MarkWebhookDelivered, MarkDeliveredFails,
         MarkWebhookFailed, meterVars, NoFault
<1>2. ASSUME NEW stage \in {"accepted", "failed"}, NEW q \in At(p, stage)
      PROVE  q \in posts \/ (q.worker = p.worker /\ q.awaited = p.awaited)
  BY DEF At, OutboxTypes, Post
<1>3. \A q \in posts' : q \in posts \/ (q.worker = p.worker /\ q.awaited = p.awaited)
  BY <1>1, <1>2
<1> QED  BY <1>1, <1>3, TicksUntouched

LEMMA ReportElects ==
  ASSUME MeterTypes, TickInv, faults \in Nat, NEW r \in reports, Report(r)
  PROVE  TickInv'
<1>1. /\ UNCHANGED <<tick, lock, posts, crossed>> /\ faults' = faults
      /\ \/ reports' = reports \ {r}
         \/ \E stage \in Stages : reports' = Turns(r, stage)
  BY DEF Report, CreateStripeMeterEvent, MarkMeterReported, RecordMeterFailure, outboxVars,
         NoFault, Stages
<1>2. ASSUME NEW stage \in Stages, NEW q \in Turns(r, stage)
      PROVE  q \in reports \/ (q.worker = r.worker /\ q.awaited = r.awaited)
  BY DEF Turns, MeterTypes
<1>3. \A q \in reports' : q \in reports \/ (q.worker = r.worker /\ q.awaited = r.awaited)
  BY <1>1, <1>2
<1> QED  BY <1>1, <1>3, TicksUntouched

(* A tick goes from phase to phase.                                        *)
LEMMA TickElects ==
  ASSUME OutboxTypes, MeterTypes, TickInv, faults \in Nat, NEW j \in Ticks, Work(j)
  PROVE  TickInv'
<1> USE DEF TickInv
<1>1. faults' = faults
  BY DEF Work, StartTick, RunReconciliationSweep, TryDeliver, Claim, Delivered, Flush, Reported,
         Prune, NoFault
<1>2. (\A p \in posts : p.worker \in Ticks) /\ (\A r \in reports : r.worker \in Ticks)
  BY DEF OutboxTypes, Post, MeterTypes
<1>3. CASE UNCHANGED <<posts, reports, crossed>>
  <2>1. CASE StartTick(j)
    <3>1. /\ tick[j] = "idle"
          /\ \/ /\ lock["maintenance"] = None
                /\ lock' = [lock EXCEPT !["maintenance"] = j]
                /\ tick' = [tick EXCEPT ![j] = "reconcile"]
             \/ lock' = lock /\ tick' = [tick EXCEPT ![j] = "elect"]
      BY <2>1 DEF StartTick, Take, Goes
    <3>2. CASE tick' = [tick EXCEPT ![j] = "elect"] /\ lock' = lock
      BY <1>1, <1>3, <1>2, <3>1, <3>2 DEF Delivering, Phases
    <3>3. CASE /\ tick' = [tick EXCEPT ![j] = "reconcile"]
               /\ lock' = [lock EXCEPT !["maintenance"] = j]
      <4>1. /\ tick' \in [Ticks -> Phases] /\ lock' \in [Locks -> Ticks \cup {None}]
            /\ lock'["maintenance"] = j /\ lock'["delivery"] = lock["delivery"]
            /\ tick'[j] = "reconcile" /\ \A k \in Ticks : k # j => tick'[k] = tick[k]
        BY <3>3 DEF Phases, Locks
      <4> QED  BY <1>1, <1>3, <1>2, <3>1, <4>1 DEF Delivering
    <3> QED  BY <3>1, <3>2, <3>3
  <2>2. CASE RunReconciliationSweep(j)
    BY <1>1, <1>3, <2>2, DeliveryConstants
       DEF RunReconciliationSweep, Freed, Goes, Delivering, Phases, Locks
  <2>3. CASE TryDeliver(j)
    <3>1. /\ tick[j] = "elect"
          /\ \/ /\ lock["delivery"] = None
                /\ lock' = [lock EXCEPT !["delivery"] = j]
                /\ tick' = [tick EXCEPT ![j] = "claim"]
             \/ lock' = lock /\ tick' = [tick EXCEPT ![j] = "idle"]
      BY <2>3 DEF TryDeliver, Take, Goes
    <3>2. CASE tick' = [tick EXCEPT ![j] = "idle"] /\ lock' = lock
      BY <1>1, <1>3, <1>2, <3>1, <3>2 DEF Delivering, Phases
    <3>3. CASE /\ lock["delivery"] = None
               /\ tick' = [tick EXCEPT ![j] = "claim"]
               /\ lock' = [lock EXCEPT !["delivery"] = j]
      <4>1. /\ tick' \in [Ticks -> Phases] /\ lock' \in [Locks -> Ticks \cup {None}]
            /\ lock'["delivery"] = j /\ lock'["maintenance"] = lock["maintenance"]
            /\ tick'[j] = "claim" /\ \A k \in Ticks : k # j => tick'[k] = tick[k]
        BY <3>3 DEF Phases, Locks
      <4>2. faults = 0 => \A k \in Ticks : ~Delivering(k)
        BY <3>3, DeliveryConstants
      <4> QED  BY <1>1, <1>3, <1>2, <3>1, <4>1, <4>2 DEF Delivering
    <3> QED  BY <3>1, <3>2, <3>3
  <2>4. CASE Delivered(j)
    BY <1>1, <1>3, <2>4 DEF Delivered, Goes, Delivering, Phases, Locks
  <2>5. CASE Reported(j)
    BY <1>1, <1>3, <2>5 DEF Reported, Goes, Delivering, Phases, Locks
  <2>6. CASE Prune(j)
    BY <1>1, <1>3, <2>6, DeliveryConstants
       DEF Prune, EndSweep, Freed, Goes, Delivering, Phases, Locks
  <2>7. CASE Claim(j)
    BY <1>1, <1>3, <2>7 DEF Claim, Goes, Delivering, Phases, Locks
  <2>8. CASE Flush(j)
    BY <1>1, <1>3, <2>8 DEF Flush, Goes, Delivering, Phases, Locks
  <2> QED  BY <2>1, <2>2, <2>3, <2>4, <2>5, <2>6, <2>7, <2>8 DEF Work
<1>4. CASE Claim(j)
  <2>1. /\ tick[j] = "claim" /\ UNCHANGED <<lock, reports, crossed>>
        /\ tick' = [tick EXCEPT ![j] = "deliver"]
    BY <1>4 DEF Claim, Goes, meterVars
  <2>2. ASSUME NEW p \in posts' PROVE p \in posts \/ (p.worker = j /\ p.awaited)
    <3> DEFINE sent(c) == [hook |-> c, worker |-> j, attempts |-> outbox[c].attempts + 1,
                           stage |-> "post", awaited |-> TRUE]
    <3>1. posts' = posts \cup {sent(c) : c \in {c \in Callers : Claimable(c)}}
      BY <1>4 DEF Claim, ClaimPendingWebhooks
    <3>2. \A c \in Callers : sent(c).worker = j /\ sent(c).awaited
      OBVIOUS
    <3> HIDE DEF sent
    <3> QED  BY <3>1, <3>2
  <2> QED  BY <1>1, <2>1, <2>2 DEF Delivering, Phases, Locks
<1>5. CASE Flush(j)
  <2>1. /\ tick[j] = "flush" /\ UNCHANGED <<lock, posts>>
        /\ tick' = [tick EXCEPT ![j] = "report"]
    BY <1>5 DEF Flush, Goes, outboxVars
  <2>2. ASSUME NEW r \in reports' PROVE r \in reports \/ (r.worker = j /\ r.awaited)
    BY <1>5 DEF Flush, ListPendingMeterEvents
  <2>3. faults = 0 => reports = {}
    BY <2>1 DEF Delivering, MeterTypes
  <2>4. faults = 0 => crossed' = crossed
    BY <1>5, <2>3 DEF Flush, ListPendingMeterEvents
  <2> QED  BY <1>1, <2>1, <2>2, <2>4 DEF Delivering, Phases, Locks
<1>6. Claim(j) \/ Flush(j) \/ UNCHANGED <<posts, reports, crossed>>
  BY DEF Work, StartTick, RunReconciliationSweep, TryDeliver, Delivered, Reported, Prune,
         CleanupWebhookOutbox, CleanupMeterEvents, outboxVars, meterVars
<1> QED  BY <1>3, <1>4, <1>5, <1>6

(* A fault may end a sweep, which has given up its POSTs and reports then. *)
LEMMA FaultElects ==
  ASSUME OutboxTypes, MeterTypes, TickInv, faults \in Nat, Errors
  PROVE  TickInv'
<1> USE DEF TickInv
<1>1. faults' # 0
  BY Faults DEF Errors, SweepThrows, Die, LoseLock, DeliveryThrows, ReportThrows
<1>2. ASSUME NEW j \in Ticks, EndSweep(j), tick[j] # "reconcile",
             \A p \in posts' : p.awaited =>
               p.worker # j /\ \E q \in posts : q.awaited /\ q.worker = p.worker,
             \A r \in reports' : r.awaited =>
               r.worker # j /\ \E q \in reports : q.awaited /\ q.worker = r.worker
      PROVE  TickInv'
  BY <1>1, <1>2 DEF EndSweep, Goes, Freed, Phases, Locks
<1>3. ASSUME NEW j \in Ticks, SweepThrows(j) PROVE TickInv'
  <2>1. EndSweep(j) /\ tick[j] \in {"claim", "flush", "prune"} /\ UNCHANGED <<posts, reports>>
    BY <1>3 DEF SweepThrows, outboxVars, meterVars
  <2> QED  BY <1>2, <2>1
<1>4. ASSUME NEW k \in Locks, LoseLock(k) PROVE TickInv'
  <2>1. /\ UNCHANGED <<posts, reports, tick>> /\ lock' = [lock EXCEPT ![k] = None]
    BY <1>4 DEF LoseLock, outboxVars, meterVars
  <2> QED  BY <1>1, <2>1, DeliveryConstants DEF Locks
<1>5. ASSUME NEW j \in Ticks, Die(j) PROVE TickInv'
  <2>1. /\ tick' = [tick EXCEPT ![j] = "idle"]
        /\ lock' = [k \in Locks |-> IF lock[k] = j THEN None ELSE lock[k]]
        /\ posts' = {p \in posts : p.worker # j} /\ reports' = {r \in reports : r.worker # j}
    BY <1>5 DEF Die, Goes
  <2> QED  BY <1>1, <2>1, DeliveryConstants DEF Locks, Phases
<1>6. ASSUME NEW p \in posts, DeliveryThrows(p) PROVE TickInv'
  <2> DEFINE n(q) == [q EXCEPT !.awaited = @ /\ q.worker # p.worker]
  <2>1. posts' = {n(q) : q \in posts \ {p}} /\ reports' = reports /\ p.worker \in Ticks
    BY <1>6 DEF DeliveryThrows, Orphan, meterVars, OutboxTypes, Post
  <2>2. ASSUME NEW q \in posts
        PROVE  n(q).worker = q.worker /\ (n(q).awaited <=> q.awaited /\ q.worker # p.worker)
    BY DEF OutboxTypes, Post
  <2> HIDE DEF n
  <2>3. \A q \in posts' : q.awaited =>
          q.worker # p.worker /\ \E s \in posts : s.awaited /\ s.worker = q.worker
    BY <2>1, <2>2
  <2>4. CASE p.awaited
    <3>1. EndSweep(p.worker) /\ tick[p.worker] = "deliver"
      BY <1>6, <2>4 DEF DeliveryThrows, AbortIfAwaited
    <3> QED  BY <1>2, <2>1, <2>3, <3>1
  <2>5. CASE ~p.awaited
    <3>1. UNCHANGED <<tick, lock>>
      BY <1>6, <2>5 DEF DeliveryThrows, AbortIfAwaited
    <3> QED  BY <1>1, <2>1, <2>3, <3>1
  <2> QED  BY <2>4, <2>5
<1>7. ASSUME NEW p \in reports, ReportThrows(p) PROVE TickInv'
  <2> DEFINE n(q) == [q EXCEPT !.awaited = @ /\ q.worker # p.worker]
  <2>1. reports' = {n(q) : q \in reports \ {p}} /\ posts' = posts /\ p.worker \in Ticks
    BY <1>7 DEF ReportThrows, Orphan, outboxVars, MeterTypes
  <2>2. ASSUME NEW q \in reports
        PROVE  n(q).worker = q.worker /\ (n(q).awaited <=> q.awaited /\ q.worker # p.worker)
    BY DEF MeterTypes
  <2> HIDE DEF n
  <2>3. \A q \in reports' : q.awaited =>
          q.worker # p.worker /\ \E s \in reports : s.awaited /\ s.worker = q.worker
    BY <2>1, <2>2
  <2>4. CASE p.awaited
    <3>1. EndSweep(p.worker) /\ tick[p.worker] = "report"
      BY <1>7, <2>4 DEF ReportThrows, AbortIfAwaited
    <3> QED  BY <1>2, <2>1, <2>3, <3>1
  <2>5. CASE ~p.awaited
    <3>1. UNCHANGED <<tick, lock>>
      BY <1>7, <2>5 DEF ReportThrows, AbortIfAwaited
    <3> QED  BY <1>1, <2>1, <2>3, <3>1
  <2> QED  BY <2>4, <2>5
<1> QED  BY <1>3, <1>4, <1>5, <1>6, <1>7 DEF Errors

LEMMA ElectStep ==
  ASSUME OutboxInv, MeterInv, ElectInv, [Next]_vars
  PROVE  ElectInv'
<1> USE DEF OutboxInv, MeterInv, ElectInv
<1>1. CASE UNCHANGED vars
  BY <1>1 DEF vars, outboxVars, meterVars, AlertInv, TickInv, Carrying, Delivering
<1>2. CASE Next
  <2>1. faults' = faults \/ Fault
    BY <1>2 DEF Next, Step, Alert, Record, Webhook, Due, ClaimAlert, ClaimAlertFails, RaiseAlert,
       EnqueueWebhook, EnqueueFails, DeliverDirectly, AlerterDies, RecordMeter, RecordMeterFails,
       WebhookDue, MeterDue, Receive, Handle, LookupGrant, LookupSubscription, TopUpCredits,
       TopUpConflicts, TopUpFails, ApplySubscriptionUserType, ApplyFails, NoFault, Work,
       StartTick, RunReconciliationSweep, TryDeliver, Claim, Delivered, Flush, Reported, Prune,
       Deliver, DeliverOutboxWebhook, MarkWebhookDelivered, MarkDeliveredFails,
       MarkWebhookFailed, Report, CreateStripeMeterEvent, MarkMeterReported, RecordMeterFailure,
       Errors, SweepThrows, Die, LoseLock, DeliveryThrows, ReportThrows
  <2>2. faults' \in Nat /\ (faults' = 0 => faults = 0)
    BY <2>1, Faults
  <2>3. Step
    BY <1>2 DEF Next
  <2>4. TickInv'
    BY <2>3, ArrivalsElect, DeliverElects, ReportElects, TickElects, FaultElects DEF Step
  <2>5. AlertInv'
    <3>1. (\E c \in Callers : Alert(c)) \/ UNCHANGED <<alertSent, alerter>>
      BY <2>3 DEF Step, Record, Webhook, Due, WebhookDue, Work, StartTick, RunReconciliationSweep,
         TryDeliver, Claim, ClaimPendingWebhooks, Delivered, Flush, Reported, Prune,
         CleanupWebhookOutbox, Deliver, DeliverOutboxWebhook, MarkWebhookDelivered,
         MarkDeliveredFails, MarkWebhookFailed, Report, Errors, SweepThrows, Die, LoseLock,
         DeliveryThrows, ReportThrows, outboxVars
    <3>2. CASE UNCHANGED <<alertSent, alerter>>
      BY <2>2, <3>2 DEF AlertInv, Carrying
    <3> QED  BY <3>1, <3>2, AlertElects
  <2> QED  BY <2>2, <2>4, <2>5
<1> QED  BY <1>1, <1>2

LEMMA AtMostOne ==
  ASSUME NEW S, NEW x, \A y \in S : y = x
  PROVE  Cardinality(S) <= 1 /\ (x \in S => Cardinality(S) = 1)
<1>1. S = {} \/ S = {x}
  OBVIOUS
<1>2. Cardinality({}) = 0 /\ Cardinality({x}) = 1
  BY FS_EmptySet, FS_Singleton
<1> QED  BY <1>1, <1>2

LEMMA ElectedActs ==
  ASSUME OutboxInv, MeterInv, ElectInv
  PROVE  OneReplicaActs
<1> USE DEF OutboxInv, MeterInv, ElectInv
<1>1. ASSUME NEW m \in alertSent
      PROVE  /\ Cardinality(Carriers(m)) <= 1
             /\ faults = 0 => Cardinality(Carriers(m)) = 1
  <2>1. \A c, d \in Carriers(m) : c = d
    BY DEF Carriers, Carrying, AlertInv
  <2>2. CASE Carriers(m) = {}
    <3>1. faults # 0
      BY <2>2 DEF AlertInv, Carriers, Carrying
    <3>2. Cardinality(Carriers(m)) = 0
      BY <2>2, FS_EmptySet
    <3> QED  BY <3>1, <3>2
  <2>3. ASSUME NEW c \in Carriers(m) PROVE Cardinality(Carriers(m)) = 1
    BY <2>1, AtMostOne
  <2> QED  BY <2>2, <2>3
<1>2. ASSUME faults = 0
      PROVE  /\ Cardinality({j \in Ticks : Delivering(j)}) <= 1
             /\ Cardinality({p.worker : p \in posts}) <= 1
  <2>1. \A j \in {i \in Ticks : Delivering(i)} : j = lock["delivery"]
    BY <1>2 DEF TickInv
  <2>2. \A w \in {p.worker : p \in posts} : w = lock["delivery"]
    BY <1>2 DEF TickInv, Delivering, OutboxTypes, Post
  <2> QED  BY <2>1, <2>2, AtMostOne
<1> QED  BY <1>1, <1>2 DEF OneReplicaActs, AlertOncePerMonth, SweepsExclusive, TickInv

(* One call at most carries the alert of a month, exactly one unless a     *)
(* fault met it; one replica at a time delivers and reports unless a fault *)
(* freed its lock, and the lock of the reconciliation is never kept for    *)
(* the delivery (budgetAlertRepo.ts:3-16, maintenance.ts:62-79).           *)
THEOREM WorkIsElected == Spec => []OneReplicaActs
<1>1. Init => OutboxInv /\ MeterInv /\ ElectInv
  BY InitOutbox, InitMeter, InitElect DEF Init
<1>2. OutboxInv /\ MeterInv /\ ElectInv /\ [Next]_vars => (OutboxInv /\ MeterInv /\ ElectInv)'
  BY OutboxStep, MeterStep, ElectStep
<1>3. OutboxInv /\ MeterInv /\ ElectInv => OneReplicaActs
  BY ElectedActs
<1> QED  BY <1>1, <1>2, <1>3, PTL DEF Spec

-----------------------------------------------------------------------------
(* Payments and plans.                                                     *)
HandlersSound ==
  \A h \in Handlers :
    /\ handler[h].at \in {"lookup", "write"} => handler[h].event \in Events
    /\ handler[h].at = "write" =>
         handler[h].tenant \in Tenants /\ (IsGrant(handler[h].event) => Creditable(handler[h].event))

(* What is remembered as processed was credited, and what was credited is  *)
(* remembered for as long as it may be delivered again.                    *)
GrantsSound ==
  /\ grants \in [Events -> Seq(Tenants)]
  /\ \A e \in Events : Len(grants[e]) <= (IF Creditable(e) THEN 1 ELSE 0)
  /\ \A e \in Events : IsGrant(e) =>
       /\ DedupId(e) \in processed => Len(grants[e]) = 1
       /\ Len(grants[e]) = 1 /\ Replayable(e) => DedupId(e) \in processed
       /\ e \in acked /\ Creditable(e) => Len(grants[e]) = 1

(* The guard of an account is the second of its newest event.              *)
PlansSound ==
  \A t \in Tenants :
    /\ \A e \in seen[t] : e.created <= account[t].last
    /\ seen[t] # {} => \E e \in seen[t] : e.created = account[t].last
    /\ seen[t] = {} => account[t].last = 0

StripeInv == StripeTypeOK /\ HandlersSound /\ GrantsSound /\ PlansSound /\ NewestPlanWins

LEMMA InitStripe == StripeInit => StripeInv
<1> SUFFICES ASSUME StripeInit PROVE StripeInv
  OBVIOUS
<1> USE DEF StripeInit
<1>1. StripeTypeOK
  BY StripeConstants DEF StripeTypeOK, Idle
<1>2. HandlersSound
  BY DEF HandlersSound, Idle
<1>3. GrantsSound
  BY DEF GrantsSound
<1>4. PlansSound /\ NewestPlanWins
  BY DEF PlansSound, NewestPlanWins
<1> QED  BY <1>1, <1>2, <1>3, <1>4 DEF StripeInv

(* Two grants are remembered under two names.                              *)
LEMMA NamesDiffer ==
  ASSUME NEW e \in Events, NEW f \in Events, IsGrant(e), IsGrant(f), DedupId(e) = DedupId(f)
  PROVE  e = f
<1>1. e.kind \in {"checkout", "admin"} /\ f.kind \in {"checkout", "admin"}
  BY DEF IsGrant
<1>2. e.kind = "admin" <=> f.kind = "admin"
  BY DEF DedupId
<1>3. e.id = f.id /\ (e.kind = "admin" => e.tenant = f.tenant)
  BY <1>2 DEF DedupId
<1> QED  BY <1>3, StripeConstants

(* A handler that answers, proceeds or gives up does not make an event     *)
(* deliverable again.                                                      *)
LEMMA HandlerMoves ==
  ASSUME StripeTypeOK, NEW h \in Handlers,
         \/ handler' = [handler EXCEPT ![h] = Idle]
         \/ \E t : handler' = [handler EXCEPT ![h].at = "write", ![h].tenant = t],
         UNCHANGED delivered
  PROVE  \A e \in Events : Replayable(e)' => Replayable(e)
<1>1. \A g \in Handlers : handler'[g].event = handler[g].event \/ handler'[g].event = None
  BY DEF StripeTypeOK, Idle
<1> QED  BY <1>1, StripeConstants DEF Replayable

(* A delivery, a lookup and a write that did not happen.                   *)
LEMMA LookupKeeps ==
  ASSUME StripeInv, UNCHANGED <<account, processed, grants, seen, bought>>,
         StripeTypeOK', HandlersSound',
         \A e \in Events : Replayable(e)' => Replayable(e),
         \A e \in acked' : e \in acked \/ ~Creditable(e)
  PROVE  StripeInv'
<1> USE DEF StripeInv
<1>1. GrantsSound'
  BY DEF GrantsSound
<1>2. PlansSound' /\ NewestPlanWins'
  BY DEF PlansSound, NewestPlanWins, Newest
<1> QED  BY <1>1, <1>2

LEMMA ReceiveKeeps ==
  ASSUME StripeInv, NEW h \in Handlers, NEW e \in Events, Receive(h, e)
  PROVE  StripeInv'
<1> USE DEF StripeInv
<1>1. /\ handler[h].at = "idle" /\ delivered[e] < MaxDeliveries
      /\ delivered' = [delivered EXCEPT ![e] = @ + 1]
      /\ handler' = [handler EXCEPT ![h] = [event |-> e, at |-> "lookup", tenant |-> None]]
      /\ UNCHANGED <<account, processed, acked, grants, seen, bought>>
  BY DEF Receive
<1>2. delivered[e] + 1 \in 0 .. MaxDeliveries
  BY <1>1, StripeConstants DEF StripeTypeOK
<1>3. StripeTypeOK'
  BY <1>1, <1>2 DEF StripeTypeOK
<1>4. HandlersSound'
  BY <1>1 DEF StripeTypeOK, HandlersSound
<1>5. \A f \in Events : Replayable(f)' => Replayable(f)
  BY <1>1, StripeConstants DEF StripeTypeOK, Replayable
<1> QED  BY <1>1, <1>3, <1>4, <1>5, LookupKeeps

LEMMA AnswerOrProceedKeeps ==
  ASSUME StripeInv, NEW h \in Handlers, handler[h].at \in {"lookup", "write"},
         UNCHANGED <<account, processed, delivered, grants, seen, bought>>,
         \/ /\ handler' = [handler EXCEPT ![h] = Idle]
            /\ \/ acked' = acked
               \/ /\ acked' = acked \cup {handler[h].event}
                  /\ ~Creditable(handler[h].event)
         \/ /\ \E t \in Tenants : handler' = [handler EXCEPT ![h].at = "write", ![h].tenant = t]
            /\ acked' = acked
            /\ IsGrant(handler[h].event) => Creditable(handler[h].event)
  PROVE  StripeInv'
<1> USE DEF StripeInv
<1>1. handler[h].event \in Events
  BY DEF HandlersSound
<1>2. acked' \subseteq Events /\ \A e \in acked' : e \in acked \/ ~Creditable(e)
  BY <1>1 DEF StripeTypeOK
<1>3. \A e \in Events : Replayable(e)' => Replayable(e)
  BY HandlerMoves
<1>4. CASE handler' = [handler EXCEPT ![h] = Idle]
  <2>1. StripeTypeOK' /\ HandlersSound'
    BY <1>2, <1>4 DEF StripeTypeOK, HandlersSound, Idle
  <2> QED  BY <1>2, <1>3, <2>1, LookupKeeps
<1>5. ASSUME NEW t \in Tenants, handler' = [handler EXCEPT ![h].at = "write", ![h].tenant = t],
             IsGrant(handler[h].event) => Creditable(handler[h].event)
      PROVE  StripeInv'
  <2>1. handler \in [Handlers -> [event : Events \cup {None}, at : {"idle", "lookup", "write"},
                                  tenant : Tenants \cup {None}]]
    BY DEF StripeTypeOK
  <2>2. /\ handler' \in [Handlers -> [event : Events \cup {None}, at : {"idle", "lookup", "write"},
                                      tenant : Tenants \cup {None}]]
        /\ \A g \in Handlers : g # h => handler'[g] = handler[g]
        /\ handler'[h].event = handler[h].event /\ handler'[h].tenant = t
    <3> DEFINE H == [event : Events \cup {None}, at : {"idle", "lookup", "write"},
                     tenant : Tenants \cup {None}]
               n == [handler[h] EXCEPT !.at = "write", !.tenant = t]
    <3>1. handler[h] \in H
      BY <2>1
    <3>2. n \in H /\ n.event = handler[h].event /\ n.tenant = t
      BY <3>1
    <3> HIDE DEF n
    <3>3. handler' = [handler EXCEPT ![h] = n]
      BY <1>5 DEF n
    <3> QED  BY <2>1, <3>2, <3>3
  <2>3. StripeTypeOK'
    BY <1>2, <2>2 DEF StripeTypeOK
  <2>4. HandlersSound'
    BY <1>1, <1>5, <2>2 DEF HandlersSound
  <2> QED  BY <1>2, <1>3, <2>3, <2>4, LookupKeeps
<1> QED  BY <1>4, <1>5

LEMMA LookupsKeep ==
  ASSUME StripeInv, NEW h \in Handlers,
         LookupGrant(h) \/ LookupSubscription(h) \/ TopUpConflicts(h)
  PROVE  StripeInv'
<1> DEFINE e == handler[h].event
           linked == CHOOSE t \in Tenants : account[t].linked
<1>0. e \in Events \/ handler[h].at = "idle"
  BY DEF StripeInv, StripeTypeOK, HandlersSound
<1>1. Linked => linked \in Tenants
  BY DEF Linked
<1>2. CASE LookupGrant(h)
  <2>1. /\ handler[h].at = "lookup" /\ IsGrant(e)
        /\ UNCHANGED <<account, processed, delivered, grants, seen, bought>>
    BY <1>2 DEF LookupGrant
  <2>2. CASE ~Creditable(e)
    BY <1>2, <2>1, <2>2, AnswerOrProceedKeeps DEF LookupGrant, Answer
  <2>3. CASE Creditable(e)
    <3>1. PICK t \in Tenants : Proceed(h, t)
      <4>1. e.tenant \in Tenants \cup {None}
        BY <1>0, <2>1, StripeConstants
      <4> QED  BY <1>1, <1>2, <2>3, <4>1, StripeConstants DEF LookupGrant
    <3> QED  BY <2>1, <2>3, <3>1, AnswerOrProceedKeeps DEF Proceed
  <2> QED  BY <2>2, <2>3
<1>3. CASE LookupSubscription(h)
  <2>1. /\ handler[h].at = "lookup" /\ ~IsGrant(e)
        /\ UNCHANGED <<account, processed, delivered, grants, seen, bought>>
    BY <1>3 DEF LookupSubscription
  <2>2. CASE Answer(h)
    BY <2>1, <2>2, AnswerOrProceedKeeps DEF Answer, Creditable
  <2>3. CASE Linked /\ Proceed(h, linked)
    BY <1>1, <2>1, <2>3, AnswerOrProceedKeeps DEF Proceed
  <2> QED  BY <1>3, <2>2, <2>3 DEF LookupSubscription
<1>4. CASE TopUpConflicts(h)
  BY <1>4, AnswerOrProceedKeeps DEF TopUpConflicts, Rejected
<1> QED  BY <1>2, <1>3, <1>4

(* A grant that is performed credits its event and remembers it.           *)
LEMMA GrantKeeps ==
  ASSUME StripeInv, NEW h \in Handlers, handler[h].at = "write", IsGrant(handler[h].event),
         GrantEffect(handler[h].event, handler[h].tenant),
         handler' = [handler EXCEPT ![h] = Idle],
         acked' \in {acked, acked \cup {handler[h].event}},
         UNCHANGED <<delivered, seen>>
  PROVE  StripeInv'
<1> DEFINE e == handler[h].event
           tenant == handler[h].tenant
<1> USE DEF StripeInv
<1>1. e \in Events /\ tenant \in Tenants /\ IsGrant(e) /\ Creditable(e)
  BY DEF HandlersSound
<1>2. Replayable(e)
  BY DEF Replayable
<1>3. \A f \in Events : Replayable(f)' => Replayable(f)
  BY HandlerMoves
<1>4. acked' \subseteq Events /\ \A f \in acked' : f \in acked \/ f = e
  BY <1>1 DEF StripeTypeOK
<1>5. HandlersSound'
  BY DEF StripeTypeOK, HandlersSound, Idle
<1>6. CASE DedupId(e) \in processed
  <2>1. UNCHANGED <<account, processed, grants, bought>>
    BY <1>6 DEF GrantEffect
  <2>2. StripeTypeOK'
    BY <1>4, <2>1 DEF StripeTypeOK, Idle
  <2>3. Len(grants[e]) = 1
    BY <1>1, <1>6 DEF GrantsSound
  <2>4. GrantsSound'
    BY <1>3, <1>4, <2>1, <2>3 DEF GrantsSound
  <2>5. PlansSound' /\ NewestPlanWins'
    BY <2>1 DEF PlansSound, NewestPlanWins, Newest
  <2> QED  BY <1>5, <2>2, <2>4, <2>5
<1>7. CASE DedupId(e) \notin processed
  <2>1. /\ processed' = processed \cup {DedupId(e)}
        /\ grants' = [grants EXCEPT ![e] = Append(@, tenant)]
        /\ account' = [account EXCEPT ![tenant] =
             [exists |-> TRUE,
              linked |-> account[tenant].linked \/ e.customer,
              type |-> IF e.type # None THEN e.type ELSE account[tenant].type,
              last |-> account[tenant].last]]
        /\ bought' = IF e.type # None THEN bought \cup {tenant} ELSE bought
    BY <1>7 DEF GrantEffect
  <2>2. /\ account' \in [Tenants -> [exists : BOOLEAN, linked : BOOLEAN,
                                     type : {None, Free} \cup {f.type : f \in Events}, last : Nat]]
        /\ \A t \in Tenants : /\ account'[t].last = account[t].last
                              /\ t \notin bought' => account'[t].type = account[t].type
        /\ bought' \subseteq Tenants /\ bought \subseteq bought'
    <3> DEFINE Account == [exists : BOOLEAN, linked : BOOLEAN,
                           type : {None, Free} \cup {f.type : f \in Events}, last : Nat]
               type == IF e.type # None THEN e.type ELSE account[tenant].type
    <3>1. account \in [Tenants -> Account] /\ account[tenant] \in Account
      BY <1>1 DEF StripeTypeOK
    <3>2. type \in {None, Free} \cup {f.type : f \in Events}
      BY <1>1, <3>1
    <3>3. account'[tenant] = [exists |-> TRUE, linked |-> account[tenant].linked \/ e.customer,
                              type |-> type, last |-> account[tenant].last]
      BY <1>1, <2>1, <3>1
    <3> HIDE DEF type
    <3>4. account'[tenant] \in Account
      BY <1>1, <3>1, <3>2, <3>3, StripeConstants
    <3>5. \A t \in Tenants : t # tenant => account'[t] = account[t] /\ account[t] \in Account
      BY <1>1, <2>1 DEF StripeTypeOK
    <3>6. account' = [t \in Tenants |-> account'[t]]
      BY <2>1 DEF StripeTypeOK
    <3>7. account' \in [Tenants -> Account]
      BY <3>4, <3>5, <3>6
    <3>8. \A t \in Tenants : account'[t].last = account[t].last
      BY <3>3, <3>5
    <3>9. tenant \notin bought' => type = account[tenant].type
      BY <2>1 DEF type
    <3>10. \A t \in Tenants : t \notin bought' => account'[t].type = account[t].type
      BY <3>3, <3>5, <3>9
    <3>11. bought' \subseteq Tenants /\ bought \subseteq bought'
      BY <1>1, <2>1 DEF StripeTypeOK
    <3> QED  BY <3>7, <3>8, <3>10, <3>11
  <2>3. StripeTypeOK'
    BY <1>4, <2>2 DEF StripeTypeOK, Idle
  <2>4. Len(grants[e]) = 0 /\ grants[e] \in Seq(Tenants)
    <3>1. grants[e] \in Seq(Tenants) /\ Len(grants[e]) <= 1 /\ Len(grants[e]) # 1
      BY <1>1, <1>2, <1>7 DEF GrantsSound
    <3>2. Len(grants[e]) \in Nat
      BY <3>1
    <3>3. \A n \in Nat : n <= 1 /\ n # 1 => n = 0
      OBVIOUS
    <3> QED  BY <3>1, <3>2, <3>3, Zenon
  <2>5. /\ grants' \in [Events -> Seq(Tenants)] /\ Len(grants'[e]) = 1
        /\ \A f \in Events : f # e => grants'[f] = grants[f]
    BY <1>1, <2>1, <2>4 DEF GrantsSound
  <2>6. \A f \in Events : IsGrant(f) /\ DedupId(f) \in processed' => f = e \/ DedupId(f) \in processed
    BY <1>1, <2>1, NamesDiffer
  <2>7. GrantsSound'
    BY <1>1, <1>3, <1>4, <2>1, <2>5, <2>6 DEF GrantsSound
  <2>8. PlansSound'
    BY <2>2 DEF PlansSound
  <2>9. NewestPlanWins'
    BY <2>2 DEF NewestPlanWins, Newest
  <2> QED  BY <1>5, <2>3, <2>7, <2>8, <2>9
<1> QED  BY <1>6, <1>7

(* The UPDATE of an event applies it to the account if it is the newest.   *)
LEMMA UpdateRow ==
  ASSUME StripeTypeOK, NEW e \in Events, NEW t \in Tenants, ApplyEffect(e, t)
  PROVE  /\ account' \in [Tenants -> [exists : BOOLEAN, linked : BOOLEAN,
                                      type : {None, Free} \cup {f.type : f \in Events},
                                      last : Nat]]
         /\ \A u \in Tenants : u # t => account'[u] = account[u] /\ seen'[u] = seen[u]
         /\ IF Applies(e, account[t].last)
              THEN account'[t].type = NewType(e) /\ account'[t].last = e.created
              ELSE account'[t].type = account[t].type /\ account'[t].last = account[t].last
         /\ seen' \in [Tenants -> SUBSET Events] /\ seen'[t] = seen[t] \cup {e}
         /\ account[t].last \in Nat /\ e.created \in Nat /\ e.created > 0
<1> DEFINE Account == [exists : BOOLEAN, linked : BOOLEAN,
                       type : {None, Free} \cup {f.type : f \in Events}, last : Nat]
<1>1. account \in [Tenants -> Account] /\ account[t] \in Account /\ seen \in [Tenants -> SUBSET Events]
  BY DEF StripeTypeOK
<1>2. seen' = [seen EXCEPT ![t] = @ \cup {e}]
  BY DEF ApplyEffect
<1>3. NewType(e) \in {None, Free} \cup {f.type : f \in Events} /\ e.created \in Nat /\ e.created > 0
  BY StripeConstants DEF NewType
<1>4. CASE Applies(e, account[t].last)
  <2>1. account' = [account EXCEPT ![t].type = NewType(e), ![t].last = e.created]
    BY <1>4 DEF ApplyEffect
  <2>2. /\ account' \in [Tenants -> Account]
        /\ \A u \in Tenants : u # t => account'[u] = account[u]
        /\ account'[t].type = NewType(e) /\ account'[t].last = e.created
    BY <1>1, <1>3, <2>1
  <2> QED  BY <1>1, <1>2, <1>3, <1>4, <2>2
<1>5. CASE ~Applies(e, account[t].last)
  <2>1. account' = account
    BY <1>5 DEF ApplyEffect
  <2> QED  BY <1>1, <1>2, <1>3, <1>5, <2>1
<1> QED  BY <1>4, <1>5

LEMMA ApplyKeepsPlans ==
  ASSUME StripeInv, NEW e \in Events, NEW t \in Tenants, ApplyEffect(e, t)
  PROVE  PlansSound' /\ NewestPlanWins'
<1> USE DEF StripeInv
<1> DEFINE last == account[t].last
<1>1. /\ \A u \in Tenants : u # t => account'[u] = account[u] /\ seen'[u] = seen[u]
      /\ Applies(e, last) => account'[t].type = NewType(e) /\ account'[t].last = e.created
      /\ ~Applies(e, last) => account'[t].type = account[t].type /\ account'[t].last = last
      /\ seen'[t] = seen[t] \cup {e} /\ seen[t] \subseteq Events
      /\ last \in Nat /\ e.created \in Nat /\ e.created > 0
  BY UpdateRow DEF StripeTypeOK
<1>b. bought' = IF Applies(e, last) THEN bought \ {t} ELSE bought
  BY DEF ApplyEffect
<1>2. /\ \A f \in seen[t] : f.created <= last /\ f.created \in Nat
      /\ seen[t] # {} => \E f \in seen[t] : f.created = last
      /\ seen[t] = {} => last = 0
  BY <1>1, StripeConstants DEF PlansSound
<1>3. Applies(e, last) => last <= e.created
  BY <1>1 DEF Applies
<1>4. ~Applies(e, last) => e.created <= last
  BY <1>1 DEF Applies
<1> HIDE DEF last
<1>5. PlansSound'
  <2>1. ASSUME NEW f \in seen'[t] PROVE f.created <= account'[t].last
    <3>1. CASE f = e
      BY <1>1, <1>3, <1>4, <3>1
    <3>2. CASE f \in seen[t]
      BY <1>1, <1>2, <1>3, <1>4, <3>2
    <3> QED  BY <1>1, <3>1, <3>2
  <2>2. \E f \in seen'[t] : f.created = account'[t].last
    <3>1. CASE Applies(e, last)
      BY <1>1, <3>1
    <3>2. CASE ~Applies(e, last)
      <4>1. seen[t] # {}
        BY <1>1, <1>2, <1>4, <3>2
      <4> QED  BY <1>1, <1>2, <3>2, <4>1
    <3> QED  BY <3>1, <3>2
  <2>3. seen'[t] # {}
    BY <1>1
  <2>4. ASSUME NEW u \in Tenants, u # t
        PROVE  /\ \A f \in seen'[u] : f.created <= account'[u].last
               /\ seen'[u] # {} => \E f \in seen'[u] : f.created = account'[u].last
               /\ seen'[u] = {} => account'[u].last = 0
    BY <1>1, <2>4 DEF PlansSound
  <2> QED  BY <2>1, <2>2, <2>3, <2>4 DEF PlansSound
<1>6. NewestPlanWins'
  <2> SUFFICES ASSUME NEW u \in Tenants \ bought', seen'[u] # {}
               PROVE  IF \E f \in Newest(u)' : IsDowngrade(f)
                        THEN account'[u].type = Free
                        ELSE account'[u].type \in {f.type : f \in Newest(u)'}
    BY DEF NewestPlanWins
  <2>1. CASE u # t
    <3>1. Newest(u)' = Newest(u)
      BY <1>1, <2>1 DEF Newest
    <3>2. u \notin bought
      BY <1>b, <2>1
    <3> QED  BY <1>1, <2>1, <3>1, <3>2 DEF NewestPlanWins
  <2>2. CASE u = t /\ e.created > last
    <3>1. Newest(t)' = {e}
      <4>1. \A f \in seen[t] : f.created < e.created
        BY <1>1, <1>2, <2>2
      <4>2. \A f \in seen'[t] : f = e \/ (f.created < e.created /\ f.created \in Nat)
        BY <1>1, <1>2, <4>1
      <4>3. \A f \in seen'[t] : f.created <= e.created
        BY <1>1, <4>2
      <4>4. e \in seen'[t] /\ \A f \in seen'[t] : (e.created <= f.created => f = e)
        BY <1>1, <4>2
      <4> QED  BY <4>3, <4>4 DEF Newest
    <3>2. Applies(e, last)
      BY <1>1, <2>2 DEF Applies
    <3>3. account'[t].type = IF IsDowngrade(e) THEN Free ELSE e.type
      BY <1>1, <3>2 DEF NewType
    <3> QED  BY <2>2, <3>1, <3>3
  <2>3. CASE u = t /\ e.created <= last
    <3>1. seen[t] # {}
      BY <1>1, <1>2, <2>3
    <3>2. Newest(t) = {f \in seen[t] : f.created = last}
      BY <1>1, <1>2, <3>1 DEF Newest
    <3>3. Newest(t)' = {f \in seen'[t] : f.created = last}
      <4>1. \A f \in seen'[t] : f.created <= last /\ f.created \in Nat
        BY <1>1, <1>2, <2>3
      <4>2. \E f \in seen'[t] : f.created = last
        BY <1>1, <1>2, <3>1
      <4> QED  BY <1>1, <4>1, <4>2 DEF Newest
    <3>4. Newest(t)' = IF e.created = last THEN Newest(t) \cup {e} ELSE Newest(t)
      BY <1>1, <3>2, <3>3
    <3>6. CASE e.created = last /\ IsDowngrade(e)
      <4>1. Applies(e, last) /\ NewType(e) = Free
        BY <1>1, <3>6 DEF Applies, NewType
      <4> QED  BY <1>1, <2>3, <3>4, <3>6, <4>1
    <3>7. CASE ~(e.created = last /\ IsDowngrade(e))
      <4>1. ~Applies(e, last)
        BY <1>1, <2>3, <3>7 DEF Applies
      <4>2. account'[t].type = account[t].type /\ u \notin bought
        BY <1>1, <1>b, <4>1
      <4>3. IF \E f \in Newest(t) : IsDowngrade(f)
              THEN account[t].type = Free
              ELSE account[t].type \in {f.type : f \in Newest(t)}
        BY <2>3, <3>1, <4>2 DEF NewestPlanWins
      <4>4. Newest(t) \subseteq Newest(t)' /\ \A f \in Newest(t)' : f \in Newest(t) \/ ~IsDowngrade(f)
        BY <3>4, <3>7
      <4> QED  BY <2>3, <4>2, <4>3, <4>4
    <3> QED  BY <3>6, <3>7
  <2> QED  BY <1>1, <2>1, <2>2, <2>3
<1> QED  BY <1>5, <1>6

LEMMA ApplyKeeps ==
  ASSUME StripeInv, NEW h \in Handlers, handler[h].at = "write", ~IsGrant(handler[h].event),
         ApplyEffect(handler[h].event, handler[h].tenant),
         handler' = [handler EXCEPT ![h] = Idle],
         acked' \in {acked, acked \cup {handler[h].event}},
         UNCHANGED <<processed, delivered, grants>>
  PROVE  StripeInv'
<1> DEFINE e == handler[h].event
           t == handler[h].tenant
<1> USE DEF StripeInv
<1>1. e \in Events /\ t \in Tenants /\ ~IsGrant(e)
  BY DEF HandlersSound
<1>2. acked' \subseteq Events /\ \A f \in acked' : f \in acked \/ f = e
  BY <1>1 DEF StripeTypeOK
<1>3. StripeTypeOK'
  <2>1. bought' \subseteq Tenants
    BY DEF ApplyEffect, StripeTypeOK
  <2> QED  BY <1>1, <1>2, <2>1, UpdateRow DEF StripeTypeOK, Idle
<1>4. HandlersSound'
  BY DEF StripeTypeOK, HandlersSound, Idle
<1>5. \A f \in Events : Replayable(f)' => Replayable(f)
  BY HandlerMoves
<1>6. GrantsSound'
  BY <1>1, <1>2, <1>5 DEF GrantsSound
<1>7. PlansSound' /\ NewestPlanWins'
  BY <1>1, ApplyKeepsPlans
<1> QED  BY <1>3, <1>4, <1>6, <1>7

LEMMA WebhookKeeps ==
  ASSUME StripeInv, NEW h \in Handlers, Handle(h) \/ \E e \in Events : Receive(h, e)
  PROVE  StripeInv'
<1>1. CASE \E e \in Events : Receive(h, e)
  BY <1>1, ReceiveKeeps
<1>2. CASE LookupGrant(h) \/ LookupSubscription(h) \/ TopUpConflicts(h)
  BY <1>2, LookupsKeep
<1>3. CASE TopUpCredits(h)
  BY <1>3, GrantKeeps DEF TopUpCredits, Answer
<1>4. CASE TopUpFails(h)
  <2>1. CASE GrantEffect(handler[h].event, handler[h].tenant)
    BY <1>4, <2>1, GrantKeeps DEF TopUpFails, Rejected
  <2>2. CASE UNCHANGED <<account, processed, grants, bought>>
    BY <1>4, <2>2, AnswerOrProceedKeeps DEF TopUpFails, Rejected
  <2> QED  BY <1>4, <2>1, <2>2 DEF TopUpFails
<1>5. CASE ApplySubscriptionUserType(h)
  BY <1>5, ApplyKeeps DEF ApplySubscriptionUserType, Answer
<1>6. CASE ApplyFails(h)
  <2>1. CASE ApplyEffect(handler[h].event, handler[h].tenant)
    BY <1>6, <2>1, ApplyKeeps DEF ApplyFails
  <2>2. CASE UNCHANGED <<account, seen, bought>>
    BY <1>6, <2>2, AnswerOrProceedKeeps DEF ApplyFails
  <2> QED  BY <1>6, <2>1, <2>2 DEF ApplyFails
<1> QED  BY <1>1, <1>2, <1>3, <1>4, <1>5, <1>6 DEF Handle

(* Only what cannot be delivered again is forgotten.                       *)
LEMMA PruneKeepsStripe ==
  ASSUME StripeInv, NEW old, CleanupStripeProcessedEvents(old)
  PROVE  StripeInv'
<1> USE DEF StripeInv, CleanupStripeProcessedEvents
<1>1. StripeTypeOK' /\ HandlersSound'
  BY DEF StripeTypeOK, HandlersSound
<1>2. \A e \in Events : Replayable(e)' <=> Replayable(e)
  BY DEF Replayable
<1>3. GrantsSound'
  BY <1>2 DEF GrantsSound
<1>4. PlansSound' /\ NewestPlanWins'
  BY DEF PlansSound, NewestPlanWins, Newest
<1> QED  BY <1>1, <1>3, <1>4

(* What a behaviour meets was chosen at its start.                         *)
LEMMA WorkloadStays ==
  ASSUME [Next]_vars
  PROVE  UNCHANGED workload
<1>1. CASE UNCHANGED vars
  BY <1>1 DEF vars
<1>2. ASSUME NEW j \in Ticks, Work(j)
      PROVE  UNCHANGED workload
  BY <1>2 DEF Work, StartTick, RunReconciliationSweep, TryDeliver, Claim, Delivered, Flush,
              Reported, Prune
<1>3. ASSUME Errors
      PROVE  UNCHANGED workload
  BY <1>3 DEF Errors, SweepThrows, Die, LoseLock, DeliveryThrows, ReportThrows
<1>4. ASSUME NEW h \in Handlers, Webhook(h)
      PROVE  UNCHANGED workload
  BY <1>4 DEF Webhook
<1>5. ASSUME NEW c \in Callers, Alert(c)
      PROVE  UNCHANGED workload
  BY <1>5 DEF Alert
<1>6. ASSUME NEW r \in Requests, Record(r)
      PROVE  UNCHANGED workload
  BY <1>6 DEF Record
<1>7. CASE Step
  BY <1>7, <1>2, <1>3, <1>4, <1>5, <1>6 DEF Step, Deliver, Report, Due
<1> QED  BY <1>1, <1>7 DEF Next

(* Every step leaves the payments alone, handles a webhook or prunes.      *)
LEMMA StepsOfPayments ==
  ASSUME workload \in Workloads, [Next]_vars
  PROVE  \/ UNCHANGED stripeVars
         \/ \E h \in Handlers : Handle(h) \/ \E e \in Events : Receive(h, e)
         \/ \E old : CleanupStripeProcessedEvents(old)
<1>1. CASE UNCHANGED vars
  BY <1>1 DEF vars
<1>2. ASSUME NEW j \in Ticks, Prune(j)
      PROVE  \E old : CleanupStripeProcessedEvents(old)
  BY <1>2 DEF Prune
<1>3. ASSUME NEW j \in Ticks, Work(j)
      PROVE  UNCHANGED stripeVars \/ \E old : CleanupStripeProcessedEvents(old)
  BY <1>3, <1>2 DEF Work, StartTick, RunReconciliationSweep, TryDeliver, Claim, Delivered, Flush,
                    Reported
<1>4. ASSUME Errors
      PROVE  UNCHANGED stripeVars
  BY <1>4 DEF Errors, SweepThrows, Die, LoseLock, DeliveryThrows, ReportThrows
<1>5. ASSUME NEW h \in Handlers, Webhook(h)
      PROVE  Handle(h) \/ \E e \in Events : Receive(h, e)
  <2>1. workload.events \subseteq Events
    BY DeliveryConstants
  <2> QED  BY <1>5, <2>1 DEF Webhook
<1>6. ASSUME NEW c \in Callers, Alert(c)
      PROVE  UNCHANGED stripeVars
  BY <1>6 DEF Alert
<1>7. ASSUME NEW r \in Requests, Record(r)
      PROVE  UNCHANGED stripeVars
  BY <1>7 DEF Record
<1>8. ASSUME NEW p \in posts, Deliver(p)
      PROVE  UNCHANGED stripeVars
  BY <1>8 DEF Deliver
<1>9. ASSUME NEW r \in reports, Report(r)
      PROVE  UNCHANGED stripeVars
  BY <1>9 DEF Report
<1>10. ASSUME Due
       PROVE  UNCHANGED stripeVars
  BY <1>10 DEF Due
<1>11. CASE Step
  BY <1>11, <1>3, <1>4, <1>5, <1>6, <1>7, <1>8, <1>9, <1>10 DEF Step
<1> QED  BY <1>1, <1>11 DEF Next

LEMMA StripeStep ==
  ASSUME StripeInv, workload \in Workloads, [Next]_vars
  PROVE  StripeInv'
<1>1. CASE UNCHANGED stripeVars
  <2>1. \A e \in Events : Replayable(e)' <=> Replayable(e)
    BY <1>1 DEF stripeVars, Replayable
  <2> QED  BY <1>1, <2>1 DEF stripeVars, StripeInv, StripeTypeOK, HandlersSound, GrantsSound,
              PlansSound, NewestPlanWins, Newest
<1> QED  BY <1>1, StepsOfPayments, WebhookKeeps, PruneKeepsStripe

(* However often, in whatever order and to however many replicas Stripe    *)
(* delivers: a payment is credited once at most and not before its funds   *)
(* cleared; what was answered with 200 has been, unless it is a checkout   *)
(* the code drops, of no user, another currency or no amount               *)
(* (billing/service.ts:334, 377-384, 394); and the newest subscription     *)
(* event decides the user type, until a checkout or an operator sets it    *)
(* (billing/repo.ts:84-95).                                                *)
THEOREM PaymentsAreExact == Spec => []PaymentsApplyOnce
<1>1. Init => StripeInv /\ workload \in Workloads
  BY InitStripe DEF Init
<1>2. StripeInv /\ workload \in Workloads /\ [Next]_vars => (StripeInv /\ workload \in Workloads)'
  BY StripeStep, WorkloadStays
<1>3. StripeInv => PaymentsApplyOnce
  BY DEF StripeInv, GrantsSound, PaymentsApplyOnce, GrantedOnce, Creditable
<1> QED  BY <1>1, <1>2, <1>3, PTL DEF Spec
==============================================================================
