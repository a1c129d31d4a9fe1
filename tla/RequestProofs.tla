--------------------------- MODULE RequestProofs ---------------------------
(***************************************************************************)
(* Proofs about a request.  First its idempotency key: for any number of   *)
(* requests, bodies and retries, and under every fault of the database and *)
(* the process, as long as no live request outlasts the stale cutoff       *)
(* (Slow = {}); without that hypothesis ReplaySameBody is false.  Then     *)
(* what it reaches, in the data plane: for any tenants, parties, keys,     *)
(* replicas and records.                                                   *)
(***************************************************************************)
EXTENDS Idempotency, DataPlane, FiniteSetTheorems, TLAPS

-----------------------------------------------------------------------------
(* The row belongs to the request that produces: its claim is fresh and    *)
(* carries its body; a completed row keeps the body of the result it holds.*)
OwnerHasRow ==
    \A r \in Requests : pc[r] \in Owning =>
        /\ row # NoRow /\ ~aged
        /\ row.status = "processing" /\ row.by = r /\ row.hash = Body[r]

RowHonest ==
    row # NoRow /\ row.status = "completed" =>
        /\ row.result \in Requests
        /\ Body[row.result] = row.hash

NotYetProduced ==
    \A r \in Requests :
        pc[r] \in {"new", "selecting", "producing"} => outcome[r] = NoAnswer

LostLate ==
    \A r \in Requests : pc[r] = "produced" /\ outcome[r] = "threwLate" => r \in lost

AgedIsClaim == aged => row # NoRow /\ row.status = "processing"

KeyInv ==
    /\ TypeOK /\ LostLate /\ AgedIsClaim /\ NotYetProduced
    /\ OwnerHasRow /\ RowHonest /\ PaidIsReplayed /\ ReplaySameBody

-----------------------------------------------------------------------------
LEMMA InitKey == Init => KeyInv
<1> SUFFICES ASSUME Init PROVE KeyInv
    OBVIOUS
<1>1. TypeOK
    <2>1. tries \in [Requests -> 0 .. ClaimRetries]
        BY RetryAssumption DEF Init
    <2>2. pc \in [Requests -> PC] /\ answer \in [Requests -> Answers]
        BY DEF Init, PC, Answers
    <2> QED BY <2>1, <2>2 DEF Init, TypeOK
<1>2. LostLate /\ AgedIsClaim /\ NotYetProduced /\ OwnerHasRow /\ PaidIsReplayed
    BY DEF Init, LostLate, AgedIsClaim, NotYetProduced, OwnerHasRow, PaidIsReplayed, Owning
<1>3. RowHonest
    BY DEF Init, RowHonest
<1>4. ReplaySameBody
    BY AnswerAssumption DEF Init, ReplaySameBody, NoAnswer
<1> QED BY <1>1, <1>2, <1>3, <1>4 DEF KeyInv

(* Every step of a request or of the sweeps keeps the types.               *)
LEMMA TypeStep == TypeOK /\ RowHonest /\ [Next]_vars => TypeOK'
<1> SUFFICES ASSUME TypeOK, RowHonest, [Next]_vars PROVE TypeOK'
    OBVIOUS
<1> USE RetryAssumption, BodyAssumption DEF TypeOK, PC, Ended, Owning, Answers, RowRecord
<1>1. ASSUME NEW r \in Requests, NEW x \in Results, Claim(r, x) PROVE TypeOK'
    BY <1>1 DEF Claim, Reply
<1>2. ASSUME NEW r \in Requests, ClaimConflicts(r) PROVE TypeOK'
    BY <1>2 DEF ClaimConflicts
<1>3. ASSUME NEW r \in Requests, SelectFindsNothing(r) PROVE TypeOK'
    BY <1>3 DEF SelectFindsNothing, Reply
<1>4. ASSUME NEW r \in Requests, SelectFindsRow(r) PROVE TypeOK'
    BY <1>4 DEF SelectFindsRow, Reply, Verdict, RowHonest
<1>5. ASSUME NEW r \in Requests, SelectFails(r) PROVE TypeOK'
    BY <1>5 DEF SelectFails, Reply
<1>6. ASSUME NEW r \in Requests, NEW o \in Outcomes, Produce(r, o) PROVE TypeOK'
    BY <1>6 DEF Produce
<1>7. ASSUME NEW r \in Requests, NEW x \in Results, Complete(r, x) PROVE TypeOK'
    <2>1. answer' \in [Requests -> Answers] /\ pc' \in [Requests -> PC] /\ lost' \subseteq Requests
        BY <1>7 DEF Complete, Reply, RowHonest
    <2>2. row' \in RowRecord \cup {NoRow}
        BY <1>7 DEF Complete
    <2> QED BY <2>1, <2>2, <1>7 DEF Complete
<1>8. ASSUME NEW r \in Requests, NEW x \in Results, Release(r, x) PROVE TypeOK'
    BY <1>8 DEF Release, Reply, RowHonest
<1>9. ASSUME NEW r \in Requests, Crash(r) PROVE TypeOK'
    BY <1>9 DEF Crash, Outcomes
<1>10. CASE Age BY <1>10 DEF Age
<1>11. CASE SweepStale BY <1>11 DEF SweepStale
<1>12. CASE SweepCompleted BY <1>12 DEF SweepCompleted, RowHonest
<1>13. CASE UNCHANGED vars BY <1>13 DEF vars
<1> QED
    BY <1>1, <1>2, <1>3, <1>4, <1>5, <1>6, <1>7, <1>8, <1>9, <1>10, <1>11, <1>12, <1>13
       DEF Next, Step

(* One step at a time: what a step of r does to the row it may own, and    *)
(* why nobody else owns it then.                                           *)
LEMMA KeyStep == Slow = {} /\ KeyInv /\ [Next]_vars => KeyInv'
<1> SUFFICES ASSUME Slow = {}, KeyInv, [Next]_vars PROVE KeyInv'
    OBVIOUS
<1>0. TypeOK'
    BY TypeStep DEF KeyInv
<1> DEFINE Safe == /\ LostLate /\ AgedIsClaim /\ NotYetProduced /\ OwnerHasRow
                   /\ RowHonest /\ PaidIsReplayed /\ ReplaySameBody
<1> USE DEF KeyInv, TypeOK
<1>1. ASSUME NEW r \in Requests, NEW x \in Results, Claim(r, x) PROVE Safe'
    <2>1. LostLate' /\ AgedIsClaim' /\ NotYetProduced' /\ OwnerHasRow'
        <3>1. ~aged /\ (\A q \in Requests : pc[q] \notin Owning)
            BY <1>1 DEF Claim, AgedIsClaim, OwnerHasRow
        <3>2. LostLate' /\ NotYetProduced' /\ AgedIsClaim'
            BY <1>1, <3>1 DEF Claim, Reply, LostLate, NotYetProduced, AgedIsClaim
        <3>3. CASE Failed(x)
            BY <1>1, <3>1, <3>2, <3>3 DEF Claim, Reply, OwnerHasRow, Owning
        <3>4. CASE ~Failed(x)
            <4>1. row' = [hash |-> Body[r], status |-> "processing", result |-> NoAnswer, by |-> r]
                BY <1>1, <3>4 DEF Claim, Failed, Committed
            <4>2. row' # NoRow
                BY <4>1, BodyAssumption, NoRowAssumption DEF RowRecord
            <4>3. \A q \in Requests : pc'[q] \in Owning => q = r
                BY <1>1, <3>1, <3>4 DEF Claim, Owning
            <4>4. aged' = FALSE
                BY <1>1, <3>1 DEF Claim
            <4>5. row'.status = "processing" /\ row'.by = r /\ row'.hash = Body[r]
                BY <4>1
            <4>6. OwnerHasRow'
                BY <4>2, <4>3, <4>4, <4>5 DEF OwnerHasRow
            <4> QED BY <3>2, <4>6
        <3> QED BY <3>3, <3>4
    <2>2. RowHonest'
        BY <1>1, <1>0, NoRowAssumption, BodyAssumption
        DEF Claim, Reply, RowHonest, OwnerHasRow, Owning, RowRecord
    <2>3. PaidIsReplayed'
        BY <1>1, <1>0, NoRowAssumption
        DEF Claim, Reply, PaidIsReplayed, OwnerHasRow, NotYetProduced, Owning,
            RowRecord, Keeps, Kept, Paid, Outcomes, NoAnswer
    <2>4. ReplaySameBody'
        BY <1>1, <1>0, AnswerAssumption
        DEF Claim, Reply, ReplaySameBody, RowHonest, RowRecord, NoAnswer
    <2> QED BY <2>1, <2>2, <2>3, <2>4
<1>2. ASSUME NEW r \in Requests, ClaimConflicts(r) PROVE Safe'
    <2>1. LostLate' /\ AgedIsClaim' /\ NotYetProduced' /\ OwnerHasRow'
        BY <1>2, <1>0, NoRowAssumption
        DEF ClaimConflicts, LostLate, AgedIsClaim, NotYetProduced, OwnerHasRow,
            Owning, RowRecord
    <2>2. RowHonest'
        BY <1>2, <1>0, NoRowAssumption, BodyAssumption
        DEF ClaimConflicts, RowHonest, OwnerHasRow, Owning, RowRecord
    <2>3. PaidIsReplayed'
        BY <1>2, <1>0, NoRowAssumption
        DEF ClaimConflicts, PaidIsReplayed, OwnerHasRow, NotYetProduced,
            Owning, RowRecord, Keeps, Kept, Paid, Outcomes, NoAnswer
    <2>4. ReplaySameBody'
        BY <1>2, <1>0, AnswerAssumption
        DEF ClaimConflicts, ReplaySameBody, RowHonest, RowRecord, NoAnswer
    <2> QED BY <2>1, <2>2, <2>3, <2>4
<1>3. ASSUME NEW r \in Requests, SelectFindsNothing(r) PROVE Safe'
    <2>1. LostLate' /\ AgedIsClaim' /\ NotYetProduced' /\ OwnerHasRow'
        BY <1>3, <1>0, NoRowAssumption
        DEF SelectFindsNothing, Reply, LostLate, AgedIsClaim, NotYetProduced,
            OwnerHasRow, Owning, RowRecord
    <2>2. RowHonest'
        BY <1>3, <1>0, NoRowAssumption, BodyAssumption
        DEF SelectFindsNothing, Reply, RowHonest, OwnerHasRow, Owning, RowRecord
    <2>3. PaidIsReplayed'
        BY <1>3, <1>0, NoRowAssumption
        DEF SelectFindsNothing, Reply, PaidIsReplayed, OwnerHasRow,
            NotYetProduced, Owning, RowRecord, Keeps, Kept, Paid, Outcomes,
            NoAnswer
    <2>4. ReplaySameBody'
        BY <1>3, <1>0, AnswerAssumption
        DEF SelectFindsNothing, Reply, ReplaySameBody, RowHonest, RowRecord,
            NoAnswer
    <2> QED BY <2>1, <2>2, <2>3, <2>4
<1>4. ASSUME NEW r \in Requests, SelectFindsRow(r) PROVE Safe'
    <2>1. LostLate' /\ AgedIsClaim' /\ NotYetProduced' /\ OwnerHasRow'
        BY <1>4, <1>0, NoRowAssumption
        DEF SelectFindsRow, Reply, Verdict, LostLate, AgedIsClaim,
            NotYetProduced, OwnerHasRow, Owning, RowRecord
    <2>2. RowHonest'
        BY <1>4, <1>0, NoRowAssumption, BodyAssumption
        DEF SelectFindsRow, Reply, Verdict, RowHonest, OwnerHasRow, Owning,
            RowRecord
    <2>3. PaidIsReplayed'
        BY <1>4, <1>0, NoRowAssumption
        DEF SelectFindsRow, Reply, Verdict, PaidIsReplayed, OwnerHasRow,
            NotYetProduced, Owning, RowRecord, Keeps, Kept, Paid, Outcomes,
            NoAnswer
    <2>4. ReplaySameBody'
        BY <1>4, <1>0, AnswerAssumption
        DEF SelectFindsRow, Reply, Verdict, ReplaySameBody, RowHonest,
            RowRecord, NoAnswer
    <2> QED BY <2>1, <2>2, <2>3, <2>4
<1>5. ASSUME NEW r \in Requests, SelectFails(r) PROVE Safe'
    <2>1. LostLate' /\ AgedIsClaim' /\ NotYetProduced' /\ OwnerHasRow'
        BY <1>5, <1>0, NoRowAssumption
        DEF SelectFails, Reply, LostLate, AgedIsClaim, NotYetProduced,
            OwnerHasRow, Owning, RowRecord
    <2>2. RowHonest'
        BY <1>5, <1>0, NoRowAssumption, BodyAssumption
        DEF SelectFails, Reply, RowHonest, OwnerHasRow, Owning, RowRecord
    <2>3. PaidIsReplayed'
        BY <1>5, <1>0, NoRowAssumption
        DEF SelectFails, Reply, PaidIsReplayed, OwnerHasRow, NotYetProduced,
            Owning, RowRecord, Keeps, Kept, Paid, Outcomes, NoAnswer
    <2>4. ReplaySameBody'
        BY <1>5, <1>0, AnswerAssumption
        DEF SelectFails, Reply, ReplaySameBody, RowHonest, RowRecord, NoAnswer
    <2> QED BY <2>1, <2>2, <2>3, <2>4
<1>6. ASSUME NEW r \in Requests, NEW o \in Outcomes, Produce(r, o) PROVE Safe'
    <2>1. LostLate' /\ AgedIsClaim' /\ NotYetProduced' /\ OwnerHasRow'
        BY <1>6, <1>0, NoRowAssumption
        DEF Produce, LostLate, AgedIsClaim, NotYetProduced, OwnerHasRow,
            Owning, RowRecord
    <2>2. RowHonest'
        BY <1>6, <1>0, NoRowAssumption, BodyAssumption
        DEF Produce, RowHonest, OwnerHasRow, Owning, RowRecord
    <2>3. PaidIsReplayed'
        BY <1>6, <1>0, NoRowAssumption
        DEF Produce, PaidIsReplayed, OwnerHasRow, NotYetProduced, Owning,
            RowRecord, Keeps, Kept, Paid, Outcomes, NoAnswer
    <2>4. ReplaySameBody'
        BY <1>6, <1>0, AnswerAssumption
        DEF Produce, ReplaySameBody, RowHonest, RowRecord, NoAnswer
    <2> QED BY <2>1, <2>2, <2>3, <2>4
<1>7. ASSUME NEW r \in Requests, NEW x \in Results, Complete(r, x) PROVE Safe'
    <2>1. LostLate' /\ AgedIsClaim' /\ NotYetProduced' /\ OwnerHasRow'
        BY <1>7, <1>0, NoRowAssumption
        DEF Complete, Reply, LostLate, AgedIsClaim, NotYetProduced,
            OwnerHasRow, Owning, RowRecord
    <2>2. RowHonest'
        <3>1. CASE UNCHANGED row
            BY <1>7, <3>1 DEF RowHonest
        <3>2. CASE row' = [row EXCEPT !.status = "completed", !.result = r] /\ row # NoRow
            <4>1. row \in RowRecord /\ row.hash = Body[r]
                BY <1>7, <3>2 DEF Complete, OwnerHasRow, Owning
            <4>2. row'.result = r /\ row'.hash = row.hash
                BY <4>1, <3>2 DEF RowRecord
            <4> QED BY <4>1, <4>2 DEF RowHonest
        <3> QED BY <1>7, <3>1, <3>2 DEF Complete
    <2>3. PaidIsReplayed'
        <3>1. ASSUME NEW q \in Requests, outcome'[q] \in Paid, pc'[q] = "answered", q \notin lost'
              PROVE  row' # NoRow /\ row'.status = "completed" /\ row'.result = q
            <4>1. row # NoRow /\ row.status = "processing"
                BY <1>7 DEF Complete, OwnerHasRow, Owning
            <4>2. q = r
                BY <1>7, <3>1, <4>1 DEF Complete, Reply, PaidIsReplayed
            <4>3. row' = [row EXCEPT !.status = "completed", !.result = r]
                BY <1>7, <3>1, <4>2 DEF Complete
            <4> QED BY <4>1, <4>2, <4>3, <1>0, NoRowAssumption DEF RowRecord
        <3> QED BY <3>1 DEF PaidIsReplayed
    <2>4. ReplaySameBody'
        BY <1>7, <1>0, AnswerAssumption
        DEF Complete, Reply, ReplaySameBody, RowHonest, RowRecord, NoAnswer
    <2> QED BY <2>1, <2>2, <2>3, <2>4
<1>8. ASSUME NEW r \in Requests, NEW x \in Results, Release(r, x) PROVE Safe'
    <2>1. LostLate' /\ AgedIsClaim' /\ NotYetProduced' /\ OwnerHasRow'
        BY <1>8, <1>0, NoRowAssumption
        DEF Release, Reply, LostLate, AgedIsClaim, NotYetProduced, OwnerHasRow,
            Owning, RowRecord
    <2>2. RowHonest'
        BY <1>8, <1>0, NoRowAssumption, BodyAssumption
        DEF Release, Reply, RowHonest, OwnerHasRow, Owning, RowRecord
    <2>3. PaidIsReplayed'
        <3>1. row # NoRow /\ row.status = "processing"
            BY <1>8 DEF Release, OwnerHasRow, Owning
        <3>2. outcome[r] \notin Paid \/ r \in lost
            BY <1>8 DEF Release, Keeps, Kept, Paid, Outcomes, LostLate
        <3>3. ASSUME NEW q \in Requests, outcome'[q] \in Paid, pc'[q] = "answered", q \notin lost'
              PROVE  FALSE
            BY <1>8, <3>1, <3>2, <3>3 DEF Release, Reply, PaidIsReplayed
        <3> QED BY <3>3 DEF PaidIsReplayed
    <2>4. ReplaySameBody'
        BY <1>8, <1>0, AnswerAssumption
        DEF Release, Reply, ReplaySameBody, RowHonest, RowRecord, NoAnswer
    <2> QED BY <2>1, <2>2, <2>3, <2>4
<1>9. ASSUME NEW r \in Requests, Crash(r) PROVE Safe'
    <2>1. LostLate' /\ AgedIsClaim' /\ NotYetProduced' /\ OwnerHasRow'
        BY <1>9, <1>0, NoRowAssumption
        DEF Crash, LostLate, AgedIsClaim, NotYetProduced, OwnerHasRow, Owning,
            RowRecord
    <2>2. RowHonest'
        BY <1>9, <1>0, NoRowAssumption, BodyAssumption
        DEF Crash, RowHonest, OwnerHasRow, Owning, RowRecord
    <2>3. PaidIsReplayed'
        BY <1>9, <1>0, NoRowAssumption
        DEF Crash, PaidIsReplayed, OwnerHasRow, NotYetProduced, Owning,
            RowRecord, Keeps, Kept, Paid, Outcomes, NoAnswer
    <2>4. ReplaySameBody'
        BY <1>9, <1>0, AnswerAssumption
        DEF Crash, ReplaySameBody, RowHonest, RowRecord, NoAnswer
    <2> QED BY <2>1, <2>2, <2>3, <2>4
<1>10. ASSUME Age PROVE Safe'
    <2>1. LostLate' /\ AgedIsClaim' /\ NotYetProduced' /\ OwnerHasRow' /\ RowHonest'
        BY <1>10, <1>0, NoRowAssumption
        DEF Age, LostLate, AgedIsClaim, NotYetProduced, OwnerHasRow, RowHonest,
            Owning, Ended, RowRecord
    <2>2. PaidIsReplayed' /\ ReplaySameBody'
        BY <1>10, <1>0, NoRowAssumption DEF Age, PaidIsReplayed, ReplaySameBody, RowRecord
    <2> QED BY <2>1, <2>2
<1>11. ASSUME SweepStale PROVE Safe'
    <2>1. LostLate' /\ AgedIsClaim' /\ NotYetProduced' /\ OwnerHasRow' /\ RowHonest'
        BY <1>11, <1>0, NoRowAssumption
        DEF SweepStale, LostLate, AgedIsClaim, NotYetProduced, OwnerHasRow,
            RowHonest, Owning, Ended, RowRecord
    <2>2. PaidIsReplayed' /\ ReplaySameBody'
        BY <1>11, <1>0, NoRowAssumption
        DEF SweepStale, PaidIsReplayed, ReplaySameBody, RowRecord
    <2> QED BY <2>1, <2>2
<1>12. ASSUME SweepCompleted PROVE Safe'
    <2>1. LostLate' /\ AgedIsClaim' /\ NotYetProduced' /\ OwnerHasRow' /\ RowHonest'
        BY <1>12, <1>0, NoRowAssumption
        DEF SweepCompleted, LostLate, AgedIsClaim, NotYetProduced, OwnerHasRow,
            RowHonest, Owning, Ended, RowRecord
    <2>2. PaidIsReplayed' /\ ReplaySameBody'
        BY <1>12, <1>0, NoRowAssumption
        DEF SweepCompleted, PaidIsReplayed, ReplaySameBody, RowRecord
    <2> QED BY <2>1, <2>2
<1>13. ASSUME UNCHANGED vars PROVE Safe'
    BY <1>13, <1>0
    DEF vars, LostLate, AgedIsClaim, NotYetProduced, OwnerHasRow, RowHonest,
        PaidIsReplayed, ReplaySameBody
<1> QED
    BY <1>0, <1>1, <1>2, <1>3, <1>4, <1>5, <1>6, <1>7, <1>8, <1>9, <1>10, <1>11, <1>12, <1>13
       DEF Next, Step

(* The key invariant holds along every behavior.                           *)
THEOREM KeyInvariant == ASSUME Slow = {} PROVE Spec => []KeyInv
BY InitKey, KeyStep, PTL DEF Spec

(* Each variable keeps a value of its kind.                                *)
THEOREM KeyTypes == ASSUME Slow = {} PROVE Spec => []TypeOK
<1>1. KeyInv => TypeOK
    BY DEF KeyInv
<1> QED BY <1>1, KeyInvariant, PTL

(* No two requests run produce() under one key at the same time, which is  *)
(* what claimKey's INSERT ... ON CONFLICT DO NOTHING is for.               *)
THEOREM OneRequestProduces == ASSUME Slow = {} PROVE Spec => []OneProducer
<1>1. KeyInv => OneProducer
    BY DEF KeyInv, OwnerHasRow, OneProducer
<1> QED BY <1>1, KeyInvariant, PTL

(* Whatever was paid for is replayed, unless it was lost on the way        *)
(* (withIdempotency keeps what releaseKey must not free).                  *)
THEOREM PaidOutcomesAreReplayed == ASSUME Slow = {} PROVE Spec => []PaidIsReplayed
<1>1. KeyInv => PaidIsReplayed
    BY DEF KeyInv
<1> QED BY <1>1, KeyInvariant, PTL

(* A replay never carries the result of another body.                      *)
THEOREM ReplaysMatchTheBody == ASSUME Slow = {} PROVE Spec => []ReplaySameBody
<1>1. KeyInv => ReplaySameBody
    BY DEF KeyInv
<1> QED BY <1>1, KeyInvariant, PTL

-----------------------------------------------------------------------------
(* The numbers.                                                            *)
LEMMA Times ==
    /\ TTL \in Nat /\ NegativeTTL \in Nat /\ Latency \in Nat /\ Horizon \in Nat
    /\ Horizon = Latency + TTL
<1>1. TTL \in Nat /\ NegativeTTL \in Nat /\ Latency \in Nat
  BY TimeAssumption
<1> QED  BY <1>1 DEF Horizon

(* The types.                                                              *)
Asked == [at : {"asking", "looked up"}, by : Parties, on : Replicas, secret : Nat,
          header : Stamps, answer : Keys \cup {None}, age : Nat]

AdmittedRequest == [at : {"admitted"}, by : Parties, on : Replicas, permissions : SUBSET Permission,
                    tenant : Stamps, limits : Limits]

CommittedRequest == [at : {"committed"}, by : Parties, on : Replicas, shows : Nat \cup {None}]

ShownRequest == [at : {"shown"}, by : Parties, on : Replicas, limits : Limits,
                 seen : SUBSET [tenant : Columns, project : Projects \cup {None}]]

PlaneTypes ==
    /\ workload \in Workloads
    /\ DOMAIN keys = Keys /\ \A k \in Keys : keys[k] # None => keys[k] \in KeyRow
    /\ minted \in Nat
    /\ DOMAIN cache = Replicas
    /\ \A r \in Replicas : \A s \in DOMAIN cache[r] :
         cache[r][s] \in [key : Keys \cup {None}, left : Nat]
    /\ request \in [Slots -> {Idle} \cup Asked \cup AdmittedRequest \cup CommittedRequest
                                       \cup ShownRequest]
    /\ knows \in [Parties -> SUBSET Nat]
    /\ records \subseteq LogRow
    /\ trail \subseteq Tenants \cup {Own}

(* Who knows a secret, or is about to be shown it.                         *)
Knower(p, s) ==
    \/ s \in knows[p]
    \/ \E q \in Slots : /\ request[q].at = "committed" /\ request[q].by = p
                        /\ request[q].shows = s /\ s # None

(* Which key a secret is taken for: it is in the key's row, or a replica   *)
(* remembers that it was, or a request was answered that it was.           *)
Stands(k, s) ==
    \/ keys[k] # None /\ keys[k].secret = s
    \/ \E r \in Replicas : s \in DOMAIN cache[r] /\ cache[r][s].key = k
    \/ \E q \in Slots : /\ request[q].at = "looked up" /\ request[q].secret = s
                        /\ request[q].answer = k

(* No secret is used before it is drawn, or by who does not know it.       *)
DrawnInv ==
    /\ \A p \in Parties, s \in Nat : Knower(p, s) => s \in 1 .. minted
    /\ \A k \in Keys, s \in Nat : Stands(k, s) => s \in 1 .. minted /\ keys[k] # None
    /\ \A q \in Slots : request[q].at \in {"asking", "looked up"} =>
         request[q].secret \in knows[request[q].by]

(* Whatever a confined party's secrets stand for is a key of its partition. *)
SecretsInv ==
    \A p \in Confined, k \in Keys, s \in Nat :
        Knower(p, s) /\ Stands(k, s) => keys[k] # None /\ keys[k].tenant = Home(p)

RowsInv ==
    \A k \in Keys : keys[k] # None =>
        /\ keys[k].tenant = Own => "tenant:switch" \notin keys[k].permissions
        /\ keys[k].tenant \notin Tenants => Eraser(keys[k].permissions)

(* A confined party's request works in its partition, and in no other.     *)
AdmissionInv ==
    \A q \in Slots : request[q].at = "admitted" /\ request[q].by \in Confined =>
        \/ request[q].tenant \in Tenants /\ request[q].tenant = Home(request[q].by)
        \/ /\ request[q].tenant = None /\ Home(request[q].by) = Own
           /\ request[q].permissions \cap {"tenant:switch", "data:erase"} = {}

PlaneInv ==
    PlaneTypes /\ DrawnInv /\ SecretsInv /\ RowsInv /\ AdmissionInv /\ OnlyOwnReads

-----------------------------------------------------------------------------
(* Where a request is says what it carries.                                *)
LEMMA RequestKinds ==
    ASSUME PlaneTypes, NEW q \in Slots
    PROVE  /\ request[q].at \in {"asking", "looked up"} => request[q] \in Asked
           /\ request[q].at = "admitted" => request[q] \in AdmittedRequest
           /\ request[q].at = "committed" => request[q] \in CommittedRequest
           /\ request[q].at = "shown" => request[q] \in ShownRequest
           /\ request[q] # Idle => request[q].by \in Parties /\ request[q].on \in Replicas
<1>1. \/ request[q] = Idle \/ request[q] \in Asked \/ request[q] \in AdmittedRequest
      \/ request[q] \in CommittedRequest \/ request[q] \in ShownRequest
  BY DEF PlaneTypes
<1>2. CASE request[q] = Idle
  BY <1>2 DEF Idle
<1>3. CASE request[q] \in Asked
  BY <1>3 DEF Asked
<1>4. CASE request[q] \in AdmittedRequest
  BY <1>4 DEF AdmittedRequest
<1>5. CASE request[q] \in CommittedRequest
  BY <1>5 DEF CommittedRequest
<1>6. CASE request[q] \in ShownRequest
  BY <1>6 DEF ShownRequest
<1> QED  BY <1>1, <1>2, <1>3, <1>4, <1>5, <1>6

(* The two tenants an admitted request of a confined party works with are  *)
(* its partition, and there it may not erase unless it is a tenant's.      *)
LEMMA Homebound ==
    ASSUME PlaneTypes, AdmissionInv, NEW q \in Slots,
           request[q].at = "admitted", request[q].by \in Confined
    PROVE  /\ Home(request[q].by) \in Tenants \cup {Own}
           /\ ResolveControlPlaneTenant(q) = Home(request[q].by)
           /\ ResolveTenantScope(q) = Home(request[q].by)
           /\ Scope(q) = {Home(request[q].by)}
           /\ "data:erase" \in request[q].permissions => request[q].tenant = Home(request[q].by)
<1>1. \/ request[q].tenant \in Tenants /\ request[q].tenant = Home(request[q].by)
      \/ /\ request[q].tenant = None /\ Home(request[q].by) = Own
         /\ "tenant:switch" \notin request[q].permissions
         /\ "data:erase" \notin request[q].permissions
  BY DEF AdmissionInv
<1>2. None \notin Tenants \cup {Own} /\ Own \notin Tenants
  BY NamesAssumption
<1>3. ResolveControlPlaneTenant(q) = Home(request[q].by)
  BY <1>1, <1>2 DEF ResolveControlPlaneTenant, Switches
<1>4. ResolveTenantScope(q) = Home(request[q].by)
  BY <1>1, <1>2 DEF ResolveTenantScope
<1>5. Scope(q) = {Home(request[q].by)}
  BY <1>1, <1>2, <1>3 DEF Scope, KeyTenantScope
<1> QED  BY <1>1, <1>2, <1>3, <1>4, <1>5

(* An admitted request's tenants, whoever's it is.                         *)
LEMMA Tenanted ==
    ASSUME PlaneTypes, NEW q \in Slots, request[q].at = "admitted"
    PROVE  /\ request[q] \in AdmittedRequest
           /\ request[q].tenant \in Stamps /\ request[q].limits \in Limits
           /\ ResolveTenantScope(q) \in Tenants \cup {Own}
           /\ ResolveControlPlaneTenant(q) \in Columns
<1>1. request[q] \in AdmittedRequest
  BY RequestKinds
<1>2. request[q].tenant \in Stamps /\ request[q].limits \in Limits
  BY <1>1 DEF AdmittedRequest
<1> QED
  BY <1>1, <1>2
  DEF ResolveTenantScope, ResolveControlPlaneTenant, Stamps, Columns

-----------------------------------------------------------------------------
(* What a request may do to itself and to the rows, once it is admitted:   *)
(* it ends, or it shows what it read.                                      *)
Concluded(q) ==
    /\ UNCHANGED <<keyVars, workload, knows>>
    /\ request' = [request EXCEPT ![q] = Idle]

(* A row that a request writes is its tenant's, in the scope of its key.   *)
LEMMA Logged ==
    ASSUME PlaneTypes, NEW q \in Slots, request[q].at = "admitted",
           NEW user \in Users \cup {None}, NEW asked \in Projects \cup {None},
           NEW node \in Nodes \cup {None}, Logs(q, user, asked, node)
    PROVE  /\ Concluded(q) /\ UNCHANGED <<paused, trail>>
           /\ \E held \in LogRow :
                /\ records' = records \cup {held}
                /\ held.tenant = request[q].tenant /\ held.user = user /\ held.node = node
                /\ held.project = ResolveProjectScope(q, asked, DefaultProject)
<1> DEFINE held == [user |-> user, tenant |-> request[q].tenant,
                   project |-> ResolveProjectScope(q, asked, DefaultProject), node |-> node]
<1>1. Concluded(q) /\ UNCHANGED <<paused, trail>> /\ records' = records \cup {held}
  BY DEF Logs, Concluded, Ends
<1>2. request[q].limits.project \in Projects \cup {None} /\ DefaultProject \in Projects
  BY Tenanted, NamesAssumption DEF Limits
<1>3. ResolveProjectScope(q, asked, DefaultProject) \in Projects \cup {None}
  BY <1>2 DEF ResolveProjectScope, Else
<1>4. held \in LogRow
  BY <1>3, Tenanted DEF LogRow
<1> QED  BY <1>1, <1>4

(* What a request writes is in the scope of its key.                       *)
RowInScope(q, held) ==
    LET limits == request[q].limits
    IN /\ limits.project \in {None, held.project}
       /\ held.user # None /\ limits.users # {} => held.user \in limits.users
       /\ workload.hierarchical /\ held.user # None /\ limits.node # None => held.node = limits.node
       /\ held.node # None => NodeTenant[held.node] = held.tenant

Billing(q) == Chat(q) \/ Embed(q) \/ ExtractDocument(q) \/ ReportExternalCost(q)

LEMMA Billed ==
    ASSUME PlaneTypes, NEW q \in Slots, Billing(q)
    PROVE  /\ request[q].at = "admitted" /\ Concluded(q) /\ UNCHANGED <<paused, trail>>
           /\ \E held \in LogRow : /\ records' = records \cup {held}
                                  /\ held.tenant = request[q].tenant
                                  /\ RowInScope(q, held)
<1> DEFINE limits == request[q].limits
           Done == /\ request[q].at = "admitted" /\ Concluded(q) /\ UNCHANGED <<paused, trail>>
                   /\ \E held \in LogRow : /\ records' = records \cup {held}
                                          /\ held.tenant = request[q].tenant
                                          /\ RowInScope(q, held)
<1> SUFFICES Done
  OBVIOUS
<1>1. ASSUME NEW user \in Users \cup {None}, NEW asked \in Projects \cup {None},
             NEW node \in Nodes \cup {None}, request[q].at = "admitted",
             Logs(q, user, asked, node), CheckProjectScope(q, asked),
             user # None => CheckUserIdAllowed(q, user),
             node # None => LeafIsKnown(q, node),
             workload.hierarchical /\ user # None /\ limits.node # None => node = limits.node
      PROVE  Done
  <2>1. PICK held \in LogRow :
          /\ records' = records \cup {held}
          /\ held.tenant = request[q].tenant /\ held.user = user /\ held.node = node
          /\ held.project = ResolveProjectScope(q, asked, DefaultProject)
    BY <1>1, Logged
  <2>2. limits.project \in {None, held.project}
    BY <2>1 DEF ResolveProjectScope, Else
  <2>3. held.user # None /\ limits.users # {} => held.user \in limits.users
    BY <1>1, <2>1 DEF CheckUserIdAllowed
  <2>4. RowInScope(q, held)
    BY <1>1, <2>1, <2>2, <2>3 DEF RowInScope, LeafIsKnown
  <2> QED  BY <1>1, <2>1, <2>4, Logged
<1> HIDE DEF Done
<1>2. CASE Chat(q)
  <2>1. PICK user \in Users, asked \in Projects \cup {None}, leaf \in Nodes \cup {None} :
          LET node == ResolveBudgetNodeId(q, leaf)
          IN /\ AuthorizeInput(q, user, asked)
             /\ IF UseHierarchicalBudgets(node)
                  THEN LeafIsKnown(q, node) /\ Logs(q, user, asked, node)
                  ELSE Logs(q, user, asked, None)
    BY <1>2 DEF Chat
  <2> DEFINE node == ResolveBudgetNodeId(q, leaf)
  <2>2. /\ request[q].at = "admitted" /\ CheckProjectScope(q, asked)
        /\ CheckUserIdAllowed(q, user)
    BY <2>1 DEF AuthorizeInput, Permitted
  <2>3. limits.node # None => node = limits.node
    BY DEF ResolveBudgetNodeId, Else
  <2>4. limits.node \in Nodes \cup {None}
    BY <2>2, Tenanted DEF Limits
  <2>5. node \in Nodes \cup {None}
    BY <2>4 DEF ResolveBudgetNodeId, Else
  <2>6. CASE UseHierarchicalBudgets(node)
    <3> HIDE DEF node, limits
    <3> QED  BY <1>1, <2>1, <2>2, <2>3, <2>5, <2>6 DEF node
  <2>7. CASE ~UseHierarchicalBudgets(node)
    <3>1. workload.hierarchical => limits.node = None
      BY <2>3, <2>7 DEF UseHierarchicalBudgets
    <3> HIDE DEF node, limits
    <3> QED  BY <1>1, <2>1, <2>2, <2>7, <3>1 DEF node
  <2> QED  BY <2>6, <2>7
<1>3. CASE Embed(q) \/ ExtractDocument(q)
  <2>1. PICK user \in Users, asked \in Projects \cup {None} :
          /\ AuthorizeInput(q, user, asked)
          /\ ~UseHierarchicalBudgets(limits.node)
          /\ Logs(q, user, asked, None)
    BY <1>3 DEF Embed, ExtractDocument
  <2>2. /\ request[q].at = "admitted" /\ CheckProjectScope(q, asked)
        /\ CheckUserIdAllowed(q, user)
    BY <2>1 DEF AuthorizeInput, Permitted
  <2>3. workload.hierarchical => limits.node = None
    BY <2>1 DEF UseHierarchicalBudgets
  <2> HIDE DEF limits
  <2> QED  BY <1>1, <2>1, <2>2, <2>3
<1>4. CASE ReportExternalCost(q)
  <2>1. PICK asked \in Projects \cup {None} :
          AuthorizeUsageSummary(q, asked) /\ Logs(q, None, asked, None)
    BY <1>4 DEF ReportExternalCost
  <2>2. request[q].at = "admitted" /\ CheckProjectScope(q, asked)
    BY <1>4, <2>1 DEF ReportExternalCost, Permitted, AuthorizeUsageSummary
  <2> HIDE DEF limits
  <2> QED  BY <1>1, <2>1, <2>2
<1> QED  BY <1>2, <1>3, <1>4 DEF Billing

-----------------------------------------------------------------------------
(* What a request shows is of its partition, and of its key's project.     *)
Sights == [tenant : Columns, project : Projects \cup {None}]

Fitting(q, seen) ==
    /\ seen \in SUBSET Sights
    /\ \A sight \in seen :
         /\ request[q].by \in Confined => sight.tenant = Home(request[q].by)
         /\ request[q].limits.project # None =>
              sight.project \in {request[q].limits.project, None}

(* The rows of the log in a request's scope.                               *)
LEMMA RowsFit ==
    ASSUME PlaneTypes, AdmissionInv, NEW q \in Slots,
           request[q].at = "admitted", NEW asked, NEW default,
           NEW rows \in SUBSET ScopedRows(q, ResolveProjectScope(q, asked, default))
    PROVE  Fitting(q, SeenRows(rows))
<1> DEFINE t == ResolveTenantScope(q)
<1>1. t \in Tenants \cup {Own} /\ (request[q].by \in Confined => t = Home(request[q].by))
  BY Tenanted, Homebound
<1>2. ASSUME NEW held \in rows
      PROVE  /\ held \in LogRow /\ Else(held.tenant, Own) = t
             /\ request[q].limits.project # None => held.project = request[q].limits.project
  <2>1. /\ held \in records /\ held.tenant = IF t = Own THEN None ELSE t
        /\ ResolveProjectScope(q, asked, default) \in {None, held.project}
    BY <1>2 DEF ScopedRows, AppendRequestLogTenantScope
  <2>2. Else(held.tenant, Own) = t
    BY <1>1, <2>1, NamesAssumption DEF Else
  <2>3. request[q].limits.project # None => held.project = request[q].limits.project
    BY <2>1 DEF ResolveProjectScope, Else
  <2> QED  BY <2>1, <2>2, <2>3 DEF PlaneTypes
<1>3. ASSUME NEW sight \in SeenRows(rows)
      PROVE  /\ sight \in Sights /\ sight.tenant = t
             /\ request[q].limits.project # None => sight.project = request[q].limits.project
  <2> HIDE DEF t
  <2>1. PICK held \in rows : sight = [tenant |-> Else(held.tenant, Own), project |-> held.project]
    BY <1>3 DEF SeenRows, Seen
  <2> QED  BY <1>1, <1>2, <2>1 DEF Sights, LogRow, Columns, Stamps
<1> HIDE DEF t
<1> QED  BY <1>1, <1>3 DEF Fitting

(* The counters of its scope.                                              *)
LEMMA SnapshotFits ==
    ASSUME PlaneTypes, AdmissionInv, NEW q \in Slots,
           request[q].at = "admitted", NEW asked \in Projects \cup {None}
    PROVE  Fitting(q, {LoadUsageSnapshot(q, asked)})
<1>1. /\ ResolveTenantScope(q) \in Tenants \cup {Own}
      /\ request[q].by \in Confined => ResolveTenantScope(q) = Home(request[q].by)
  BY Tenanted, Homebound
<1>2. request[q].limits.project \in Projects \cup {None} /\ DefaultProject \in Projects
  BY Tenanted, NamesAssumption DEF Limits
<1>3. /\ ResolveProjectScope(q, asked, DefaultProject) \in Projects \cup {None}
      /\ request[q].limits.project # None =>
           ResolveProjectScope(q, asked, DefaultProject) = request[q].limits.project
  BY <1>2 DEF ResolveProjectScope, Else
<1> QED
  BY <1>1, <1>3 DEF Fitting, LoadUsageSnapshot, Seen, Sights, Columns, Stamps

(* The tenants of the control plane.                                       *)
LEMMA TenantsFit ==
    ASSUME PlaneTypes, NEW q \in Slots,
           NEW tenants \in SUBSET Columns,
           request[q].by \in Confined => tenants \subseteq {Home(request[q].by)}
    PROVE  Fitting(q, SeenIn(tenants))
  BY DEF Fitting, SeenIn, Seen, Sights

LEMMA BothFit ==
    ASSUME NEW q \in Slots, NEW here, NEW there, Fitting(q, here), Fitting(q, there)
    PROVE  Fitting(q, here \cup there)
  BY DEF Fitting

Reading(q) ==
    \/ ListRequests(q) \/ ShowRequest(q) \/ Explain(q)
    \/ ReadUsage(q) \/ ReadSummary(q) \/ ReadTransactions(q)
    \/ ListKeys(q) \/ ShowKey(q) \/ ListAudit(q) \/ VerifyAuditChain(q) \/ ListTenants(q)

LEMMA ReadsFit ==
    ASSUME PlaneTypes, AdmissionInv, NEW q \in Slots, Reading(q)
    PROVE  /\ request[q].at = "admitted"
           /\ \E seen : Fitting(q, seen) /\ Shows(q, seen)
<1> DEFINE Done == request[q].at = "admitted" /\ \E seen : Fitting(q, seen) /\ Shows(q, seen)
<1> SUFFICES Done
  OBVIOUS
<1>1. ASSUME NEW seen, request[q].at = "admitted", Fitting(q, seen), Shows(q, seen) PROVE Done
  BY <1>1
<1> HIDE DEF Done
<1>2. CASE ListRequests(q)
  <2>1. PICK user \in Users \cup {None}, project \in Projects \cup {None} :
          LET rows == ScopedRows(q, ResolveProjectScope(q, project, DefaultProject))
          IN /\ AuthorizeRequestList(q, user, project)
             /\ Shows(q, SeenRows({held \in LlmRows(rows) : user \in {None, held.user}}))
    BY <1>2 DEF ListRequests
  <2> DEFINE rows == ScopedRows(q, ResolveProjectScope(q, project, DefaultProject))
             some == {held \in LlmRows(rows) : user \in {None, held.user}}
  <2>2. request[q].at = "admitted"
    BY <2>1 DEF AuthorizeRequestList, Permitted
  <2>3. some \in SUBSET rows
    BY DEF LlmRows
  <2> QED  BY <1>1, <2>1, <2>2, <2>3, RowsFit
<1>3. CASE ShowRequest(q)
  <2>1. request[q].at = "admitted"
    BY <1>3 DEF ShowRequest, AuthorizeRequestShow, Permitted
  <2>2. PICK held \in ScopedRows(q, ResolveProjectScope(q, None, None)) :
            Shows(q, SeenRows({held}))
    BY <1>3 DEF ShowRequest
  <2> QED  BY <1>1, <2>1, <2>2, RowsFit
<1>4. CASE Explain(q)
  <2>1. PICK user \in Users, project \in Projects \cup {None} :
          /\ AuthorizeExplainInput(q, user, project)
          /\ Shows(q, {LoadUsageSnapshot(q, project)})
    BY <1>4 DEF Explain
  <2>2. request[q].at = "admitted"
    BY <2>1 DEF AuthorizeExplainInput, Permitted
  <2> QED  BY <1>1, <2>1, <2>2, SnapshotFits
<1>5. CASE ReadUsage(q)
  <2>1. PICK user \in Users \cup {None}, project \in Projects \cup {None}, byFeature \in BOOLEAN :
          /\ AuthorizeUsageQuery(q, user, project, byFeature)
          /\ Shows(q, {LoadUsageSnapshot(q, project)}
                         \cup SeenRows(GetRecentRequestStats(q, project)))
    BY <1>5 DEF ReadUsage
  <2>2. request[q].at = "admitted"
    BY <2>1 DEF AuthorizeUsageQuery, Permitted
  <2>3. GetRecentRequestStats(q, project) \in
          SUBSET ScopedRows(q, ResolveProjectScope(q, project, None))
    BY DEF GetRecentRequestStats, LlmRows
  <2>4. Fitting(q, SeenRows(GetRecentRequestStats(q, project)))
    BY <2>2, <2>3, RowsFit
  <2>5. Fitting(q, {LoadUsageSnapshot(q, project)})
    BY <2>2, SnapshotFits
  <2> QED  BY <1>1, <2>1, <2>2, <2>4, <2>5, BothFit
<1>6. CASE ReadSummary(q) \/ ReadTransactions(q)
  <2>1. PICK project \in Projects \cup {None} :
          LET rows == ScopedRows(q, ResolveProjectScope(q, project, DefaultProject))
          IN /\ Permitted(q, "usage:read")
             /\ Shows(q, SeenRows(LlmRows(rows))) \/ Shows(q, SeenRows(rows))
    BY <1>6 DEF ReadSummary, ReadTransactions
  <2> DEFINE rows == ScopedRows(q, ResolveProjectScope(q, project, DefaultProject))
  <2>2. request[q].at = "admitted"
    BY <2>1 DEF Permitted
  <2>3. Fitting(q, SeenRows(rows)) /\ Fitting(q, SeenRows(LlmRows(rows)))
    <3>1. LlmRows(rows) \in SUBSET rows
      BY DEF LlmRows
    <3> QED  BY <2>2, <3>1, RowsFit
  <2> HIDE DEF rows
  <2> QED  BY <1>1, <2>1, <2>2, <2>3 DEF rows
<1>7. CASE ListKeys(q)
  <2>1. request[q].at = "admitted"
    BY <1>7 DEF ListKeys, Permitted
  <2>2. PICK some \in SUBSET Keys :
          /\ \A k \in some : InScope(k, Scope(q))
          /\ Shows(q, SeenIn({keys[k].tenant : k \in some}))
    <3>1. PICK project \in Projects \cup {None}, includeRevoked \in BOOLEAN :
            Shows(q, SeenIn({keys[k].tenant : k \in {k \in Keys :
              /\ InScope(k, Scope(q))
              /\ project \in {None, keys[k].limits.project}
              /\ includeRevoked \/ ~keys[k].revoked}}))
      BY <1>7 DEF ListKeys
    <3> DEFINE some == {k \in Keys : /\ InScope(k, Scope(q))
                                     /\ project \in {None, keys[k].limits.project}
                                     /\ includeRevoked \/ ~keys[k].revoked}
    <3>2. Shows(q, SeenIn({keys[k].tenant : k \in some}))
      BY <3>1
    <3>3. some \in SUBSET Keys /\ \A k \in some : InScope(k, Scope(q))
      OBVIOUS
    <3> HIDE DEF some
    <3> QED  BY <3>2, <3>3
  <2> DEFINE tenants == {keys[k].tenant : k \in some}
  <2>3. tenants \in SUBSET Columns
    BY <2>2 DEF PlaneTypes, KeyRow, InScope
  <2>4. request[q].by \in Confined => tenants \subseteq {Home(request[q].by)}
    BY <2>1, <2>2, Homebound DEF InScope
  <2> HIDE DEF tenants
  <2>5. Fitting(q, SeenIn(tenants))
    BY <2>3, <2>4, TenantsFit
  <2> QED  BY <1>1, <2>1, <2>2, <2>5 DEF tenants
<1>8. CASE ShowKey(q)
  <2>1. request[q].at = "admitted"
    BY <1>8 DEF ShowKey, Permitted
  <2>2. PICK k \in Keys : InScope(k, Scope(q)) /\ Shows(q, SeenIn({keys[k].tenant}))
    BY <1>8 DEF ShowKey
  <2>3. {keys[k].tenant} \in SUBSET Columns
    BY <2>2 DEF PlaneTypes, KeyRow, InScope
  <2>4. request[q].by \in Confined => {keys[k].tenant} \subseteq {Home(request[q].by)}
    BY <2>1, <2>2, Homebound DEF InScope
  <2> QED  BY <1>1, <2>1, <2>2, <2>3, <2>4, TenantsFit
<1>9. CASE ListAudit(q) \/ VerifyAuditChain(q)
  <2>1. request[q].at = "admitted"
    BY <1>9 DEF ListAudit, VerifyAuditChain, Permitted
  <2>2. PICK tenants \in SUBSET trail :
          /\ \A t \in tenants : ResolveControlPlaneTenant(q) \in {None, t}
          /\ Shows(q, SeenIn(tenants))
    <3>1. CASE ListAudit(q)
      BY <3>1 DEF ListAudit
    <3>2. CASE VerifyAuditChain(q)
      BY <3>2 DEF VerifyAuditChain
    <3> QED  BY <1>9, <3>1, <3>2
  <2>3. tenants \in SUBSET Columns
    BY <2>2 DEF PlaneTypes, Columns, Stamps
  <2>4. request[q].by \in Confined => tenants \subseteq {Home(request[q].by)}
    BY <2>1, <2>2, Homebound, NamesAssumption
  <2> QED  BY <1>1, <2>1, <2>2, <2>3, <2>4, TenantsFit
<1>10. CASE ListTenants(q)
  <2> DEFINE t == ResolveControlPlaneTenant(q)
  <2>1. request[q].at = "admitted"
    BY <1>10 DEF ListTenants, Permitted
  <2>2. PICK tenants \in SUBSET Tenants :
          (t # None => tenants \subseteq {t}) /\ Shows(q, SeenIn(tenants))
    BY <1>10 DEF ListTenants
  <2>3. tenants \in SUBSET Columns
    BY <2>2 DEF Columns, Stamps
  <2>4. request[q].by \in Confined => tenants \subseteq {Home(request[q].by)}
    BY <2>1, <2>2, Homebound, NamesAssumption
  <2> QED  BY <1>1, <2>1, <2>2, <2>3, <2>4, TenantsFit
<1> QED
  BY <1>2, <1>3, <1>4, <1>5, <1>6, <1>7, <1>8, <1>9, <1>10 DEF Reading

-----------------------------------------------------------------------------
(* What keeps secrets where they are: keys stay in their partitions, and   *)
(* only a new secret comes to be known to anybody, or to stand for a key;  *)
(* if who gets to know it is confined, the key is of that partition.       *)
LEMMA SecretsStay ==
    ASSUME DrawnInv, SecretsInv, minted \in Nat, minted' \in {minted, minted + 1},
           \A k \in Keys : keys[k] # None => keys'[k] # None /\ keys'[k].tenant = keys[k].tenant,
           \A p \in Parties, s \in Nat : Knower(p, s)' =>
             \/ Knower(p, s)
             \/ /\ minted' = minted + 1 /\ s = minted'
                /\ p \in Confined => \A k \in Keys :
                     Stands(k, s)' => keys'[k] # None /\ keys'[k].tenant = Home(p),
           \A k \in Keys, s \in Nat : Stands(k, s)' =>
             Stands(k, s) \/ (minted' = minted + 1 /\ s = minted' /\ keys'[k] # None)
    PROVE  /\ SecretsInv'
           /\ \A p \in Parties, s \in Nat : Knower(p, s)' => s \in 1 .. minted'
           /\ \A k \in Keys, s \in Nat : Stands(k, s)' => s \in 1 .. minted' /\ keys'[k] # None
<1>0. /\ \A s \in 1 .. minted : s \in 1 .. minted'
      /\ minted' = minted + 1 => minted' \in 1 .. minted'
  OBVIOUS
<1>1. ASSUME NEW p \in Parties, NEW s \in Nat, Knower(p, s)' PROVE s \in 1 .. minted'
  <2>1. Knower(p, s) => s \in 1 .. minted
    BY DEF DrawnInv
  <2> QED  BY <1>0, <1>1, <2>1
<1>2. ASSUME NEW k \in Keys, NEW s \in Nat, Stands(k, s)'
      PROVE  s \in 1 .. minted' /\ keys'[k] # None
  <2>1. Stands(k, s) => s \in 1 .. minted /\ keys[k] # None
    BY DEF DrawnInv
  <2> QED  BY <1>0, <1>2, <2>1
<1>3. ASSUME NEW p \in Confined, NEW k \in Keys, NEW s \in Nat, Knower(p, s)', Stands(k, s)'
      PROVE  keys'[k] # None /\ keys'[k].tenant = Home(p)
  <2>1. p \in Parties
    BY DEF Confined
  <2>2. CASE s \in 1 .. minted
    <3>1. Knower(p, s) /\ Stands(k, s)
      BY <1>3, <2>1, <2>2
    <3> QED  BY <3>1 DEF SecretsInv
  <2>3. CASE s \notin 1 .. minted
    <3>1. ~Knower(p, s)
      BY <2>1, <2>3 DEF DrawnInv
    <3> QED  BY <1>3, <2>1, <3>1
  <2> QED  BY <2>2, <2>3
<1> QED  BY <1>1, <1>2, <1>3 DEF SecretsInv

(* A request that ends, or shows what fits, keeps the invariant.           *)
LEMMA EndsKeep ==
    ASSUME PlaneInv, NEW q \in Slots, NEW x,
           UNCHANGED <<keyVars, workload, knows>>,
           request' = [request EXCEPT ![q] = x],
           \/ x = Idle
           \/ /\ x \in ShownRequest
              /\ \A sight \in x.seen :
                   /\ x.by \in Confined => sight.tenant = Home(x.by)
                   /\ x.limits.project # None => sight.project \in {x.limits.project, None},
           records' \subseteq LogRow, trail' \subseteq Tenants \cup {Own}
    PROVE  PlaneInv'
<1>1. /\ UNCHANGED <<keys, minted, cache, gone, workload, knows>>
      /\ request' = [d \in Slots |-> IF d = q THEN x ELSE request[d]]
  BY DEF PlaneInv, PlaneTypes, keyVars
<1>2. x.at \in {"idle", "shown"}
  BY DEF Idle, ShownRequest
<1>3. PlaneTypes'
  BY <1>1 DEF PlaneInv, PlaneTypes
<1>4. \A p \in Parties, s \in Nat : Knower(p, s)' => Knower(p, s)
  BY <1>1, <1>2 DEF Knower
<1>5. \A k \in Keys, s \in Nat : Stands(k, s)' => Stands(k, s)
  BY <1>1, <1>2 DEF Stands
<1>6. DrawnInv' /\ SecretsInv'
  <2>1. minted \in Nat /\ DrawnInv /\ SecretsInv
    BY DEF PlaneInv, PlaneTypes
  <2>2. \A d \in Slots : request'[d].at \in {"asking", "looked up"} =>
          request'[d].secret \in knows'[request'[d].by]
    BY <1>1, <1>2, <2>1 DEF DrawnInv
  <2>3. /\ SecretsInv'
        /\ \A p \in Parties, s \in Nat : Knower(p, s)' => s \in 1 .. minted'
        /\ \A k \in Keys, s \in Nat : Stands(k, s)' => s \in 1 .. minted' /\ keys'[k] # None
    BY <1>1, <1>4, <1>5, <2>1, SecretsStay
  <2> QED  BY <2>2, <2>3 DEF DrawnInv
<1>7. RowsInv'
  BY <1>1 DEF PlaneInv, RowsInv
<1>8. AdmissionInv'
  BY <1>1, <1>2 DEF PlaneInv, AdmissionInv
<1>9. OnlyOwnReads'
  BY <1>1, <1>2 DEF PlaneInv, OnlyOwnReads, Idle
<1> QED  BY <1>3, <1>6, <1>7, <1>8, <1>9 DEF PlaneInv

(* What an acting request did, when the others did nothing.                *)
OwnEffects == OnlyOwnEffects /\ KeysStayInScope

LEMMA ActorsEffects ==
    ASSUME NEW q \in Slots,
           \A d \in Slots \ {q} : request'[d] = request[d],
           request[q].at = "admitted" /\ request[q].by \in Confined =>
             /\ \A k \in Changed(keys, keys') : keys'[k].tenant = Home(request[q].by)
             /\ (paused \ paused') \cup (paused' \ paused) \cup (trail' \ trail)
                  \subseteq {Home(request[q].by)}
             /\ \A held \in (records \ records') \cup (records' \ records) :
                  Partition(held) = Home(request[q].by),
           request[q].at = "admitted" => \A held \in records' \ records : RowInScope(q, held)
    PROVE  OwnEffects
<1>1. OnlyOwnEffects
  BY DEF OnlyOwnEffects, Acts
<1>2. KeysStayInScope
  BY DEF KeysStayInScope, Acts, RowInScope
<1> QED  BY <1>1, <1>2 DEF OwnEffects

Quiet(q) ==
    Billing(q) \/ Reading(q) \/ Sends(q) \/ Pause(q) \/ Resume(q) \/ Erase(q) \/ Fail(q)

LEMMA QuietKeeps ==
    ASSUME PlaneInv, NEW q \in Slots, Quiet(q)
    PROVE  PlaneInv' /\ OwnEffects
<1>0. /\ PlaneTypes /\ AdmissionInv
      /\ records \subseteq LogRow /\ trail \subseteq Tenants \cup {Own}
      /\ DOMAIN request = Slots
  BY DEF PlaneInv, PlaneTypes
<1>1. CASE Reading(q)
  <2>1. PICK seen : Fitting(q, seen) /\ Shows(q, seen)
    BY <1>0, <1>1, ReadsFit
  <2>2. request[q] \in AdmittedRequest
    BY <1>0, <1>1, ReadsFit, RequestKinds
  <2> DEFINE x == [at |-> "shown", by |-> request[q].by, on |-> request[q].on,
                   limits |-> request[q].limits, seen |-> seen]
  <2>3. /\ request' = [request EXCEPT ![q] = x]
        /\ UNCHANGED <<keyVars, workload, knows, paused, records, trail>>
    BY <2>1 DEF Shows
  <2>4. x \in ShownRequest
    BY <2>1, <2>2 DEF Fitting, Sights, AdmittedRequest, ShownRequest
  <2>5. \A sight \in x.seen :
          /\ x.by \in Confined => sight.tenant = Home(x.by)
          /\ x.limits.project # None => sight.project \in {x.limits.project, None}
    BY <2>1 DEF Fitting
  <2>6. PlaneInv'
    <3> HIDE DEF x
    <3> QED  BY <1>0, <2>3, <2>4, <2>5, EndsKeep
  <2>7. OwnEffects
    <3>1. keys' = keys /\ \A d \in Slots \ {q} : request'[d] = request[d]
      BY <1>0, <2>3 DEF keyVars
    <3> QED  BY <2>3, <3>1, ActorsEffects DEF Changed
  <2> QED  BY <2>6, <2>7
<1>2. ASSUME Concluded(q), records' \subseteq LogRow, trail' \subseteq Tenants \cup {Own},
             request[q].at = "admitted" /\ request[q].by \in Confined =>
               /\ (paused \ paused') \cup (paused' \ paused) \cup (trail' \ trail)
                    \subseteq {Home(request[q].by)}
               /\ \A held \in (records \ records') \cup (records' \ records) :
                    Partition(held) = Home(request[q].by),
             request[q].at = "admitted" => \A held \in records' \ records : RowInScope(q, held)
      PROVE  PlaneInv' /\ OwnEffects
  <2>1. PlaneInv'
    BY <1>2, EndsKeep DEF Concluded
  <2>2. OwnEffects
    <3>1. keys' = keys /\ \A d \in Slots \ {q} : request'[d] = request[d]
      BY <1>0, <1>2 DEF Concluded, keyVars
    <3>2. Changed(keys, keys') = {}
      BY <3>1 DEF Changed
    <3> QED  BY <1>2, <3>1, <3>2, ActorsEffects
  <2> QED  BY <2>1, <2>2
<1>3. CASE Billing(q)
  <2>1. request[q].at = "admitted" /\ Concluded(q) /\ UNCHANGED <<paused, trail>>
    BY <1>0, <1>3, Billed
  <2>2. PICK held \in LogRow : /\ records' = records \cup {held}
                              /\ held.tenant = request[q].tenant
                              /\ RowInScope(q, held)
    BY <1>0, <1>3, Billed
  <2>3. request[q].by \in Confined => Partition(held) = Home(request[q].by)
    <3>1. request[q].tenant \in Stamps
      BY <1>0, <2>1, Tenanted
    <3>2. request[q].by \in Confined => ResolveTenantScope(q) = Home(request[q].by)
      BY <1>0, <2>1, Homebound
    <3> QED  BY <2>2, <3>1, <3>2 DEF Partition, Else, ResolveTenantScope
  <2> QED  BY <1>0, <1>2, <2>1, <2>2, <2>3
<1>4. CASE Sends(q) \/ Fail(q)
  <2>1. Concluded(q) /\ UNCHANGED <<paused, records, trail>>
    BY <1>4 DEF Sends, Fail, Ends, Concluded
  <2> QED  BY <1>0, <1>2, <2>1
<1>5. CASE Pause(q) \/ Resume(q)
  <2>1. /\ request[q].at = "admitted" /\ Concluded(q) /\ UNCHANGED <<records, trail>>
        /\ \/ paused' = paused \cup {PauseKey(ResolveControlPlaneTenant(q))}
           \/ paused' = paused \ {PauseKey(ResolveControlPlaneTenant(q))}
    BY <1>5 DEF Pause, Resume, Ends, Concluded, Permitted
  <2>2. request[q].by \in Confined =>
          PauseKey(ResolveControlPlaneTenant(q)) = Home(request[q].by)
    BY <1>0, <2>1, Homebound, NamesAssumption DEF PauseKey
  <2> QED  BY <1>0, <1>2, <2>1, <2>2
<1>6. CASE Erase(q)
  <2>1. /\ request[q].at = "admitted" /\ Concluded(q) /\ UNCHANGED paused
        /\ "data:erase" \in request[q].permissions
        /\ trail' = trail \cup {ResolveTenantScope(q)}
    BY <1>6 DEF Erase, Ends, Concluded, Permitted, Audited
  <2>2. PICK u \in Users :
          records' =
            {held \in records : held.user = u => request[q].tenant \notin {None, held.tenant}}
    BY <1>6 DEF Erase
  <2>3. ResolveTenantScope(q) \in Tenants \cup {Own}
    BY <1>0, <2>1, Tenanted
  <2>4. ASSUME request[q].by \in Confined
        PROVE  /\ ResolveTenantScope(q) = Home(request[q].by)
               /\ \A held \in records \ records' : Partition(held) = Home(request[q].by)
    <3>1. /\ ResolveTenantScope(q) = Home(request[q].by)
          /\ request[q].tenant = Home(request[q].by)
      BY <1>0, <2>1, <2>4, Homebound
    <3>2. request[q].tenant # None
      BY <1>0, <2>1, <2>4, <3>1, Homebound, NamesAssumption
    <3> QED  BY <2>2, <3>1, <3>2 DEF Partition, Else
  <2> QED  BY <1>0, <1>2, <2>1, <2>2, <2>3, <2>4
<1> QED  BY <1>1, <1>3, <1>4, <1>5, <1>6 DEF Quiet

-----------------------------------------------------------------------------
(* Authentication.                                                         *)
Housed(x) ==
    x.by \in Confined =>
        \/ x.tenant \in Tenants /\ x.tenant = Home(x.by)
        \/ /\ x.tenant = None /\ Home(x.by) = Own
           /\ x.permissions \cap {"tenant:switch", "data:erase"} = {}

(* A principal bound to its partition, or to none and without a switch, is *)
(* admitted to that partition or not at all.                               *)
LEMMA AdmitsHome ==
    ASSUME NEW p \in Parties, NEW r \in Replicas,
           NEW permissions \in SUBSET Permission, NEW tenant \in Columns, NEW header \in Stamps,
           NEW limits \in Limits,
           p \in Confined =>
             \/ tenant \in Tenants /\ tenant = Home(p)
             \/ /\ tenant \notin Tenants /\ Home(p) = Own
                /\ permissions \cap {"tenant:switch", "data:erase"} = {},
           NEW x, x = Admitted(p, r, permissions, tenant, header, limits)
    PROVE  x = Idle \/ (x \in AdmittedRequest /\ Housed(x))
<1>1. CASE ~MayScope(permissions, tenant, header)
  BY <1>1 DEF Admitted
<1>2. CASE MayScope(permissions, tenant, header)
  <2>1. x = [at |-> "admitted", by |-> p, on |-> r, permissions |-> permissions,
             tenant |-> ResolveEffectiveTenant(tenant, header), limits |-> limits]
    BY <1>2 DEF Admitted
  <2>2. ResolveEffectiveTenant(tenant, header) \in Stamps
    BY DEF ResolveEffectiveTenant, IsBoundTenant, Stamps
  <2>3. Housed(x)
    BY <1>2, <2>1 DEF MayScope, ResolveEffectiveTenant, IsBoundTenant, Housed
  <2> QED  BY <2>1, <2>2, <2>3 DEF AdmittedRequest
<1> QED  BY <1>1, <1>2

(* The roles of a login: who may erase may switch, and who may switch is   *)
(* confined only if it is bound to a tenant.                               *)
LEMMA LoginsFit ==
    ASSUME NEW p \in Parties, Roles[p] # None
    PROVE  /\ PermissionsForRoles(Roles[p]) \in SUBSET Permission
           /\ Bound[p] \in Stamps
           /\ p \in Confined =>
                \/ Bound[p] \in Tenants /\ Bound[p] = Home(p)
                \/ /\ Bound[p] \notin Tenants /\ Home(p) = Own
                   /\ PermissionsForRoles(Roles[p]) \cap {"tenant:switch", "data:erase"} = {}
<1>1. /\ Bound[p] \in Stamps /\ None \notin Tenants
      /\ Roles[p] \subseteq {"viewer", "finops", "keyAdmin", "policyAdmin", "owner"}
  BY NamesAssumption DEF RolePermissions
<1>3. PermissionsForRoles(Roles[p]) \in SUBSET Permission
  <2>1. Roles[p] \subseteq DOMAIN RolePermissions
    BY NamesAssumption
  <2> QED  BY <2>1 DEF PermissionsForRoles, Permission
<1>2. \A role \in Roles[p] :
        "data:erase" \in RolePermissions[role] => "tenant:switch" \in RolePermissions[role]
  <2>1. \A role \in {"viewer", "finops", "keyAdmin", "policyAdmin"} :
          "data:erase" \notin RolePermissions[role]
    BY DEF RolePermissions
  <2>2. "tenant:switch" \in RolePermissions["owner"]
    BY DEF RolePermissions
  <2> QED  BY <1>1, <2>1, <2>2
<1>4. "data:erase" \in PermissionsForRoles(Roles[p]) =>
        "tenant:switch" \in PermissionsForRoles(Roles[p])
  BY <1>2 DEF PermissionsForRoles
<1>5. ASSUME p \in Confined, Bound[p] = None
      PROVE  "tenant:switch" \notin PermissionsForRoles(Roles[p])
  BY <1>5 DEF Confined, Platform
<1> QED  BY <1>1, <1>3, <1>4, <1>5 DEF Home, Stamps

(* What a key admits to.                                                   *)
LEMMA KeyAdmitsHome ==
    ASSUME PlaneTypes, RowsInv, NEW p \in Parties, NEW r \in Replicas,
           NEW k \in Keys \cup {None}, NEW header \in Stamps,
           k # None => keys[k] # None,
           k # None /\ p \in Confined => keys[k].tenant = Home(p),
           NEW x, x = AdmittedKey(p, r, k, header)
    PROVE  x = Idle \/ (x \in AdmittedRequest /\ Housed(x))
<1>1. CASE k = None
  BY <1>1 DEF AdmittedKey
<1>2. CASE k # None
  <2>1. keys[k] \in KeyRow
    BY <1>2 DEF PlaneTypes
  <2>2. /\ keys[k].permissions \in SUBSET Permission /\ keys[k].tenant \in Columns
        /\ keys[k].limits \in Limits
    BY <2>1 DEF KeyRow
  <2>3. p \in Confined =>
          \/ keys[k].tenant \in Tenants /\ keys[k].tenant = Home(p)
          \/ /\ keys[k].tenant \notin Tenants /\ Home(p) = Own
             /\ keys[k].permissions \cap {"tenant:switch", "data:erase"} = {}
    <3>1. Home(p) \in Tenants \cup {Own} /\ Own \notin Tenants
      BY NamesAssumption DEF Home, Stamps
    <3>2. /\ keys[k].tenant = Own => "tenant:switch" \notin keys[k].permissions
          /\ keys[k].tenant \notin Tenants => Eraser(keys[k].permissions)
      BY <1>2 DEF RowsInv
    <3> QED  BY <1>2, <3>1, <3>2 DEF Eraser
  <2>4. x = Admitted(p, r, keys[k].permissions, keys[k].tenant, header, keys[k].limits)
    BY <1>2 DEF AdmittedKey
  <2> QED  BY <2>2, <2>3, <2>4, AdmitsHome
<1> QED  BY <1>1, <1>2

(* A request that arrives, asks or is answered keeps the invariant.        *)
LEMMA ResolvesKeep ==
    ASSUME PlaneInv, NEW q \in Slots, request[q].at # "admitted", NEW x,
           UNCHANGED <<keys, minted, workload, knows, paused, records, trail>>,
           request' = [request EXCEPT ![q] = x],
           DOMAIN cache' = Replicas,
           \A r \in Replicas : \A s \in DOMAIN cache'[r] :
             cache'[r][s] \in [key : Keys \cup {None}, left : Nat],
           \A k \in Keys, s \in Nat : Stands(k, s)' => Stands(k, s),
           \/ x = Idle
           \/ x \in Asked /\ x.secret \in knows[x.by]
           \/ x \in AdmittedRequest /\ Housed(x)
    PROVE  PlaneInv' /\ OwnEffects
<1>1. request' = [d \in Slots |-> IF d = q THEN x ELSE request[d]]
  BY DEF PlaneInv, PlaneTypes
<1>2. /\ x.at \in {"idle", "asking", "looked up", "admitted"}
      /\ x.at \in {"asking", "looked up"} => x.secret \in knows[x.by]
      /\ x.at = "admitted" => Housed(x)
  <2>1. CASE x = Idle
    BY <2>1 DEF Idle
  <2>2. CASE x \in Asked /\ x.secret \in knows[x.by]
    BY <2>2 DEF Asked
  <2>3. CASE x \in AdmittedRequest /\ Housed(x)
    BY <2>3 DEF AdmittedRequest
  <2> QED  BY <2>1, <2>2, <2>3
<1>3. PlaneTypes'
  BY <1>1 DEF PlaneInv, PlaneTypes
<1>4. \A p \in Parties, s \in Nat : Knower(p, s)' => Knower(p, s)
  BY <1>1, <1>2 DEF Knower
<1>5. DrawnInv' /\ SecretsInv'
  <2>1. minted \in Nat /\ DrawnInv /\ SecretsInv
    BY DEF PlaneInv, PlaneTypes
  <2>2. \A d \in Slots : request'[d].at \in {"asking", "looked up"} =>
          request'[d].secret \in knows'[request'[d].by]
    BY <1>1, <1>2, <2>1 DEF DrawnInv
  <2>3. /\ SecretsInv'
        /\ \A p \in Parties, s \in Nat : Knower(p, s)' => s \in 1 .. minted'
        /\ \A k \in Keys, s \in Nat : Stands(k, s)' => s \in 1 .. minted' /\ keys'[k] # None
    BY <1>4, <2>1, SecretsStay
  <2> QED  BY <2>2, <2>3 DEF DrawnInv
<1>6. RowsInv'
  BY DEF PlaneInv, RowsInv
<1>7. AdmissionInv'
  BY <1>1, <1>2 DEF PlaneInv, AdmissionInv, Housed
<1>8. OnlyOwnReads'
  BY <1>1, <1>2 DEF PlaneInv, OnlyOwnReads
<1>9. OwnEffects
  <2>1. \A d \in Slots \ {q} : request'[d] = request[d]
    BY <1>1
  <2> QED  BY <2>1, ActorsEffects
<1> QED  BY <1>3, <1>5, <1>6, <1>7, <1>8, <1>9 DEF PlaneInv

(* Whoever asks with a secret it knows is answered with a key of its own.  *)
LEMMA AnswersFit ==
    ASSUME PlaneInv, NEW p \in Parties, NEW s \in knows[p], NEW k \in Keys, Stands(k, s)
    PROVE  keys[k] # None /\ (p \in Confined => keys[k].tenant = Home(p))
<1>1. s \in Nat /\ Knower(p, s)
  BY DEF PlaneInv, PlaneTypes, Knower
<1> QED  BY <1>1 DEF PlaneInv, SecretsInv, DrawnInv

-----------------------------------------------------------------------------
(* The steps of authentication.                                            *)
LEMMA NotLookedUp ==
    ASSUME NEW x, x = Idle \/ x \in AdmittedRequest
    PROVE  x.at # "looked up"
<1>1. CASE x = Idle
  BY <1>1 DEF Idle
<1>2. CASE x \in AdmittedRequest
  BY <1>2 DEF AdmittedRequest
<1> QED  BY <1>1, <1>2

LEMMA StandsStill ==
    ASSUME PlaneTypes, NEW q \in Slots, NEW x, UNCHANGED <<keys, cache>>,
           request' = [request EXCEPT ![q] = x], x.at # "looked up"
    PROVE  \A k \in Keys, s \in Nat : Stands(k, s)' => Stands(k, s)
<1>1. request' = [d \in Slots |-> IF d = q THEN x ELSE request[d]]
  BY DEF PlaneTypes
<1> QED  BY <1>1 DEF Stands

LEMMA HeadersFit == ASSUME PlaneTypes PROVE Headers \subseteq Stamps
  BY WorkloadsAssumption DEF PlaneTypes, Headers, Stamps

LEMMA VerifyJwtStep ==
    ASSUME PlaneInv, NEW q \in Slots, NEW p \in Parties,
           NEW r \in Replicas, VerifyJwt(q, p, r)
    PROVE  PlaneInv' /\ OwnEffects
<1>0. PlaneTypes
  BY DEF PlaneInv
<1>1. PICK header \in Headers : request' = [request EXCEPT ![q] =
        Admitted(p, r, PermissionsForRoles(Roles[p]), Bound[p], header, Unlimited)]
  BY DEF VerifyJwt
<1> DEFINE x == Admitted(p, r, PermissionsForRoles(Roles[p]), Bound[p], header, Unlimited)
<1>2. /\ UNCHANGED <<keys, minted, cache, workload, knows, paused, records, trail>>
      /\ request[q].at # "admitted" /\ Roles[p] # None
  BY DEF VerifyJwt, Arrives, Idle, keyVars
<1>3. header \in Stamps
  BY <1>0, <1>1, HeadersFit
<1>4. x = Idle \/ (x \in AdmittedRequest /\ Housed(x))
  <2>1. Unlimited \in Limits
    BY DEF Unlimited, Limits
  <2>2. Bound[p] \in Columns
    BY <1>2, LoginsFit DEF Columns
  <2> QED  BY <1>2, <1>3, <2>1, <2>2, LoginsFit, AdmitsHome
<1>5. x.at # "looked up"
  BY <1>4, NotLookedUp
<1> HIDE DEF x
<1>6. \A k \in Keys, s \in Nat : Stands(k, s)' => Stands(k, s)
  BY <1>0, <1>1, <1>2, <1>5, StandsStill DEF x
<1> QED  BY <1>0, <1>1, <1>2, <1>4, <1>6, ResolvesKeep DEF x, PlaneTypes

LEMMA ResolveCachedStep ==
    ASSUME PlaneInv, NEW q \in Slots, NEW p \in Parties,
           NEW r \in Replicas, ResolveCached(q, p, r)
    PROVE  PlaneInv' /\ OwnEffects
<1>0. PlaneTypes /\ RowsInv
  BY DEF PlaneInv
<1>1. PICK header \in Headers, s \in knows[p] :
        /\ Fresh(r, s)
        /\ request' = [request EXCEPT ![q] = AdmittedKey(p, r, cache[r][s].key, header)]
  BY DEF ResolveCached
<1> DEFINE k == cache[r][s].key
           x == AdmittedKey(p, r, k, header)
<1>2. /\ UNCHANGED <<keys, minted, cache, workload, knows, paused, records, trail>>
      /\ request[q].at # "admitted"
  BY DEF ResolveCached, Arrives, Idle, keyVars
<1>3. header \in Stamps /\ s \in Nat /\ s \in DOMAIN cache[r]
  BY <1>0, <1>1, HeadersFit DEF PlaneTypes, Fresh
<1>4. k \in Keys \cup {None}
  BY <1>0, <1>3 DEF PlaneTypes
<1>5. k # None => keys[k] # None /\ (p \in Confined => keys[k].tenant = Home(p))
  <2>1. k # None => k \in Keys /\ Stands(k, s)
    BY <1>3, <1>4 DEF Stands
  <2> HIDE DEF k
  <2> QED  BY <1>1, <2>1, AnswersFit
<1>6. x = Idle \/ (x \in AdmittedRequest /\ Housed(x))
  <2> HIDE DEF k
  <2> QED  BY <1>0, <1>3, <1>4, <1>5, KeyAdmitsHome
<1>7. x.at # "looked up"
  BY <1>6, NotLookedUp
<1> HIDE DEF x
<1>8. \A l \in Keys, t \in Nat : Stands(l, t)' => Stands(l, t)
  BY <1>0, <1>1, <1>2, <1>7, StandsStill DEF x
<1> QED  BY <1>0, <1>1, <1>2, <1>6, <1>8, ResolvesKeep DEF x, PlaneTypes

LEMMA ResolveMissStep ==
    ASSUME PlaneInv, NEW q \in Slots, NEW p \in Parties,
           NEW r \in Replicas, ResolveMiss(q, p, r)
    PROVE  PlaneInv' /\ OwnEffects
<1>0. PlaneTypes
  BY DEF PlaneInv
<1>1. PICK header \in Headers, s \in knows[p] : request' = [request EXCEPT ![q] =
        [at |-> "asking", by |-> p, on |-> r, secret |-> s, header |-> header,
         answer |-> None, age |-> 0]]
  BY DEF ResolveMiss
<1> DEFINE x == [at |-> "asking", by |-> p, on |-> r, secret |-> s, header |-> header,
                 answer |-> None, age |-> 0]
<1>2. /\ UNCHANGED <<keys, minted, cache, workload, knows, paused, records, trail>>
      /\ request[q].at # "admitted"
  BY DEF ResolveMiss, Arrives, Idle, keyVars
<1>3. header \in Stamps /\ s \in Nat
  BY <1>0, <1>1, HeadersFit DEF PlaneTypes
<1>4. x \in Asked /\ x.secret \in knows[x.by] /\ x.at # "looked up"
  BY <1>1, <1>3 DEF Asked
<1> HIDE DEF x
<1>5. \A l \in Keys, t \in Nat : Stands(l, t)' => Stands(l, t)
  BY <1>0, <1>1, <1>2, <1>4, StandsStill DEF x
<1> QED  BY <1>0, <1>1, <1>2, <1>4, <1>5, ResolvesKeep DEF x, PlaneTypes

(* The store's answer is an active key with this secret, or None.          *)
LEMMA FoundIsActive ==
    ASSUME NEW s
    PROVE  \/ FindActiveApiKeyByToken(s) = None /\ \A k \in Keys : ~ActiveWith(k, s)
           \/ /\ FindActiveApiKeyByToken(s) \in Keys /\ FindActiveApiKeyByToken(s) # None
              /\ ActiveWith(FindActiveApiKeyByToken(s), s)
<1>1. CASE \E k \in Keys : ActiveWith(k, s)
  <2> DEFINE found == CHOOSE k \in Keys : ActiveWith(k, s)
  <2>1. found \in Keys /\ ActiveWith(found, s)
    BY <1>1
  <2>2. FindActiveApiKeyByToken(s) = found
    BY <1>1 DEF FindActiveApiKeyByToken
  <2> HIDE DEF found
  <2> QED  BY <2>1, <2>2, NamesAssumption
<1>2. CASE ~\E k \in Keys : ActiveWith(k, s)
  BY <1>2 DEF FindActiveApiKeyByToken
<1> QED  BY <1>1, <1>2

LEMMA ReadStoreStep ==
    ASSUME PlaneInv, NEW q \in Slots, ReadStore(q)
    PROVE  PlaneInv' /\ OwnEffects
<1> DEFINE found == FindActiveApiKeyByToken(request[q].secret)
           x == [request[q] EXCEPT !.at = "looked up", !.answer = found]
<1>0. PlaneTypes
  BY DEF PlaneInv
<1>1. /\ UNCHANGED <<keys, minted, cache, workload, knows, paused, records, trail>>
      /\ request[q].at # "admitted" /\ request[q].at = "asking"
      /\ request' = [request EXCEPT ![q] = x]
  BY <1>0 DEF ReadStore, keyVars, PlaneTypes
<1>2. /\ request[q] \in Asked /\ request[q].secret \in knows[request[q].by]
      /\ request[q].secret \in Nat
  BY <1>0, <1>1, RequestKinds DEF PlaneInv, DrawnInv, Asked
<1>3. found \in Keys \cup {None} /\ (found # None => ActiveWith(found, request[q].secret))
  BY FoundIsActive
<1> HIDE DEF found
<1>4. /\ x \in Asked /\ x.secret = request[q].secret /\ x.by = request[q].by
      /\ x.at = "looked up" /\ x.answer = found
  BY <1>2, <1>3 DEF Asked
<1> HIDE DEF x
<1>5. ASSUME NEW k \in Keys, NEW s \in Nat, Stands(k, s)' PROVE Stands(k, s)
  <2>1. request' = [d \in Slots |-> IF d = q THEN x ELSE request[d]]
    BY <1>0, <1>1 DEF PlaneTypes
  <2>2. CASE k = found /\ s = request[q].secret
    <3>1. k # None
      BY NamesAssumption
    <3> QED  BY <1>3, <2>2, <3>1 DEF ActiveWith, Stands
  <2>3. CASE ~(k = found /\ s = request[q].secret)
    BY <1>1, <1>4, <1>5, <2>1, <2>3 DEF Stands
  <2> QED  BY <2>2, <2>3
<1> QED  BY <1>0, <1>1, <1>2, <1>4, <1>5, ResolvesKeep DEF PlaneTypes

(* What a replica remembers once it has remembered an answer.              *)
LEMMA Remembers ==
    ASSUME PlaneTypes, NEW r \in Replicas, NEW s \in Nat, NEW k \in Keys \cup {None},
           Remember(r, s, k)
    PROVE  /\ DOMAIN cache' = Replicas
           /\ \A o \in Replicas \ {r} : cache'[o] = cache[o]
           /\ s \in DOMAIN cache'[r] /\ DOMAIN cache'[r] \subseteq DOMAIN cache[r] \cup {s}
           /\ cache'[r][s] = [key |-> k, left |-> IF k # None THEN TTL ELSE NegativeTTL]
           /\ \A t \in DOMAIN cache'[r] \ {s} : t \in DOMAIN cache[r] /\ cache'[r][t] = cache[r][t]
<1> DEFINE kept == IF Cardinality(DOMAIN cache[r]) >= MaxEntries THEN {} ELSE DOMAIN cache[r]
           reply == [key |-> k, left |-> IF k # None THEN TTL ELSE NegativeTTL]
<1>1. cache' = [cache EXCEPT ![r] =
                  [t \in kept \cup {s} |-> IF t = s THEN reply ELSE cache[r][t]]]
  BY DEF Remember
<1>2. kept \subseteq DOMAIN cache[r]
  OBVIOUS
<1> HIDE DEF kept, reply
<1>3. /\ DOMAIN cache' = Replicas /\ \A o \in Replicas \ {r} : cache'[o] = cache[o]
      /\ cache'[r] = [t \in kept \cup {s} |-> IF t = s THEN reply ELSE cache[r][t]]
  BY <1>1 DEF PlaneTypes
<1>4. /\ DOMAIN cache'[r] = kept \cup {s} /\ cache'[r][s] = reply
      /\ \A t \in kept \ {s} : cache'[r][t] = cache[r][t]
  BY <1>3
<1> QED  BY <1>2, <1>3, <1>4 DEF reply

LEMMA StoreAnswerStep ==
    ASSUME PlaneInv, NEW q \in Slots, StoreAnswer(q)
    PROVE  PlaneInv' /\ OwnEffects
<1> DEFINE r == request[q].on
           s == request[q].secret
           k == request[q].answer
           p == request[q].by
           x == AdmittedKey(p, r, k, request[q].header)
<1>0. PlaneTypes /\ RowsInv
  BY DEF PlaneInv
<1>1. /\ UNCHANGED <<keys, minted, workload, knows, paused, records, trail>>
      /\ request[q].at # "admitted" /\ request[q].at = "looked up"
      /\ Remember(r, s, k) /\ request' = [request EXCEPT ![q] = x]
  BY DEF StoreAnswer
<1>2. /\ r \in Replicas /\ s \in Nat /\ k \in Keys \cup {None} /\ p \in Parties
      /\ request[q].header \in Stamps /\ s \in knows[p]
  <2>1. request[q] \in Asked
    BY <1>0, <1>1, RequestKinds
  <2> QED  BY <1>1, <2>1 DEF PlaneInv, DrawnInv, Asked
<1>3. k # None => Stands(k, s)
  BY <1>1 DEF Stands
<1> HIDE DEF k, s, p, r
<1>4. k # None => keys[k] # None /\ (p \in Confined => keys[k].tenant = Home(p))
  BY <1>2, <1>3, AnswersFit
<1>5. x = Idle \/ (x \in AdmittedRequest /\ Housed(x))
  BY <1>0, <1>2, <1>4, KeyAdmitsHome
<1>6. x.at # "looked up"
  BY <1>5, NotLookedUp
<1> HIDE DEF x
<1>7. /\ DOMAIN cache' = Replicas
      /\ \A o \in Replicas \ {r} : cache'[o] = cache[o]
      /\ s \in DOMAIN cache'[r] /\ DOMAIN cache'[r] \subseteq DOMAIN cache[r] \cup {s}
      /\ cache'[r][s] = [key |-> k, left |-> IF k # None THEN TTL ELSE NegativeTTL]
      /\ \A t \in DOMAIN cache'[r] \ {s} : t \in DOMAIN cache[r] /\ cache'[r][t] = cache[r][t]
  BY <1>0, <1>1, <1>2, Remembers
<1>8. ASSUME NEW o \in Replicas, NEW t \in DOMAIN cache'[o]
      PROVE  cache'[o][t] \in [key : Keys \cup {None}, left : Nat]
  BY <1>0, <1>2, <1>7, Times DEF PlaneTypes
<1>9. ASSUME NEW l \in Keys, NEW t \in Nat, Stands(l, t)' PROVE Stands(l, t)
  <2>1. request' = [d \in Slots |-> IF d = q THEN x ELSE request[d]]
    BY <1>0, <1>1 DEF PlaneTypes
  <2>2. CASE \E o \in Replicas : t \in DOMAIN cache'[o] /\ cache'[o][t].key = l
    <3>1. PICK o \in Replicas : t \in DOMAIN cache'[o] /\ cache'[o][t].key = l
      BY <2>2
    <3>2. CASE o = r /\ t = s
      <4>1. l = k /\ k # None
        BY <1>7, <3>1, <3>2, NamesAssumption
      <4> QED  BY <1>3, <3>2, <4>1
    <3>3. CASE ~(o = r /\ t = s)
      BY <1>7, <3>1, <3>3 DEF Stands
    <3> QED  BY <3>2, <3>3
  <2>3. CASE ~\E o \in Replicas : t \in DOMAIN cache'[o] /\ cache'[o][t].key = l
    BY <1>1, <1>6, <1>9, <2>1, <2>3 DEF Stands
  <2> QED  BY <2>2, <2>3
<1> QED  BY <1>1, <1>5, <1>7, <1>8, <1>9, ResolvesKeep

-----------------------------------------------------------------------------
(* The steps of key management, of time and of failure.                    *)

(* A request commits what it did to one key, whose partition is its own,   *)
(* and is to be shown the secret that it drew, if it drew one.             *)
LEMMA CommitsKeep ==
    ASSUME PlaneInv, NEW q \in Slots, NEW k \in Keys, NEW shows,
           request[q].at = "admitted",
           \/ /\ shows = None /\ minted' = minted
              /\ keys[k] # None /\ keys'[k].secret = keys[k].secret
           \/ shows = minted + 1 /\ minted' = minted + 1 /\ keys'[k].secret = minted',
           UNCHANGED <<cache, workload, knows, paused, records>>,
           request' = [request EXCEPT ![q] = [at |-> "committed", by |-> request[q].by,
                                              on |-> request[q].on, shows |-> shows]],
           trail' = trail \cup {ResolveTenantScope(q)},
           DOMAIN keys' = Keys, \A l \in Keys \ {k} : keys'[l] = keys[l],
           keys'[k] \in KeyRow, keys'[k] # None,
           keys[k] # None => keys'[k].tenant = keys[k].tenant,
           request[q].by \in Confined => keys'[k].tenant = Home(request[q].by),
           keys'[k].tenant = Own => "tenant:switch" \notin keys'[k].permissions,
           keys'[k].tenant \notin Tenants => Eraser(keys'[k].permissions)
    PROVE  PlaneInv' /\ OwnEffects
<1> DEFINE x == [at |-> "committed", by |-> request[q].by, on |-> request[q].on, shows |-> shows]
<1>0. PlaneTypes /\ RowsInv /\ DrawnInv /\ SecretsInv /\ AdmissionInv /\ OnlyOwnReads
  BY DEF PlaneInv
<1>1. request' = [d \in Slots |-> IF d = q THEN x ELSE request[d]]
  BY <1>0 DEF PlaneTypes
<1>2. request[q] \in AdmittedRequest /\ ResolveTenantScope(q) \in Tenants \cup {Own}
  BY <1>0, Tenanted
<1>3. minted \in Nat /\ minted' \in Nat /\ shows \in Nat \cup {None}
  BY <1>0 DEF PlaneTypes
<1>4. x \in CommittedRequest /\ x.at = "committed" /\ x.by = request[q].by /\ x.shows = shows
  BY <1>2, <1>3 DEF AdmittedRequest, CommittedRequest
<1> HIDE DEF x
<1>5. PlaneTypes'
  BY <1>0, <1>1, <1>2, <1>3, <1>4 DEF PlaneTypes
<1>6. ASSUME NEW p \in Parties, NEW s \in Nat, Knower(p, s)'
      PROVE  Knower(p, s) \/ (p = request[q].by /\ s = shows /\ shows # None)
  BY <1>1, <1>4, <1>6 DEF Knower
<1>7. ASSUME NEW l \in Keys, NEW s \in Nat, Stands(l, s)'
      PROVE  Stands(l, s) \/ (l = k /\ s = keys'[k].secret)
  BY <1>1, <1>4, <1>7 DEF Stands
<1>8. /\ SecretsInv'
      /\ \A p \in Parties, s \in Nat : Knower(p, s)' => s \in 1 .. minted'
      /\ \A l \in Keys, s \in Nat : Stands(l, s)' => s \in 1 .. minted' /\ keys'[l] # None
  <2>1. \A l \in Keys : keys[l] # None => keys'[l] # None /\ keys'[l].tenant = keys[l].tenant
    OBVIOUS
  <2>2. ASSUME NEW l \in Keys, NEW s \in Nat, Stands(l, s)'
        PROVE  \/ Stands(l, s)
               \/ minted' = minted + 1 /\ s = minted' /\ l = k
    <3>1. CASE keys[k] # None /\ keys'[k].secret = keys[k].secret
      <4>1. Stands(k, keys[k].secret)
        BY <3>1 DEF Stands
      <4> QED  BY <1>7, <2>2, <3>1, <4>1
    <3>2. CASE minted' = minted + 1 /\ keys'[k].secret = minted'
      BY <1>7, <2>2, <3>2
    <3> QED  BY <3>1, <3>2
  <2>3. ASSUME NEW p \in Parties, NEW s \in Nat, Knower(p, s)'
        PROVE  \/ Knower(p, s)
               \/ /\ minted' = minted + 1 /\ s = minted'
                  /\ p \in Confined => \A l \in Keys :
                       Stands(l, s)' => keys'[l] # None /\ keys'[l].tenant = Home(p)
    <3>1. SUFFICES ASSUME ~Knower(p, s)
                   PROVE  /\ minted' = minted + 1 /\ s = minted'
                          /\ p \in Confined => \A l \in Keys :
                               Stands(l, s)' => keys'[l] # None /\ keys'[l].tenant = Home(p)
      OBVIOUS
    <3>2. p = request[q].by /\ minted' = minted + 1 /\ s = minted'
      BY <1>6, <2>3, <3>1
    <3>3. ASSUME NEW l \in Keys, Stands(l, s)' PROVE l = k
      <4>1. Stands(l, s) => s \in 1 .. minted
        BY <1>0 DEF DrawnInv
      <4>2. ~Stands(l, s)
        BY <1>3, <3>2, <4>1
      <4> QED  BY <2>2, <3>3, <4>2
    <3> QED  BY <3>2, <3>3
  <2> QED  BY <1>0, <1>3, <2>1, <2>2, <2>3, SecretsStay
<1>9. DrawnInv'
  <2>1. \A d \in Slots : request'[d].at \in {"asking", "looked up"} =>
          request'[d].secret \in knows'[request'[d].by]
    BY <1>0, <1>1, <1>4 DEF DrawnInv
  <2> QED  BY <1>8, <2>1 DEF DrawnInv
<1>10. RowsInv'
  BY <1>0 DEF RowsInv
<1>11. AdmissionInv' /\ OnlyOwnReads'
  BY <1>0, <1>1, <1>4 DEF AdmissionInv, OnlyOwnReads
<1>12. OwnEffects
  <2>1. \A d \in Slots \ {q} : request'[d] = request[d]
    BY <1>1
  <2>2. Changed(keys, keys') \subseteq {k}
    BY <1>0 DEF Changed, PlaneTypes
  <2>3. request[q].by \in Confined => ResolveTenantScope(q) = Home(request[q].by)
    BY <1>0, Homebound
  <2>4. /\ (paused \ paused') \cup (paused' \ paused) = {}
        /\ trail' \ trail \subseteq {ResolveTenantScope(q)}
        /\ (records \ records') \cup (records' \ records) = {}
    OBVIOUS
  <2>5. request[q].by \in Confined =>
          /\ \A l \in Changed(keys, keys') : keys'[l].tenant = Home(request[q].by)
          /\ (paused \ paused') \cup (paused' \ paused) \cup (trail' \ trail)
               \subseteq {Home(request[q].by)}
          /\ \A held \in (records \ records') \cup (records' \ records) :
               Partition(held) = Home(request[q].by)
    BY <2>2, <2>3, <2>4
  <2> QED  BY <2>1, <2>4, <2>5, ActorsEffects
<1> QED  BY <1>5, <1>8, <1>9, <1>10, <1>11, <1>12 DEF PlaneInv

LEMMA CreateKeyStep ==
    ASSUME PlaneInv, NEW q \in Slots, CreateKey(q)
    PROVE  PlaneInv' /\ OwnEffects
<1>0. PlaneTypes /\ AdmissionInv
  BY DEF PlaneInv
<1>1. PICK k \in Keys, permissions \in workload.grants, tenant \in Tenants \cup {None},
           expires \in workload.expiries :
        /\ AuthorizeKeyCreation(q, permissions, tenant)
        /\ CreateApiKey(k, permissions, KeyTenant(q, tenant), expires, Unlimited)
  BY DEF CreateKey
<1> DEFINE t == ResolveControlPlaneTenant(q)
           held == NewKey(minted + 1, permissions, KeyTenant(q, tenant), expires, Unlimited)
<1>2. /\ request[q].at = "admitted" /\ UNCHANGED <<cache, workload, knows, paused, records>>
      /\ request' = [request EXCEPT ![q] = [at |-> "committed", by |-> request[q].by,
                                            on |-> request[q].on, shows |-> minted + 1]]
      /\ trail' = trail \cup {ResolveTenantScope(q)}
      /\ keys[k] = None /\ minted' = minted + 1 /\ keys' = [keys EXCEPT ![k] = held]
  BY <1>1 DEF CreateKey, Permitted, Commits, Audited, CreateApiKey
<1>3. /\ permissions \in SUBSET Permission /\ Eraser(permissions) /\ expires \in BOOLEAN
      /\ Unlimited \in Limits /\ minted + 1 \in Nat
  BY <1>0, <1>1, WorkloadsAssumption DEF PlaneTypes, Unlimited, Limits
<1>4. t \in Columns /\ request[q].tenant \in Stamps
  BY <1>0, <1>2, Tenanted
<1>5. KeyTenant(q, tenant) \in Columns
  BY <1>1, <1>4 DEF KeyTenant, Columns, Stamps
<1>6. request[q].by \in Confined => KeyTenant(q, tenant) = Home(request[q].by)
  BY <1>0, <1>2, Homebound, NamesAssumption DEF KeyTenant
<1>7. KeyTenant(q, tenant) = Own => "tenant:switch" \notin permissions
  <2>1. SUFFICES ASSUME KeyTenant(q, tenant) = Own PROVE "tenant:switch" \notin permissions
    OBVIOUS
  <2>2. None \notin Tenants \cup {Own} /\ Own \notin Tenants
    BY NamesAssumption
  <2>3. t = Own
    BY <1>1, <2>1, <2>2 DEF KeyTenant
  <2>4. "tenant:switch" \notin request[q].permissions
    BY <1>4, <2>2, <2>3 DEF ResolveControlPlaneTenant, Switches, Stamps
  <2> QED  BY <1>1, <2>4 DEF AuthorizeKeyCreation
<1> HIDE DEF t
<1>8. held \in KeyRow /\ held.secret = minted + 1 /\ held.tenant = KeyTenant(q, tenant)
      /\ held.permissions = permissions
  BY <1>3, <1>5 DEF NewKey, KeyRow
<1> HIDE DEF held
<1>9. DOMAIN keys' = Keys /\ keys'[k] = held /\ \A l \in Keys \ {k} : keys'[l] = keys[l]
  BY <1>0, <1>2 DEF PlaneTypes
<1>10. held # None
  BY <1>8, NamesAssumption
<1> QED  BY <1>2, <1>3, <1>6, <1>7, <1>8, <1>9, <1>10, CommitsKeep

LEMMA RotateKeyStep ==
    ASSUME PlaneInv, NEW q \in Slots, RotateKey(q)
    PROVE  PlaneInv' /\ OwnEffects
<1>0. PlaneTypes /\ AdmissionInv /\ RowsInv
  BY DEF PlaneInv
<1>1. PICK k \in Keys : RotateApiKey(k, Scope(q))
  BY DEF RotateKey
<1>2. /\ request[q].at = "admitted" /\ UNCHANGED <<cache, workload, knows, paused, records>>
      /\ request' = [request EXCEPT ![q] = [at |-> "committed", by |-> request[q].by,
                                            on |-> request[q].on, shows |-> minted + 1]]
      /\ trail' = trail \cup {ResolveTenantScope(q)}
      /\ keys[k] # None /\ keys[k].tenant \in Scope(q) /\ minted' = minted + 1
      /\ keys' = [keys EXCEPT ![k].secret = minted + 1]
  BY <1>1 DEF RotateKey, Permitted, Commits, Audited, RotateApiKey, Rotatable, InScope
<1> DEFINE held == [keys[k] EXCEPT !.secret = minted + 1]
<1>3. keys[k] \in KeyRow /\ minted \in Nat
  BY <1>0, <1>2 DEF PlaneTypes
<1>4. held \in KeyRow /\ held.secret = minted + 1 /\ held.tenant = keys[k].tenant
      /\ held.permissions = keys[k].permissions
  BY <1>3 DEF KeyRow
<1>5. DOMAIN keys' = Keys /\ keys'[k] = held /\ \A l \in Keys \ {k} : keys'[l] = keys[l]
  BY <1>0, <1>2 DEF PlaneTypes
<1>6. request[q].by \in Confined => keys[k].tenant = Home(request[q].by)
  BY <1>0, <1>2, Homebound
<1>7. /\ keys[k].tenant = Own => "tenant:switch" \notin keys[k].permissions
      /\ keys[k].tenant \notin Tenants => Eraser(keys[k].permissions)
  BY <1>0, <1>2 DEF RowsInv
<1> HIDE DEF held
<1>8. held # None
  BY <1>4, NamesAssumption
<1> QED  BY <1>2, <1>3, <1>4, <1>5, <1>6, <1>7, <1>8, CommitsKeep

LEMMA RevokeKeyStep ==
    ASSUME PlaneInv, NEW q \in Slots, RevokeKey(q)
    PROVE  PlaneInv' /\ OwnEffects
<1>0. PlaneTypes /\ AdmissionInv /\ RowsInv
  BY DEF PlaneInv
<1>1. PICK k \in Keys : RevokeApiKey(k, Scope(q))
  BY DEF RevokeKey
<1>2. /\ request[q].at = "admitted" /\ UNCHANGED <<cache, workload, knows, paused, records>>
      /\ request' = [request EXCEPT ![q] = [at |-> "committed", by |-> request[q].by,
                                            on |-> request[q].on, shows |-> None]]
      /\ trail' = trail \cup {ResolveTenantScope(q)}
      /\ keys[k] # None /\ keys[k].tenant \in Scope(q) /\ minted' = minted
      /\ keys' = [keys EXCEPT ![k].revoked = TRUE]
  BY <1>1 DEF RevokeKey, Permitted, Commits, Audited, RevokeApiKey, InScope
<1> DEFINE held == [keys[k] EXCEPT !.revoked = TRUE]
<1>3. keys[k] \in KeyRow /\ minted \in Nat
  BY <1>0, <1>2 DEF PlaneTypes
<1>4. held \in KeyRow /\ held.secret = keys[k].secret /\ held.tenant = keys[k].tenant
      /\ held.permissions = keys[k].permissions
  BY <1>3 DEF KeyRow
<1>5. DOMAIN keys' = Keys /\ keys'[k] = held /\ \A l \in Keys \ {k} : keys'[l] = keys[l]
  BY <1>0, <1>2 DEF PlaneTypes
<1>6. request[q].by \in Confined => keys[k].tenant = Home(request[q].by)
  BY <1>0, <1>2, Homebound
<1>7. /\ keys[k].tenant = Own => "tenant:switch" \notin keys[k].permissions
      /\ keys[k].tenant \notin Tenants => Eraser(keys[k].permissions)
  BY <1>0, <1>2 DEF RowsInv
<1> HIDE DEF held
<1>8. held # None
  BY <1>4, NamesAssumption
<1> QED  BY <1>2, <1>3, <1>4, <1>5, <1>6, <1>7, <1>8, CommitsKeep

(* The caches are cleared, and the secret is shown to who asked for it.    *)
LEMMA Cleared ==
    ASSUME PlaneTypes, NEW r \in Replicas, Clear(r)
    PROVE  /\ DOMAIN cache' = Replicas /\ DOMAIN cache'[r] = {}
           /\ \A o \in Replicas \ {r} : cache'[o] = cache[o]
  BY DEF PlaneTypes, Clear

LEMMA RespondStep ==
    ASSUME PlaneInv, NEW q \in Slots, Respond(q)
    PROVE  PlaneInv' /\ OwnEffects
<1> DEFINE p == request[q].by
           s == request[q].shows
<1>0. PlaneTypes /\ RowsInv /\ DrawnInv /\ SecretsInv /\ AdmissionInv /\ OnlyOwnReads
  BY DEF PlaneInv
<1>1. /\ request[q].at = "committed" /\ Clear(request[q].on)
      /\ UNCHANGED <<keys, minted, workload, paused, records, trail>>
      /\ knows' = IF s = None THEN knows ELSE [knows EXCEPT ![p] = @ \cup {s}]
      /\ request' = [d \in Slots |-> IF d = q THEN Idle ELSE request[d]]
  BY <1>0 DEF Respond, Ends, PlaneTypes
<1>2. p \in Parties /\ request[q].on \in Replicas /\ s \in Nat \cup {None}
  BY <1>0, <1>1, RequestKinds DEF CommittedRequest
<1>3. /\ DOMAIN cache' = Replicas
      /\ \A r \in Replicas : \A t \in DOMAIN cache'[r] :
           t \in DOMAIN cache[r] /\ cache'[r][t] = cache[r][t]
  BY <1>0, <1>1, <1>2, Cleared
<1>4. /\ knows' \in [Parties -> SUBSET Nat]
      /\ \A u \in Parties : knows[u] \subseteq knows'[u]
      /\ \A u \in Parties : \A t \in knows'[u] : t \in knows[u] \/ (u = p /\ t = s /\ s # None)
  BY <1>0, <1>1, <1>2 DEF PlaneTypes
<1>5. Idle.at = "idle"
  BY DEF Idle
<1> HIDE DEF p, s
<1>6. PlaneTypes'
  <2>1. \A r \in Replicas : \A t \in DOMAIN cache'[r] :
          cache'[r][t] \in [key : Keys \cup {None}, left : Nat]
    BY <1>0, <1>3 DEF PlaneTypes
  <2> QED  BY <1>0, <1>1, <1>3, <1>4, <2>1 DEF PlaneTypes
<1>7. ASSUME NEW u \in Parties, NEW t \in Nat, Knower(u, t)' PROVE Knower(u, t)
  <2>1. CASE t \in knows'[u]
    BY <1>1, <1>4, <2>1 DEF Knower, p, s
  <2>2. CASE t \notin knows'[u]
    BY <1>1, <1>5, <1>7, <2>2 DEF Knower
  <2> QED  BY <2>1, <2>2
<1>8. ASSUME NEW k \in Keys, NEW t \in Nat, Stands(k, t)' PROVE Stands(k, t)
  BY <1>1, <1>3, <1>5, <1>8 DEF Stands
<1>9. DrawnInv' /\ SecretsInv'
  <2>1. minted \in Nat
    BY <1>0 DEF PlaneTypes
  <2>2. \A d \in Slots : request'[d].at \in {"asking", "looked up"} =>
          request'[d].secret \in knows'[request'[d].by]
    <3>1. ASSUME NEW d \in Slots, request'[d].at \in {"asking", "looked up"}
          PROVE  request'[d].secret \in knows'[request'[d].by]
      <4>1. request'[d] = request[d] /\ request[d].at \in {"asking", "looked up"}
        BY <1>1, <1>5, <3>1
      <4>2. request[d].by \in Parties
        BY <1>0, <4>1, RequestKinds DEF Asked
      <4> QED  BY <1>0, <1>4, <4>1, <4>2 DEF DrawnInv
    <3> QED  BY <3>1
  <2>3. /\ SecretsInv'
        /\ \A u \in Parties, t \in Nat : Knower(u, t)' => t \in 1 .. minted'
        /\ \A k \in Keys, t \in Nat : Stands(k, t)' => t \in 1 .. minted' /\ keys'[k] # None
    BY <1>0, <1>1, <1>7, <1>8, <2>1, SecretsStay
  <2> QED  BY <2>2, <2>3 DEF DrawnInv
<1>10. RowsInv' /\ AdmissionInv' /\ OnlyOwnReads'
  BY <1>0, <1>1, <1>5 DEF RowsInv, AdmissionInv, OnlyOwnReads
<1>11. OwnEffects
  <2>1. \A d \in Slots \ {q} : request'[d] = request[d]
    BY <1>1
  <2>2. records' \ records = {}
    BY <1>1
  <2>3. request[q].at # "admitted"
    BY <1>1
  <2> QED  BY <2>1, <2>2, <2>3, ActorsEffects
<1> QED  BY <1>6, <1>9, <1>10, <1>11 DEF PlaneInv

(* Steps after which a key, a cache and each request say no more than      *)
(* before: keys expire, replicas restart, and time passes.                 *)
LEMMA FadingKeeps ==
    ASSUME PlaneInv, PlaneTypes', UNCHANGED <<minted, workload, knows, paused, records, trail>>,
           \A k \in Keys : keys[k] # None =>
             /\ keys'[k] # None /\ keys'[k].secret = keys[k].secret
             /\ keys'[k].tenant = keys[k].tenant /\ keys'[k].permissions = keys[k].permissions,
           \A k \in Keys : keys'[k] # None => keys[k] # None,
           \A r \in Replicas : \A t \in DOMAIN cache'[r] :
             t \in DOMAIN cache[r] /\ cache'[r][t].key = cache[r][t].key,
           \A d \in Slots :
             \/ request'[d] = Idle
             \/ request'[d] = request[d]
             \/ /\ request[d].at = "looked up" /\ request'[d].at = "looked up"
                /\ request'[d].secret = request[d].secret /\ request'[d].by = request[d].by
                /\ request'[d].answer = request[d].answer
    PROVE  PlaneInv'
<1>0. PlaneTypes /\ RowsInv /\ DrawnInv /\ SecretsInv /\ AdmissionInv /\ OnlyOwnReads
  BY DEF PlaneInv
<1>1. Idle.at = "idle"
  BY DEF Idle
<1>2. ASSUME NEW p \in Parties, NEW s \in Nat, Knower(p, s)' PROVE Knower(p, s)
  BY <1>1, <1>2 DEF Knower
<1>3. ASSUME NEW k \in Keys, NEW s \in Nat, Stands(k, s)' PROVE Stands(k, s)
  BY <1>1, <1>3 DEF Stands
<1>4. DrawnInv' /\ SecretsInv'
  <2>1. minted \in Nat
    BY <1>0 DEF PlaneTypes
  <2>2. \A d \in Slots : request'[d].at \in {"asking", "looked up"} =>
          request'[d].secret \in knows'[request'[d].by]
    BY <1>0, <1>1 DEF DrawnInv
  <2>3. /\ SecretsInv'
        /\ \A p \in Parties, s \in Nat : Knower(p, s)' => s \in 1 .. minted'
        /\ \A k \in Keys, s \in Nat : Stands(k, s)' => s \in 1 .. minted' /\ keys'[k] # None
    BY <1>0, <1>2, <1>3, <2>1, SecretsStay
  <2> QED  BY <2>2, <2>3 DEF DrawnInv
<1>5. RowsInv'
  BY <1>0 DEF RowsInv
<1>6. \A d \in Slots : request'[d].at \in {"admitted", "shown"} => request'[d] = request[d]
  BY <1>1
<1>7. AdmissionInv'
  BY <1>0, <1>6 DEF AdmissionInv
<1>8. OnlyOwnReads'
  <2>1. ASSUME NEW d \in Slots, request'[d].at = "shown", NEW seen \in request'[d].seen
        PROVE  /\ request'[d].by \in Confined => seen.tenant = Home(request'[d].by)
               /\ request'[d].limits.project # None =>
                    seen.project \in {request'[d].limits.project, None}
    <3>1. request'[d] = request[d]
      BY <1>6, <2>1
    <3>2. request[d].at = "shown" /\ seen \in request[d].seen
      BY <2>1, <3>1
    <3>3. /\ request[d].by \in Confined => seen.tenant = Home(request[d].by)
          /\ request[d].limits.project # None => seen.project \in {request[d].limits.project, None}
      BY <1>0, <3>2 DEF OnlyOwnReads
    <3> QED  BY <3>1, <3>3
  <2> QED  BY <2>1 DEF OnlyOwnReads
<1> QED  BY <1>7, <1>8, <1>4, <1>5, <1>6 DEF PlaneInv

\* None of them has an effect on rows that a request could answer for.
LEMMA FadingActsNot ==
    ASSUME UNCHANGED <<paused, records, trail>>,
           UNCHANGED keys \/ UNCHANGED request
    PROVE  OwnEffects
  BY DEF OwnEffects, OnlyOwnEffects, KeysStayInScope, Acts, Changed

LEMMA ExpireStep ==
    ASSUME PlaneInv, NEW k \in Keys, Expire(k),
           UNCHANGED <<workload, request, knows, paused, records, trail>>
    PROVE  PlaneInv' /\ OwnEffects
<1>0. PlaneTypes
  BY DEF PlaneInv
<1> DEFINE held == [keys[k] EXCEPT !.expired = TRUE]
<1>1. /\ keys[k] # None /\ UNCHANGED <<minted, cache>>
      /\ keys' = [keys EXCEPT ![k] = held]
  BY DEF Expire
<1>2. keys[k] \in KeyRow
  BY <1>0, <1>1 DEF PlaneTypes
<1>3. /\ held \in KeyRow /\ held.secret = keys[k].secret /\ held.tenant = keys[k].tenant
      /\ held.permissions = keys[k].permissions
  BY <1>2 DEF KeyRow
<1> HIDE DEF held
<1>4. DOMAIN keys' = Keys /\ keys'[k] = held /\ \A l \in Keys \ {k} : keys'[l] = keys[l]
  BY <1>0, <1>1 DEF PlaneTypes
<1>5. PlaneTypes'
  BY <1>0, <1>1, <1>3, <1>4 DEF PlaneTypes
<1>6. held # None
  BY <1>3, NamesAssumption
<1>7. PlaneInv'
  <2>1. \A l \in Keys : keys[l] # None =>
          /\ keys'[l] # None /\ keys'[l].secret = keys[l].secret
          /\ keys'[l].tenant = keys[l].tenant /\ keys'[l].permissions = keys[l].permissions
    BY <1>3, <1>4, <1>6
  <2>2. \A l \in Keys : keys'[l] # None => keys[l] # None
    BY <1>1, <1>4
  <2> QED  BY <1>1, <1>5, <2>1, <2>2, FadingKeeps
<1> QED  BY <1>7, FadingActsNot

LEMMA RestartStep ==
    ASSUME PlaneInv, NEW r \in Replicas, Restart(r)
    PROVE  PlaneInv' /\ OwnEffects
<1>0. PlaneTypes
  BY DEF PlaneInv
<1>1. /\ Clear(r)
      /\ UNCHANGED <<keys, minted, gone, workload, knows, paused, records, trail>>
      /\ \A d \in Slots : request'[d] = Idle \/ request'[d] = request[d]
      /\ DOMAIN request' = Slots
  BY DEF Restart
<1>2. /\ DOMAIN cache' = Replicas
      /\ \A o \in Replicas : \A t \in DOMAIN cache'[o] :
           t \in DOMAIN cache[o] /\ cache'[o][t] = cache[o][t]
  BY <1>0, <1>1, Cleared
<1>3. PlaneTypes'
  <2>1. \A o \in Replicas : \A t \in DOMAIN cache'[o] :
          cache'[o][t] \in [key : Keys \cup {None}, left : Nat]
    BY <1>0, <1>2 DEF PlaneTypes
  <2>2. request' \in [Slots -> {Idle} \cup Asked \cup AdmittedRequest \cup CommittedRequest
                                         \cup ShownRequest]
    <3>1. \A d \in Slots : request'[d] \in {Idle} \cup Asked \cup AdmittedRequest
                                              \cup CommittedRequest \cup ShownRequest
      BY <1>0, <1>1 DEF PlaneTypes
    <3>2. request' = [d \in Slots |->
            IF request[d] # Idle /\ request[d].on = r THEN Idle ELSE request[d]]
      BY DEF Restart
    <3> QED  BY <3>1, <3>2
  <2> QED  BY <1>0, <1>1, <1>2, <2>1, <2>2 DEF PlaneTypes
<1>4. PlaneInv'
  BY <1>1, <1>2, <1>3, FadingKeeps
<1> QED  BY <1>1, <1>4, FadingActsNot

LEMMA TickStep ==
    ASSUME PlaneInv, Tick
    PROVE  PlaneInv' /\ OwnEffects
<1>0. PlaneTypes
  BY DEF PlaneInv
<1>1. /\ UNCHANGED <<keys, minted, workload, knows, paused, records, trail>>
      /\ cache' = [r \in Replicas |-> [s \in DOMAIN cache[r] |->
                     [cache[r][s] EXCEPT !.left = IF @ > 0 THEN @ - 1 ELSE 0]]]
      /\ request' = [q \in Slots |->
                       IF request[q].at = "looked up" THEN [request[q] EXCEPT !.age = @ + 1]
                                                      ELSE request[q]]
  BY DEF Tick, AgeKeys
<1>2. DOMAIN cache' = Replicas /\ \A r \in Replicas : DOMAIN cache'[r] = DOMAIN cache[r]
  BY <1>1
<1>3. ASSUME NEW r \in Replicas, NEW s \in DOMAIN cache'[r]
      PROVE  /\ cache'[r][s] \in [key : Keys \cup {None}, left : Nat]
             /\ cache'[r][s].key = cache[r][s].key
  <2>1. s \in DOMAIN cache[r] /\ cache[r][s] \in [key : Keys \cup {None}, left : Nat]
    BY <1>0, <1>2 DEF PlaneTypes
  <2>2. cache'[r][s] = [cache[r][s] EXCEPT !.left =
                          IF cache[r][s].left > 0 THEN cache[r][s].left - 1 ELSE 0]
    BY <1>1, <2>1
  <2> QED  BY <2>1, <2>2
<1>4. ASSUME NEW d \in Slots
      PROVE  \/ request'[d] = request[d]
             \/ /\ request'[d] \in Asked
                /\ request[d].at = "looked up" /\ request'[d].at = "looked up"
                /\ request'[d].secret = request[d].secret /\ request'[d].by = request[d].by
                /\ request'[d].answer = request[d].answer
  <2>1. CASE request[d].at = "looked up"
    <3>1. request[d] \in Asked
      BY <1>0, <2>1, RequestKinds
    <3>2. request'[d] = [request[d] EXCEPT !.age = request[d].age + 1]
      BY <1>1, <2>1
    <3>3. request[d].age \in Nat
      BY <3>1 DEF Asked
    <3>4. request[d].age + 1 \in Nat
      BY <3>3
    <3> QED  BY <2>1, <3>1, <3>2, <3>4 DEF Asked
  <2>2. CASE request[d].at # "looked up"
    BY <1>1, <2>2
  <2> QED  BY <2>1, <2>2
<1>5. PlaneTypes'
  <2>1. request' \in [Slots -> {Idle} \cup Asked \cup AdmittedRequest \cup CommittedRequest
                                         \cup ShownRequest]
    <3>1. \A d \in Slots : request'[d] \in {Idle} \cup Asked \cup AdmittedRequest
                                              \cup CommittedRequest \cup ShownRequest
      BY <1>0, <1>4 DEF PlaneTypes
    <3> QED  BY <1>1, <3>1
  <2>2. \A r \in Replicas : \A s \in DOMAIN cache'[r] :
          cache'[r][s] \in [key : Keys \cup {None}, left : Nat]
    BY <1>3
  <2>3. UNCHANGED <<keys, minted, workload, knows, records, trail>> /\ DOMAIN cache' = Replicas
    BY <1>1
  <2> QED  BY <1>0, <2>1, <2>2, <2>3 DEF PlaneTypes
<1>6. PlaneInv'
  BY <1>1, <1>2, <1>3, <1>4, <1>5, FadingKeeps
<1> QED  BY <1>1, <1>6, FadingActsNot

LEMMA PlaneBegins == ASSUME GatewayInit PROVE PlaneInv
<1>1. /\ workload \in Workloads /\ keys = workload.rows /\ paused = {} /\ trail = {}
      /\ minted = Cardinality({k \in Keys : workload.rows[k] # None})
      /\ cache = [r \in Replicas |-> [s \in {} |-> None]]
      /\ request = [q \in Slots |-> Idle]
      /\ knows = [p \in Parties |-> workload.knows[p]]
      /\ records = workload.records
  BY DEF GatewayInit, KeysInit
<1>2. minted \in Nat
  <2>1. IsFiniteSet({k \in Keys : workload.rows[k] # None})
    BY FS_Subset, NamesAssumption
  <2> QED  BY <1>1, <2>1, FS_CardinalityType
<1>3. /\ DOMAIN keys = Keys /\ records \subseteq LogRow
      /\ \A k \in Keys : keys[k] # None =>
           /\ keys[k] \in KeyRow /\ keys[k].secret \in 1 .. minted
           /\ keys[k].tenant = Own => "tenant:switch" \notin keys[k].permissions
           /\ keys[k].tenant \notin Tenants => Eraser(keys[k].permissions)
      /\ \A p \in Parties : knows[p] \subseteq 1 .. minted
      /\ \A p \in Confined, k \in Keys :
           keys[k] # None /\ keys[k].secret \in knows[p] => keys[k].tenant = Home(p)
  BY <1>1, WorkloadsAssumption DEF Confined
<1>4. \A q \in Slots : request[q] = Idle /\ request[q].at = "idle"
  BY <1>1 DEF Idle
<1>5. DOMAIN cache = Replicas /\ \A r \in Replicas : DOMAIN cache[r] = {}
  BY <1>1
<1>6. PlaneTypes
  <2>1. knows \in [Parties -> SUBSET Nat]
    <3>1. \A p \in Parties : knows[p] \in SUBSET Nat
      <4>1. 1 .. minted \subseteq Nat
        OBVIOUS
      <4> QED  BY <1>3, <4>1
    <3>2. DOMAIN knows = Parties /\ knows = [p \in DOMAIN knows |-> knows[p]]
      BY <1>1
    <3> QED  BY <3>1, <3>2
  <2> QED  BY <1>1, <1>2, <1>3, <1>5, <2>1 DEF PlaneTypes
<1>7. /\ \A p \in Parties, s \in Nat : Knower(p, s) => s \in knows[p]
      /\ \A k \in Keys, s \in Nat : Stands(k, s) => keys[k] # None /\ keys[k].secret = s
  BY <1>4, <1>5 DEF Knower, Stands
<1>8. DrawnInv
  BY <1>3, <1>4, <1>7 DEF DrawnInv
<1>9. SecretsInv
  BY <1>3, <1>7 DEF SecretsInv, Confined
<1>10. RowsInv /\ AdmissionInv /\ OnlyOwnReads
  BY <1>3, <1>4 DEF RowsInv, AdmissionInv, OnlyOwnReads
<1> QED  BY <1>6, <1>8, <1>9, <1>10 DEF PlaneInv

LEMMA PlaneStep ==
    ASSUME PlaneInv, [GatewayNext]_gatewayVars
    PROVE  PlaneInv' /\ [OwnEffects]_gatewayVars
<1>1. ASSUME NEW q \in Slots, Quiet(q) PROVE PlaneInv' /\ OwnEffects
  BY <1>1, QuietKeeps
<1>2. ASSUME NEW q \in Slots, NEW p \in Parties, NEW r \in Replicas,
             VerifyJwt(q, p, r) \/ ResolveCached(q, p, r) \/ ResolveMiss(q, p, r)
      PROVE  PlaneInv' /\ OwnEffects
  BY <1>2, VerifyJwtStep, ResolveCachedStep, ResolveMissStep
<1>3. ASSUME NEW q \in Slots,
             \/ ReadStore(q) \/ StoreAnswer(q)
             \/ CreateKey(q) \/ RotateKey(q) \/ RevokeKey(q) \/ Respond(q)
      PROVE  PlaneInv' /\ OwnEffects
  BY <1>3, ReadStoreStep, StoreAnswerStep, CreateKeyStep, RotateKeyStep, RevokeKeyStep, RespondStep
<1>4. ASSUME NEW k \in Keys, Expire(k),
             UNCHANGED <<workload, request, knows, paused, records, trail>>
      PROVE  PlaneInv' /\ OwnEffects
  BY <1>4, ExpireStep
<1>5. ASSUME NEW r \in Replicas, Restart(r) PROVE PlaneInv' /\ OwnEffects
  BY <1>5, RestartStep
<1>6. CASE Tick
  BY <1>6, TickStep
<1>7. CASE UNCHANGED gatewayVars
  <2>1. /\ UNCHANGED <<keys, minted, cache, workload, request, knows, paused, records, trail>>
    BY <1>7 DEF gatewayVars, keyVars
  <2>2. PlaneTypes'
    BY <2>1 DEF PlaneInv, PlaneTypes
  <2>3. PlaneInv'
    BY <2>1, <2>2, FadingKeeps
  <2> QED  BY <1>7, <2>3
<1>8. CASE AccessNext
  BY <1>1, <1>2, <1>3, <1>4, <1>5, <1>6, <1>8 DEF AccessNext, Quiet
<1>9. CASE DataPlaneNext
  BY <1>1, <1>9 DEF DataPlaneNext, Quiet, Billing, Reading
<1> QED  BY <1>7, <1>8, <1>9 DEF GatewayNext

(* An operator without tenant:switch stays in one partition, whatever keys *)
(* it creates, rotates and uses to ask for more: what it is shown, reads   *)
(* and changes is of that partition; and a key bound to a project, users   *)
(* or a budget node bills and reads nothing else (authz/scope.ts:118-137,  *)
(* keys/repo.ts:150-162, db/requestLogScope.ts).                           *)
THEOREM TenantsAreIsolated == GatewaySpec => OperatorsStayHome
<1>1. GatewayInit => PlaneInv
  BY PlaneBegins
<1>2. PlaneInv /\ [GatewayNext]_gatewayVars => PlaneInv' /\ [OnlyOwnEffects /\ KeysStayInScope]_gatewayVars
  BY PlaneStep DEF OwnEffects
<1>3. PlaneInv => OnlyOwnSecrets /\ OnlyOwnReads
  <2> SUFFICES ASSUME PlaneInv PROVE OnlyOwnSecrets
    BY DEF PlaneInv
  <2>1. ASSUME NEW p \in Confined, NEW s \in knows[p], NEW k \in Keys,
               keys[k] # None, keys[k].secret = s
        PROVE  keys[k].tenant = Home(p)
    <3>1. p \in Parties /\ s \in Nat
      BY DEF Confined, PlaneInv, PlaneTypes
    <3>2. Knower(p, s) /\ Stands(k, s)
      BY <2>1 DEF Knower, Stands
    <3> QED  BY <3>1, <3>2 DEF PlaneInv, SecretsInv
  <2> QED  BY <2>1 DEF OnlyOwnSecrets
<1> QED  BY <1>1, <1>2, <1>3, PTL DEF GatewaySpec, OperatorsStayHome

-----------------------------------------------------------------------------
(* Time.  A secret that is no active key's has been so for gone ticks; an  *)
(* answer that is on its way was true when it was read, age ticks ago, and *)
(* is remembered for TTL ticks.                                            *)
TimeInv ==
    /\ gone \in [Secrets -> 0 .. Horizon]
    /\ \A s \in Secrets : ~Dead(s) => gone[s] = 0
    /\ \A r \in Replicas : \A s \in DOMAIN cache[r] :
         cache[r][s].key # None => cache[r][s].left <= TTL
    /\ \A q \in Slots : request[q].at = "looked up" => request[q].age <= Latency
    /\ \A q \in Slots : request[q].at = "asking" => request[q].age = 0
    /\ LivesOn

Buries == \A r \in Replicas, s \in Secrets : Buried(r, s) => Buried(r, s)'

Fades == TimeInv' /\ Buries

LEMMA DeadMeans ==
    ASSUME NEW s
    PROVE  Dead(s) <=> s <= minted /\ \A k \in Keys : ~ActiveWith(k, s)
  BY FoundIsActive DEF Dead

LEMMA DeadThenMeans ==
    ASSUME NEW s
    PROVE  Dead(s)' <=> s <= minted' /\ \A k \in Keys : ~ActiveWith(k, s)'
<1>1. Dead(s)' <=> s <= minted' /\ FindActiveApiKeyByToken(s)' = None
  BY DEF Dead
<1>2. CASE \E k \in Keys : ActiveWith(k, s)'
  <2> DEFINE found == CHOOSE k \in Keys : ActiveWith(k, s)'
  <2>1. found \in Keys
    BY <1>2
  <2>2. FindActiveApiKeyByToken(s)' = found
    BY <1>2 DEF FindActiveApiKeyByToken, ActiveWith
  <2> HIDE DEF found
  <2>3. found # None
    BY <2>1, NamesAssumption
  <2> QED  BY <1>1, <1>2, <2>2, <2>3
<1>3. CASE ~\E k \in Keys : ActiveWith(k, s)'
  <2>1. FindActiveApiKeyByToken(s)' = None
    BY <1>3 DEF FindActiveApiKeyByToken, ActiveWith
  <2> QED  BY <1>1, <1>3, <2>1
<1> QED  BY <1>2, <1>3

(* A dead secret is accepted for the horizon at most.                      *)
LEMMA WithinHorizon ==
    ASSUME NEW a, NEW b, a \in Nat, b \in Nat, a <= Latency, b <= TTL
    PROVE  a + b <= Horizon
  BY Times

LEMMA NothingYet ==
    0 \in Nat /\ 0 <= Latency /\ \A n \in Nat : 0 <= n
  BY Times

LEMMA OneTickMore ==
    ASSUME NEW a \in Nat, a < Latency PROVE a + 1 <= Latency
  BY Times

LEMMA GoneFor ==
    ASSUME gone \in [Secrets -> 0 .. Horizon], NEW s \in Secrets
    PROVE  gone[s] \in Nat /\ gone[s] <= Horizon
<1>1. gone[s] \in 0 .. Horizon
  OBVIOUS
<1> QED  BY <1>1, Times

LEMMA AgeIsNat ==
    ASSUME PlaneTypes, NEW q \in Slots, request[q].at \in {"asking", "looked up"}
    PROVE  request[q].age \in Nat
  BY RequestKinds DEF Asked

LEMMA LeftIsNat ==
    ASSUME PlaneTypes, NEW r \in Replicas, NEW s \in DOMAIN cache[r]
    PROVE  cache[r][s].left \in Nat
<1>1. cache[r][s] \in [key : Keys \cup {None}, left : Nat]
  BY DEF PlaneTypes
<1> QED  BY <1>1

(* A step that brings no answer, whatever it does to the keys: what was    *)
(* dead stays so, and what it kills was alive until now.                   *)
LEMMA NothingNew ==
    ASSUME PlaneTypes, TimeInv, UNCHANGED gone,
           \A s \in Secrets : Dead(s) => Dead(s)',
           \A r \in Replicas : \A s \in DOMAIN cache'[r] :
             s \in DOMAIN cache[r] /\ cache'[r][s] = cache[r][s],
           \A q \in Slots :
             \/ request'[q].at \notin {"asking", "looked up"}
             \/ request'[q] = request[q]
             \/ request'[q].at = "asking" /\ request'[q].age = 0
    PROVE  Fades
<1>1. ASSUME NEW r \in Replicas, NEW s \in Secrets
      PROVE  /\ Accepts(r, s)' => Accepts(r, s) /\ cache'[r][s] = cache[r][s]
             /\ \A q \in Accepting(r, s)' : q \in Accepting(r, s) /\ request'[q] = request[q]
  <2>1. Accepts(r, s)' => Accepts(r, s) /\ cache'[r][s] = cache[r][s]
    BY DEF Accepts, Fresh
  <2>2. ASSUME NEW q \in Slots, q \in Accepting(r, s)'
        PROVE  q \in Accepting(r, s) /\ request'[q] = request[q]
    <3>1. request'[q].at = "looked up"
      BY <2>2 DEF Accepting
    <3>2. request'[q] = request[q]
      BY <3>1
    <3> QED  BY <2>2, <3>2 DEF Accepting
  <2> QED  BY <2>1, <2>2 DEF Accepting
<1>2. LivesOn'
  <2>1. ASSUME NEW r \in Replicas, NEW s \in Secrets, Dead(s)', Accepts(r, s)'
        PROVE  gone[s] + cache'[r][s].left <= Horizon
    <3>1. /\ Accepts(r, s) /\ cache'[r][s] = cache[r][s]
          /\ s \in DOMAIN cache[r] /\ cache[r][s].key # None
      BY <1>1, <2>1 DEF Accepts, Fresh
    <3>2. CASE Dead(s)
      BY <3>1, <3>2 DEF TimeInv, LivesOn
    <3>3. CASE ~Dead(s)
      <4>1. gone[s] = 0 /\ cache[r][s].left <= TTL
        BY <3>1, <3>3 DEF TimeInv
      <4>2. cache[r][s].left \in Nat
        BY <3>1, LeftIsNat
      <4>3. 0 + cache[r][s].left <= Horizon
        BY <4>1, <4>2, NothingYet, WithinHorizon, Zenon
      <4> QED  BY <3>1, <4>1, <4>3, Zenon
    <3> QED  BY <3>2, <3>3
  <2>2. ASSUME NEW r \in Replicas, NEW s \in Secrets, Dead(s)', NEW q \in Accepting(r, s)'
        PROVE  gone[s] <= request'[q].age
    <3>1. q \in Accepting(r, s) /\ request'[q] = request[q]
      BY <1>1, <2>2
    <3>2. request[q].at = "looked up" /\ q \in Slots
      BY <3>1 DEF Accepting
    <3>3. CASE Dead(s)
      BY <3>1, <3>3 DEF TimeInv, LivesOn
    <3>4. CASE ~Dead(s)
      <4>1. gone[s] = 0
        BY <3>4 DEF TimeInv
      <4>2. request[q].age \in Nat
        BY <3>2, AgeIsNat
      <4> QED  BY <3>1, <4>1, <4>2, NothingYet, Zenon
    <3> QED  BY <3>3, <3>4
  <2> QED  BY <2>1, <2>2 DEF LivesOn
<1>3. Buries
  BY <1>1 DEF Buries, Buried
<1>4. \A s \in Secrets : ~Dead(s)' => gone'[s] = 0
  BY DEF TimeInv
<1>5. \A r \in Replicas : \A s \in DOMAIN cache'[r] :
        cache'[r][s].key # None => cache'[r][s].left <= TTL
  BY DEF TimeInv
<1>6. \A q \in Slots : /\ request'[q].at = "looked up" => request'[q].age <= Latency
                       /\ request'[q].at = "asking" => request'[q].age = 0
  <2>1. ASSUME NEW q \in Slots
        PROVE  /\ request'[q].at = "looked up" => request'[q].age <= Latency
               /\ request'[q].at = "asking" => request'[q].age = 0
    <3>1. CASE request'[q] = request[q]
      BY <3>1 DEF TimeInv
    <3>2. CASE request'[q] # request[q]
      BY <3>2
    <3> QED  BY <3>1, <3>2
  <2> QED  BY <2>1
<1>7. gone' \in [Secrets -> 0 .. Horizon]
  BY DEF TimeInv
<1> QED  BY <1>2, <1>3, <1>4, <1>5, <1>6, <1>7 DEF TimeInv, Fades

(* The keys as they were: the dead are the same.                           *)
LEMMA SameDead ==
    ASSUME UNCHANGED <<keys, minted>>, NEW s
    PROVE  Dead(s)' <=> Dead(s)
<1>1. \A k \in Keys : ActiveWith(k, s)' <=> ActiveWith(k, s)
  BY DEF ActiveWith
<1> QED  BY <1>1, DeadMeans, DeadThenMeans

(* A key that is changed, is given a new secret or is no more active than  *)
(* before.                                                                 *)
LEMMA DeadStay ==
    ASSUME PlaneInv, NEW k \in Keys, minted' \in {minted, minted + 1},
           \A l \in Keys \ {k} : keys'[l] = keys[l],
           \A s \in Nat : ActiveWith(k, s)' => ActiveWith(k, s) \/ s = minted + 1
    PROVE  \A s \in Secrets : Dead(s) => Dead(s)'
<1>1. minted \in Nat
  BY DEF PlaneInv, PlaneTypes
<1>2. ASSUME NEW s \in Secrets, Dead(s) PROVE Dead(s)'
  <2>1. s \in Nat /\ s <= minted /\ \A l \in Keys : ~ActiveWith(l, s)
    BY <1>2, DeadMeans DEF Secrets
  <2>2. s <= minted' /\ s # minted + 1
    BY <1>1, <2>1
  <2>3. \A l \in Keys : ~ActiveWith(l, s)'
    BY <2>1, <2>2 DEF ActiveWith
  <2> QED  BY <2>2, <2>3, DeadThenMeans
<1> QED  BY <1>2

LEMMA QuietFades ==
    ASSUME PlaneInv, TimeInv, NEW q \in Slots, Quiet(q)
    PROVE  Fades
<1>0. PlaneTypes /\ AdmissionInv
  BY DEF PlaneInv
<1>1. \E x : /\ x.at \notin {"asking", "looked up"}
             /\ request' = [request EXCEPT ![q] = x] /\ UNCHANGED keyVars
  <2>0. Idle.at \notin {"asking", "looked up"}
    BY DEF Idle
  <2>1. CASE Reading(q)
    <3>1. PICK seen : Shows(q, seen)
      BY <1>0, <2>1, ReadsFit
    <3> QED  BY <3>1 DEF Shows
  <2>2. CASE Billing(q)
    BY <1>0, <2>0, <2>2, Billed DEF Concluded
  <2>3. CASE Sends(q) \/ Pause(q) \/ Resume(q) \/ Erase(q) \/ Fail(q)
    BY <2>0, <2>3 DEF Sends, Pause, Resume, Erase, Fail, Ends
  <2> QED  BY <2>1, <2>2, <2>3 DEF Quiet
<1>2. PICK x : /\ x.at \notin {"asking", "looked up"}
               /\ request' = [request EXCEPT ![q] = x] /\ UNCHANGED keyVars
  BY <1>1
<1>3. \A d \in Slots :
        request'[d].at \notin {"asking", "looked up"} \/ request'[d] = request[d]
  BY <1>0, <1>2 DEF PlaneTypes
<1>4. UNCHANGED <<keys, minted, cache, gone>>
  BY <1>2 DEF keyVars
<1> QED  BY <1>0, <1>3, <1>4, SameDead, NothingNew

LEMMA ArrivalFades ==
    ASSUME PlaneInv, TimeInv, NEW q \in Slots, NEW p \in Parties,
           NEW r \in Replicas,
           VerifyJwt(q, p, r) \/ ResolveCached(q, p, r) \/ ResolveMiss(q, p, r)
    PROVE  Fades
<1>0. PlaneTypes
  BY DEF PlaneInv
<1>1. \E x : /\ request' = [request EXCEPT ![q] = x] /\ UNCHANGED keyVars
             /\ x.at \notin {"asking", "looked up"} \/ (x.at = "asking" /\ x.age = 0)
  <2>1. CASE VerifyJwt(q, p, r)
    <3>1. PICK header \in Headers : request' = [request EXCEPT ![q] =
            Admitted(p, r, PermissionsForRoles(Roles[p]), Bound[p], header, Unlimited)]
      BY <2>1 DEF VerifyJwt
    <3> DEFINE x == Admitted(p, r, PermissionsForRoles(Roles[p]), Bound[p], header, Unlimited)
    <3>2. x.at \notin {"asking", "looked up"}
      BY DEF Admitted, Idle
    <3> HIDE DEF x
    <3> QED  BY <2>1, <3>1, <3>2 DEF x, VerifyJwt
  <2>2. CASE ResolveCached(q, p, r)
    <3>1. PICK header \in Headers, s \in knows[p] :
            request' = [request EXCEPT ![q] = AdmittedKey(p, r, cache[r][s].key, header)]
      BY <2>2 DEF ResolveCached
    <3> DEFINE x == AdmittedKey(p, r, cache[r][s].key, header)
    <3>2. x.at \notin {"asking", "looked up"}
      BY DEF AdmittedKey, Admitted, Idle
    <3> HIDE DEF x
    <3> QED  BY <2>2, <3>1, <3>2 DEF x, ResolveCached
  <2>3. CASE ResolveMiss(q, p, r)
    <3>1. PICK header \in Headers, s \in knows[p] : request' = [request EXCEPT ![q] =
            [at |-> "asking", by |-> p, on |-> r, secret |-> s, header |-> header,
             answer |-> None, age |-> 0]]
      BY <2>3 DEF ResolveMiss
    <3> DEFINE x == [at |-> "asking", by |-> p, on |-> r, secret |-> s, header |-> header,
                     answer |-> None, age |-> 0]
    <3>2. x.at = "asking" /\ x.age = 0
      OBVIOUS
    <3> HIDE DEF x
    <3> QED  BY <2>3, <3>1, <3>2 DEF x, ResolveMiss
  <2> QED  BY <2>1, <2>2, <2>3
<1>2. PICK x : /\ request' = [request EXCEPT ![q] = x] /\ UNCHANGED keyVars
               /\ x.at \notin {"asking", "looked up"} \/ (x.at = "asking" /\ x.age = 0)
  BY <1>1
<1>3. \A d \in Slots : \/ request'[d].at \notin {"asking", "looked up"}
                       \/ request'[d] = request[d]
                       \/ request'[d].at = "asking" /\ request'[d].age = 0
  BY <1>0, <1>2 DEF PlaneTypes
<1>4. UNCHANGED <<keys, minted, cache, gone>>
  BY <1>2 DEF keyVars
<1> QED  BY <1>0, <1>3, <1>4, SameDead, NothingNew

LEMMA KeysFade ==
    ASSUME PlaneInv, TimeInv, NEW q \in Slots,
           CreateKey(q) \/ RotateKey(q) \/ RevokeKey(q)
    PROVE  Fades
<1>0. PlaneTypes
  BY DEF PlaneInv
<1>1. /\ UNCHANGED <<cache, gone>>
      /\ \E shows : Commits(q, shows)
      /\ \E k \in Keys :
           /\ minted' \in {minted, minted + 1}
           /\ \A l \in Keys \ {k} : keys'[l] = keys[l]
           /\ \A s \in Nat : ActiveWith(k, s)' => ActiveWith(k, s) \/ s = minted + 1
  <2>1. CASE CreateKey(q)
    <3>1. PICK k \in Keys, permissions \in workload.grants, tenant \in Tenants \cup {None},
               expires \in workload.expiries :
            CreateApiKey(k, permissions, KeyTenant(q, tenant), expires, Unlimited)
      BY <2>1 DEF CreateKey
    <3> DEFINE held ==
                 NewKey(minted + 1, permissions, KeyTenant(q, tenant), expires, Unlimited)
    <3>2. /\ keys' = [keys EXCEPT ![k] = held] /\ minted' = minted + 1
          /\ UNCHANGED <<cache, gone>>
      BY <3>1 DEF CreateApiKey
    <3>3. held.secret = minted + 1
      BY DEF NewKey
    <3> HIDE DEF held
    <3>4. keys'[k] = held /\ \A l \in Keys \ {k} : keys'[l] = keys[l]
      BY <1>0, <3>2 DEF PlaneTypes
    <3>5. \A s \in Nat : ActiveWith(k, s)' => s = minted + 1
      BY <3>3, <3>4 DEF ActiveWith
    <3> QED  BY <2>1, <3>2, <3>4, <3>5 DEF CreateKey
  <2>2. CASE RotateKey(q)
    <3>1. PICK k \in Keys : RotateApiKey(k, Scope(q))
      BY <2>2 DEF RotateKey
    <3>2. /\ keys' = [keys EXCEPT ![k].secret = minted + 1] /\ minted' = minted + 1
          /\ keys[k] # None /\ UNCHANGED <<cache, gone>>
      BY <3>1 DEF RotateApiKey, Rotatable, InScope
    <3>3. keys[k] \in KeyRow
      BY <1>0, <3>2 DEF PlaneTypes
    <3>4. /\ keys'[k] = [keys[k] EXCEPT !.secret = minted + 1]
          /\ \A l \in Keys \ {k} : keys'[l] = keys[l]
      BY <1>0, <3>2 DEF PlaneTypes
    <3>5. keys'[k].secret = minted + 1
      BY <3>3, <3>4 DEF KeyRow
    <3>6. \A s \in Nat : ActiveWith(k, s)' => s = minted + 1
      BY <3>5 DEF ActiveWith
    <3> QED  BY <2>2, <3>2, <3>4, <3>6 DEF RotateKey
  <2>3. CASE RevokeKey(q)
    <3>1. PICK k \in Keys : RevokeApiKey(k, Scope(q))
      BY <2>3 DEF RevokeKey
    <3>2. /\ keys' = [keys EXCEPT ![k].revoked = TRUE] /\ minted' = minted
          /\ keys[k] # None /\ UNCHANGED <<cache, gone>>
      BY <3>1 DEF RevokeApiKey, InScope
    <3>3. keys[k] \in KeyRow
      BY <1>0, <3>2 DEF PlaneTypes
    <3>4. /\ keys'[k] = [keys[k] EXCEPT !.revoked = TRUE]
          /\ \A l \in Keys \ {k} : keys'[l] = keys[l]
      BY <1>0, <3>2 DEF PlaneTypes
    <3>5. keys'[k].revoked
      BY <3>3, <3>4 DEF KeyRow
    <3>6. \A s \in Nat : ~ActiveWith(k, s)'
      BY <3>5 DEF ActiveWith
    <3> QED  BY <2>3, <3>2, <3>4, <3>6 DEF RevokeKey
  <2> QED  BY <2>1, <2>2, <2>3
<1>2. \A s \in Secrets : Dead(s) => Dead(s)'
  BY <1>1, DeadStay
<1>3. \A d \in Slots :
        request'[d].at \notin {"asking", "looked up"} \/ request'[d] = request[d]
  BY <1>0, <1>1 DEF Commits, PlaneTypes
<1> QED  BY <1>0, <1>1, <1>2, <1>3, NothingNew

LEMMA ExpiryFades ==
    ASSUME PlaneInv, TimeInv, NEW k \in Keys, Expire(k), UNCHANGED request
    PROVE  Fades
<1>0. PlaneTypes
  BY DEF PlaneInv
<1>1. /\ keys' = [keys EXCEPT ![k].expired = TRUE] /\ keys[k] # None
      /\ UNCHANGED <<minted, cache, gone>>
  BY DEF Expire
<1>2. keys[k] \in KeyRow
  BY <1>0, <1>1 DEF PlaneTypes
<1>3. /\ keys'[k] = [keys[k] EXCEPT !.expired = TRUE]
      /\ \A l \in Keys \ {k} : keys'[l] = keys[l]
  BY <1>0, <1>1 DEF PlaneTypes
<1>4. keys'[k].expired
  BY <1>2, <1>3 DEF KeyRow
<1>5. \A s \in Nat : ~ActiveWith(k, s)'
  BY <1>4 DEF ActiveWith
<1>6. \A s \in Secrets : Dead(s) => Dead(s)'
  BY <1>1, <1>3, <1>5, DeadStay
<1> QED  BY <1>0, <1>1, <1>6, NothingNew

LEMMA ClearingFades ==
    ASSUME PlaneInv, TimeInv, NEW r \in Replicas, Clear(r),
           UNCHANGED <<keys, minted, gone>>,
           \A d \in Slots : request'[d] = Idle \/ request'[d] = request[d]
    PROVE  Fades
<1>0. PlaneTypes /\ Idle.at \notin {"asking", "looked up"}
  BY DEF PlaneInv, Idle
<1>1. \A o \in Replicas : \A s \in DOMAIN cache'[o] :
        s \in DOMAIN cache[o] /\ cache'[o][s] = cache[o][s]
  BY <1>0, Cleared
<1>2. \A d \in Slots :
        request'[d].at \notin {"asking", "looked up"} \/ request'[d] = request[d]
  BY <1>0
<1> QED  BY <1>0, <1>1, <1>2, SameDead, NothingNew

(* The store is read: a dead secret is answered with None.                 *)
LEMMA ReadFades ==
    ASSUME PlaneInv, TimeInv, NEW q \in Slots, ReadStore(q)
    PROVE  Fades
<1> DEFINE found == FindActiveApiKeyByToken(request[q].secret)
           x == [request[q] EXCEPT !.at = "looked up", !.answer = found]
<1>0. PlaneTypes
  BY DEF PlaneInv
<1>1. /\ UNCHANGED <<keys, minted, cache, gone>> /\ request[q].at = "asking"
      /\ request' = [d \in Slots |-> IF d = q THEN x ELSE request[d]]
  BY <1>0 DEF ReadStore, keyVars, PlaneTypes
<1>2. request[q] \in Asked /\ request[q].age = 0
  BY <1>0, <1>1, RequestKinds DEF TimeInv
<1> HIDE DEF found
<1>3. /\ x.at = "looked up" /\ x.age = 0 /\ x.answer = found
      /\ x.secret = request[q].secret /\ x.on = request[q].on
  BY <1>2 DEF Asked
<1> HIDE DEF x
<1>4. ASSUME NEW r \in Replicas, NEW s \in Secrets, Dead(s), NEW d \in Accepting(r, s)'
      PROVE  d \in Accepting(r, s) /\ request'[d] = request[d]
  <2>1. CASE d = q
    <3>1. s = request[q].secret /\ found # None
      BY <1>1, <1>3, <1>4, <2>1 DEF Accepting
    <3>2. ActiveWith(found, s) /\ found \in Keys
      BY <3>1, FoundIsActive DEF found
    <3> QED  BY <1>4, <3>2, DeadMeans
  <2>2. CASE d # q
    BY <1>1, <1>4, <2>2 DEF Accepting
  <2> QED  BY <2>1, <2>2
<1>5. \A r \in Replicas, s \in Secrets : Accepts(r, s)' <=> Accepts(r, s)
  BY <1>1 DEF Accepts, Fresh
<1>6. \A s \in Secrets : Dead(s)' <=> Dead(s)
  BY <1>1, SameDead
<1>7. LivesOn'
  <2>1. ASSUME NEW r \in Replicas, NEW s \in Secrets, Dead(s)
        PROVE  /\ Accepts(r, s)' => gone'[s] + cache'[r][s].left <= Horizon
               /\ \A d \in Accepting(r, s)' : gone'[s] <= request'[d].age
    BY <1>1, <1>4, <1>5, <2>1 DEF TimeInv, LivesOn
  <2> QED  BY <1>6, <2>1 DEF LivesOn
<1>8. Buries
  BY <1>4, <1>5, <1>6 DEF Buries, Buried
<1>9. \A d \in Slots : /\ request'[d].at = "looked up" => request'[d].age <= Latency
                       /\ request'[d].at = "asking" => request'[d].age = 0
  <2>1. ASSUME NEW d \in Slots
        PROVE  /\ request'[d].at = "looked up" => request'[d].age <= Latency
               /\ request'[d].at = "asking" => request'[d].age = 0
    <3>1. CASE d = q
      <4>1. request'[d] = x
        BY <1>1, <3>1
      <4> QED  BY <1>3, <4>1, NothingYet, Zenon
    <3>2. CASE d # q
      <4>1. request'[d] = request[d]
        BY <1>1, <3>2
      <4> QED  BY <4>1 DEF TimeInv
    <3> QED  BY <3>1, <3>2
  <2> QED  BY <2>1
<1> QED  BY <1>1, <1>6, <1>7, <1>8, <1>9 DEF TimeInv, Fades

(* The answer is remembered: if its secret is dead, for as long at most as *)
(* TTL from a time when it was not.                                        *)
LEMMA AnswerFades ==
    ASSUME PlaneInv, TimeInv, NEW q \in Slots, StoreAnswer(q)
    PROVE  Fades
<1> DEFINE on == request[q].on
           secret == request[q].secret
           reply == request[q].answer
           x == AdmittedKey(request[q].by, on, reply, request[q].header)
<1>0. PlaneTypes
  BY DEF PlaneInv
<1>1. /\ UNCHANGED <<keys, minted, gone>> /\ request[q].at = "looked up"
      /\ Remember(on, secret, reply)
      /\ request' = [d \in Slots |-> IF d = q THEN x ELSE request[d]]
  BY <1>0 DEF StoreAnswer, PlaneTypes
<1>2. /\ on \in Replicas /\ secret \in Nat /\ reply \in Keys \cup {None}
      /\ request[q].age \in Nat /\ request[q].age <= Latency
  BY <1>0, <1>1, RequestKinds DEF TimeInv, Asked
<1>3. x.at \notin {"asking", "looked up"}
  BY DEF AdmittedKey, Admitted, Idle
<1>4. \A r \in Replicas, s \in Secrets :
        reply # None /\ r = on /\ s = secret => q \in Accepting(r, s)
  BY <1>1 DEF Accepting
<1> HIDE DEF on, secret, reply, x
<1>5. /\ DOMAIN cache' = Replicas
      /\ \A o \in Replicas \ {on} : cache'[o] = cache[o]
      /\ secret \in DOMAIN cache'[on] /\ DOMAIN cache'[on] \subseteq DOMAIN cache[on] \cup {secret}
      /\ cache'[on][secret] = [key |-> reply, left |-> IF reply # None THEN TTL ELSE NegativeTTL]
      /\ \A t \in DOMAIN cache'[on] \ {secret} :
           t \in DOMAIN cache[on] /\ cache'[on][t] = cache[on][t]
  BY <1>0, <1>1, <1>2, Remembers
<1>6. \A r \in Replicas, s \in Secrets : \A d \in Accepting(r, s)' :
        d \in Accepting(r, s) /\ request'[d] = request[d]
  BY <1>1, <1>3 DEF Accepting
<1>7. \A s \in Secrets : Dead(s)' <=> Dead(s)
  BY <1>1, SameDead
<1>8. ASSUME NEW r \in Replicas, NEW s \in Secrets, Accepts(r, s)'
      PROVE  \/ Accepts(r, s) /\ cache'[r][s] = cache[r][s]
             \/ q \in Accepting(r, s) /\ cache'[r][s].left = TTL
  <2>1. CASE r = on /\ s = secret
    <3>1. reply # None
      BY <1>5, <1>8, <2>1 DEF Accepts
    <3> QED  BY <1>4, <1>5, <2>1, <3>1
  <2>2. CASE ~(r = on /\ s = secret)
    BY <1>5, <1>8, <2>2 DEF Accepts, Fresh
  <2> QED  BY <2>1, <2>2
<1>9. LivesOn'
  <2>1. ASSUME NEW r \in Replicas, NEW s \in Secrets, Dead(s), Accepts(r, s)'
        PROVE  gone[s] + cache'[r][s].left <= Horizon
    <3>1. CASE Accepts(r, s) /\ cache'[r][s] = cache[r][s]
      BY <2>1, <3>1 DEF TimeInv, LivesOn
    <3>2. CASE q \in Accepting(r, s) /\ cache'[r][s].left = TTL
      <4>1. gone[s] <= request[q].age
        BY <2>1, <3>2 DEF TimeInv, LivesOn
      <4>2. gone[s] \in Nat
        BY GoneFor DEF TimeInv
      <4> QED  BY <1>2, <3>2, <4>1, <4>2, Times
    <3> QED  BY <1>8, <2>1, <3>1, <3>2
  <2>2. ASSUME NEW r \in Replicas, NEW s \in Secrets, Dead(s), NEW d \in Accepting(r, s)'
        PROVE  gone[s] <= request'[d].age
    <3>1. d \in Accepting(r, s) /\ request'[d] = request[d]
      BY <1>6, <2>2
    <3> QED  BY <2>2, <3>1 DEF TimeInv, LivesOn
  <2> QED  BY <1>1, <1>7, <2>1, <2>2 DEF LivesOn
<1>10. Buries
  <2>1. ASSUME NEW r \in Replicas, NEW s \in Secrets, Buried(r, s) PROVE Buried(r, s)'
    <3>1. Dead(s) /\ ~Accepts(r, s) /\ Accepting(r, s) = {}
      BY <2>1 DEF Buried
    <3>2. ~Accepts(r, s)' /\ Accepting(r, s)' = {}
      BY <1>6, <1>8, <3>1
    <3> QED  BY <1>7, <3>1, <3>2 DEF Buried
  <2> QED  BY <2>1 DEF Buries
<1>11. \A r \in Replicas : \A s \in DOMAIN cache'[r] :
         cache'[r][s].key # None => cache'[r][s].left <= TTL
  <2>1. ASSUME NEW r \in Replicas, NEW s \in DOMAIN cache'[r], cache'[r][s].key # None
        PROVE  cache'[r][s].left <= TTL
    <3>1. CASE r = on /\ s = secret
      <4>1. reply # None
        BY <1>5, <2>1, <3>1
      <4>2. cache'[r][s].left = TTL
        BY <1>5, <3>1, <4>1
      <4> QED  BY <4>2, Times
    <3>2. CASE ~(r = on /\ s = secret)
      <4>1. s \in DOMAIN cache[r] /\ cache'[r][s] = cache[r][s]
        BY <1>5, <2>1, <3>2
      <4> QED  BY <2>1, <4>1 DEF TimeInv
    <3> QED  BY <3>1, <3>2
  <2> QED  BY <2>1
<1>12. \A d \in Slots : /\ request'[d].at = "looked up" => request'[d].age <= Latency
                        /\ request'[d].at = "asking" => request'[d].age = 0
  BY <1>1, <1>3 DEF TimeInv
<1> QED  BY <1>1, <1>7, <1>9, <1>10, <1>11, <1>12 DEF TimeInv, Fades

(* A tick.                                                                 *)
LEMMA TickFades ==
    ASSUME PlaneInv, TimeInv, Tick
    PROVE  Fades
<1>0. PlaneTypes
  BY DEF PlaneInv
<1>1. /\ UNCHANGED <<keys, minted>>
      /\ \A q \in Slots : request[q].at = "looked up" => request[q].age < Latency
      /\ cache' = [r \in Replicas |-> [s \in DOMAIN cache[r] |->
                     [cache[r][s] EXCEPT !.left = IF @ > 0 THEN @ - 1 ELSE 0]]]
      /\ gone' = [s \in Secrets |->
                    IF Dead(s) /\ gone[s] < Horizon THEN gone[s] + 1 ELSE gone[s]]
      /\ request' = [q \in Slots |->
                       IF request[q].at = "looked up" THEN [request[q] EXCEPT !.age = @ + 1]
                                                      ELSE request[q]]
  BY DEF Tick, AgeKeys
<1>2. \A s \in Secrets : Dead(s)' <=> Dead(s)
  BY <1>1, SameDead
<1>3. ASSUME NEW r \in Replicas
      PROVE  /\ DOMAIN cache'[r] = DOMAIN cache[r]
             /\ \A s \in DOMAIN cache[r] :
                  /\ cache'[r][s].key = cache[r][s].key /\ cache[r][s].left \in Nat
                  /\ cache[r][s].left > 0 => cache'[r][s].left = cache[r][s].left - 1
                  /\ cache[r][s].left = 0 => cache'[r][s].left = 0
  <2>1. DOMAIN cache'[r] = DOMAIN cache[r]
    BY <1>1
  <2>2. ASSUME NEW s \in DOMAIN cache[r]
        PROVE  /\ cache'[r][s].key = cache[r][s].key /\ cache[r][s].left \in Nat
               /\ cache[r][s].left > 0 => cache'[r][s].left = cache[r][s].left - 1
               /\ cache[r][s].left = 0 => cache'[r][s].left = 0
    <3>1. cache[r][s] \in [key : Keys \cup {None}, left : Nat]
      BY <1>0 DEF PlaneTypes
    <3>2. cache'[r][s] = [cache[r][s] EXCEPT !.left =
                            IF cache[r][s].left > 0 THEN cache[r][s].left - 1 ELSE 0]
      BY <1>1
    <3> QED  BY <3>1, <3>2
  <2> QED  BY <2>1, <2>2
<1>4. ASSUME NEW q \in Slots
      PROVE  \/ request'[q] = request[q] /\ request[q].at # "looked up"
             \/ /\ request[q].at = "looked up" /\ request'[q].at = "looked up"
                /\ request'[q].on = request[q].on /\ request'[q].secret = request[q].secret
                /\ request'[q].answer = request[q].answer
                /\ request[q].age \in Nat /\ request[q].age < Latency
                /\ request'[q].age = request[q].age + 1
  <2>1. CASE request[q].at = "looked up"
    <3>1. request[q] \in Asked
      BY <1>0, <2>1, RequestKinds
    <3>2. request'[q] = [request[q] EXCEPT !.age = request[q].age + 1]
      BY <1>1, <2>1
    <3>3. request[q].age \in Nat /\ request[q].age < Latency
      BY <1>1, <2>1, <3>1 DEF Asked
    <3> QED  BY <2>1, <3>1, <3>2, <3>3 DEF Asked
  <2>2. CASE request[q].at # "looked up"
    BY <1>1, <2>2
  <2> QED  BY <2>1, <2>2
<1>5. ASSUME NEW s \in Secrets
      PROVE  /\ gone[s] \in Nat /\ gone[s] <= Horizon /\ gone'[s] \in Nat /\ gone'[s] <= Horizon
             /\ gone'[s] <= gone[s] + 1
             /\ ~Dead(s) => gone'[s] = gone[s]
  <2>1. gone[s] \in Nat /\ gone[s] <= Horizon
    BY GoneFor DEF TimeInv
  <2>2. gone'[s] = IF Dead(s) /\ gone[s] < Horizon THEN gone[s] + 1 ELSE gone[s]
    BY <1>1
  <2>3. CASE Dead(s) /\ gone[s] < Horizon
    BY <2>1, <2>2, <2>3, Times
  <2>4. CASE ~(Dead(s) /\ gone[s] < Horizon)
    BY <2>1, <2>2, <2>4
  <2> QED  BY <2>3, <2>4
<1>6. ASSUME NEW r \in Replicas, NEW s \in Secrets
      PROVE  /\ Accepts(r, s)' => /\ Accepts(r, s) /\ cache[r][s].left \in Nat
                                  /\ cache'[r][s].left = cache[r][s].left - 1
             /\ Accepting(r, s)' = Accepting(r, s)
  <2>1. Accepts(r, s)' => /\ Accepts(r, s) /\ cache[r][s].left \in Nat
                          /\ cache'[r][s].left = cache[r][s].left - 1
    BY <1>3 DEF Accepts, Fresh
  <2>2. Accepting(r, s)' = Accepting(r, s)
    BY <1>4 DEF Accepting
  <2> QED  BY <2>1, <2>2
<1>7. LivesOn'
  <2>1. ASSUME NEW r \in Replicas, NEW s \in Secrets, Dead(s), Accepts(r, s)'
        PROVE  gone'[s] + cache'[r][s].left <= Horizon
    <3>1. gone[s] + cache[r][s].left <= Horizon
      BY <1>6, <2>1 DEF TimeInv, LivesOn
    <3>2. Horizon \in Nat
      BY Times
    <3> QED  BY <1>5, <1>6, <2>1, <3>1, <3>2
  <2>2. ASSUME NEW r \in Replicas, NEW s \in Secrets, Dead(s), NEW q \in Accepting(r, s)'
        PROVE  gone'[s] <= request'[q].age
    <3>1. q \in Accepting(r, s) /\ gone[s] <= request[q].age
      BY <1>6, <2>2 DEF TimeInv, LivesOn
    <3>2. q \in Slots /\ request[q].at = "looked up"
      BY <3>1 DEF Accepting
    <3>3. request'[q].age = request[q].age + 1 /\ request[q].age \in Nat
      BY <1>4, <3>2
    <3> QED  BY <1>5, <3>1, <3>3
  <2> QED  BY <1>2, <2>1, <2>2 DEF LivesOn
<1>8. Buries
  BY <1>2, <1>6 DEF Buries, Buried
<1>9. \A s \in Secrets : ~Dead(s)' => gone'[s] = 0
  BY <1>2, <1>5 DEF TimeInv
<1>10. \A r \in Replicas : \A s \in DOMAIN cache'[r] :
         cache'[r][s].key # None => cache'[r][s].left <= TTL
  <2>1. ASSUME NEW r \in Replicas, NEW s \in DOMAIN cache'[r], cache'[r][s].key # None
        PROVE  cache'[r][s].left <= TTL
    <3>1. s \in DOMAIN cache[r] /\ cache[r][s].key # None
      BY <1>3, <2>1
    <3>2. cache[r][s].left <= TTL /\ TTL \in Nat
      BY <3>1, Times DEF TimeInv
    <3> QED  BY <1>3, <3>1, <3>2
  <2> QED  BY <2>1
<1>11. \A q \in Slots : /\ request'[q].at = "looked up" => request'[q].age <= Latency
                        /\ request'[q].at = "asking" => request'[q].age = 0
  <2>1. ASSUME NEW q \in Slots
        PROVE  /\ request'[q].at = "looked up" => request'[q].age <= Latency
               /\ request'[q].at = "asking" => request'[q].age = 0
    <3>1. CASE request'[q] = request[q] /\ request[q].at # "looked up"
      BY <3>1 DEF TimeInv
    <3>2. CASE request[q].at = "looked up"
      <4>1. /\ request'[q].at = "looked up" /\ request[q].age \in Nat
            /\ request[q].age < Latency /\ request'[q].age = request[q].age + 1
        BY <1>4, <3>2
      <4>2. request'[q].age <= Latency
        BY <4>1, OneTickMore, Zenon
      <4> QED  BY <4>1, <4>2
    <3> QED  BY <1>4, <3>1, <3>2
  <2> QED  BY <2>1
<1>12. gone' \in [Secrets -> 0 .. Horizon]
  <2>1. \A s \in Secrets : gone'[s] \in 0 .. Horizon
    <3>1. ASSUME NEW s \in Secrets PROVE gone'[s] \in 0 .. Horizon
      BY <1>5, Times
    <3> QED  BY <3>1
  <2> QED  BY <1>1, <2>1
<1> QED  BY <1>7, <1>8, <1>9, <1>10, <1>11, <1>12 DEF TimeInv, Fades

LEMMA TimeBegins == ASSUME GatewayInit PROVE TimeInv
<1>1. /\ gone = [s \in Secrets |-> 0] /\ cache = [r \in Replicas |-> [s \in {} |-> None]]
      /\ \A q \in Slots : request[q] = Idle
  BY DEF GatewayInit, KeysInit
<1>2. Idle.at = "idle" /\ \A r \in Replicas : DOMAIN cache[r] = {}
  BY <1>1 DEF Idle
<1>3. gone \in [Secrets -> 0 .. Horizon]
  <2>1. 0 \in 0 .. Horizon
    BY Times
  <2> QED  BY <1>1, <2>1
<1>4. LivesOn
  BY <1>1, <1>2 DEF LivesOn, Accepts, Fresh, Accepting
<1> QED  BY <1>1, <1>2, <1>3, <1>4 DEF TimeInv

LEMMA TimeStep ==
    ASSUME PlaneInv, TimeInv, [GatewayNext]_gatewayVars
    PROVE  Fades
<1>1. ASSUME NEW q \in Slots, Quiet(q) PROVE Fades
  BY <1>1, QuietFades
<1>2. ASSUME NEW q \in Slots, NEW p \in Parties, NEW r \in Replicas,
             VerifyJwt(q, p, r) \/ ResolveCached(q, p, r) \/ ResolveMiss(q, p, r)
      PROVE  Fades
  BY <1>2, ArrivalFades
<1>3. ASSUME NEW q \in Slots,
             \/ ReadStore(q) \/ StoreAnswer(q)
             \/ CreateKey(q) \/ RotateKey(q) \/ RevokeKey(q)
      PROVE  Fades
  BY <1>3, ReadFades, AnswerFades, KeysFade
<1>4. ASSUME NEW q \in Slots, Respond(q) PROVE Fades
  <2>1. request[q].on \in Replicas
    <3>1. request[q] # Idle /\ PlaneTypes
      BY <1>4 DEF Respond, Idle, PlaneInv
    <3> QED  BY <3>1, RequestKinds
  <2>2. \A d \in Slots : request'[d] = Idle \/ request'[d] = request[d]
    BY <1>4 DEF Respond, Ends, PlaneInv, PlaneTypes
  <2> QED  BY <1>4, <2>1, <2>2, ClearingFades DEF Respond
<1>5. ASSUME NEW k \in Keys, Expire(k), UNCHANGED request PROVE Fades
  BY <1>5, ExpiryFades
<1>6. ASSUME NEW r \in Replicas, Restart(r) PROVE Fades
  BY <1>6, ClearingFades DEF Restart
<1>7. CASE Tick
  BY <1>7, TickFades
<1>8. CASE UNCHANGED gatewayVars
  <2>1. UNCHANGED <<keys, minted, cache, gone, request>> /\ PlaneTypes
    BY <1>8 DEF gatewayVars, keyVars, PlaneInv
  <2> QED  BY <2>1, SameDead, NothingNew
<1>9. CASE AccessNext
  BY <1>1, <1>2, <1>3, <1>4, <1>5, <1>6, <1>7, <1>9 DEF AccessNext, Quiet
<1>10. CASE DataPlaneNext
  BY <1>1, <1>10 DEF DataPlaneNext, Quiet, Billing, Reading
<1> QED  BY <1>8, <1>9, <1>10 DEF GatewayNext

(* A secret that was rotated away, revoked or has expired is accepted by   *)
(* no replica longer than the cache's TTL after the lookup that found it   *)
(* active, and once a replica has forgotten it never again                 *)
(* (keys/resolver.ts:5-9), for any TTL, duration of a lookup and size of   *)
(* the cache.                                                              *)
THEOREM SecretsDie == GatewaySpec => DeadSecretsFade
<1> DEFINE Inv == PlaneInv /\ TimeInv
           Fading == /\ LivesOn'
                     /\ \A r \in Replicas, s \in Secrets : Buried(r, s) => Buried(r, s)'
<1>1. GatewayInit => Inv
  BY PlaneBegins, TimeBegins
<1>2. Inv /\ [GatewayNext]_gatewayVars => Inv' /\ [Fading]_gatewayVars
  <2> SUFFICES ASSUME Inv, [GatewayNext]_gatewayVars PROVE Inv' /\ Fading
    OBVIOUS
  <2> QED  BY PlaneStep, TimeStep DEF Fades, Buries, TimeInv
<1> HIDE DEF Inv
<1> QED  BY <1>1, <1>2, PTL DEF GatewaySpec, DeadSecretsFade
=============================================================================
