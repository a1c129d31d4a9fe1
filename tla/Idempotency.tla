---------------------------- MODULE Idempotency ----------------------------
(***************************************************************************)
(* One idempotency key: the row of idempotency_keys and the requests that  *)
(* carry the key, each on its own (a client's retry is another request).   *)
(* Every SQL statement is atomic; the INSERT and the SELECT of claimKey    *)
(* are two statements, and produce() runs between two others.  A statement *)
(* may fail: "abort" (nothing happened) or "lost" (it did, the caller sees *)
(* an error).  Keys do not interact, so one is enough.                     *)
(***************************************************************************)
EXTENDS Integers, FiniteSets

CONSTANTS
    Requests,       \* the requests that carry this key
    Bodies,
    Body,           \* Body[r]: the fingerprint requestHash gives r's body
    Slow,           \* requests that may outlive IDEMPOTENCY_STALE_MS
    ClaimRetries,   \* how often claimKey starts over; 3 in the code
    DbFaults,
    NoRow           \* the key has no row

ASSUME BodyAssumption == Body \in [Requests -> Bodies]
ASSUME RetryAssumption == ClaimRetries \in Nat
ASSUME KeyFaultAssumption == DbFaults \subseteq {"abort", "lost"} /\ Slow \subseteq Requests

VARIABLES
    row,        \* the row: its hash, status, stored result; "by" claimed it
    aged,       \* the row's claimed_at is older than the stale cutoff
    pc,         \* where each request is
    tries,      \* tries[r]: "attempt" of claimKey
    outcome,    \* outcome[r]: what produce() did
    answer,     \* answer[r]: what r's client got; a request if it is a replay
    lost        \* history: requests whose outcome was not kept as it should

vars == <<row, aged, pc, tries, outcome, answer, lost>>

(* How produce() may end, and which of them ran the model call.            *)
(*   ok, blocked: 2xx, 4xx      spent: 5xx flagged retryable: false        *)
(*   down: any other 5xx        threw, threwLate: an exception             *)
Outcomes == {"ok", "blocked", "spent", "down", "threw", "threwLate"}
Paid     == {"ok", "blocked", "spent", "threwLate"}
Kept     == {"ok", "blocked", "spent"}

Ended  == {"answered", "crashed"}
Owning == {"producing", "produced"}
PC     == Ended \cup Owning \cup {"new", "selecting"}

NoAnswer == "none"
Answers  == {NoAnswer, "own", "reuse", "busy", "error"} \cup Requests

RowRecord == [hash: Bodies, status: {"processing", "completed"},
              result: Requests \cup {NoAnswer}, by: Requests]

ASSUME NoRowAssumption == NoRow \notin RowRecord
ASSUME AnswerAssumption == Requests \cap {NoAnswer, "own", "reuse", "busy", "error"} = {}

Results      == {"ok"} \cup DbFaults
Committed(x) == x # "abort"
Failed(x)    == x # "ok"

Reply(r, a) ==
    /\ pc'     = [pc EXCEPT ![r] = "answered"]
    /\ answer' = [answer EXCEPT ![r] = a]

-----------------------------------------------------------------------------
Init ==
    /\ row     = NoRow
    /\ aged    = FALSE
    /\ pc      = [r \in Requests |-> "new"]
    /\ tries   = [r \in Requests |-> 0]
    /\ outcome = [r \in Requests |-> NoAnswer]
    /\ answer  = [r \in Requests |-> NoAnswer]
    /\ lost    = {}

(* claimKey, first statement: INSERT ... ON CONFLICT DO NOTHING.           *)
Claim(r, x) ==
    /\ pc[r] = "new"
    /\ row = NoRow
    /\ row' = IF Committed(x)
              THEN [hash |-> Body[r], status |-> "processing",
                    result |-> NoAnswer, by |-> r]
              ELSE row
    /\ IF Failed(x) THEN Reply(r, "error")
       ELSE pc' = [pc EXCEPT ![r] = "producing"] /\ UNCHANGED answer
    /\ UNCHANGED <<aged, tries, outcome, lost>>

ClaimConflicts(r) ==
    /\ pc[r] = "new"
    /\ row # NoRow
    /\ pc' = [pc EXCEPT ![r] = "selecting"]
    /\ UNCHANGED <<row, aged, tries, outcome, answer, lost>>

(* claimKey, second statement: the row may be gone by now.                 *)
SelectFindsNothing(r) ==
    /\ pc[r] = "selecting"
    /\ row = NoRow
    /\ IF tries[r] >= ClaimRetries
       THEN Reply(r, "error") /\ UNCHANGED tries
       ELSE /\ tries' = [tries EXCEPT ![r] = @ + 1]
            /\ pc' = [pc EXCEPT ![r] = "new"]
            /\ UNCHANGED answer
    /\ UNCHANGED <<row, aged, outcome, lost>>

(* What withIdempotency makes of an existing row.                          *)
Verdict(r) ==
    IF row.hash # Body[r] THEN "reuse"
    ELSE IF row.status = "processing" THEN "busy" ELSE row.result

(* Mutant: the stored result whatever the body of this request is.         *)
SelectIgnoresHash(r) ==
    /\ pc[r] = "selecting"
    /\ row # NoRow
    /\ Reply(r, IF row.status = "processing" THEN "busy" ELSE row.result)
    /\ UNCHANGED <<row, aged, tries, outcome, lost>>

SelectFindsRow(r) ==
    /\ pc[r] = "selecting"
    /\ row # NoRow
    /\ Reply(r, Verdict(r))
    /\ UNCHANGED <<row, aged, tries, outcome, lost>>

SelectFails(r) ==
    /\ pc[r] = "selecting"
    /\ DbFaults # {}
    /\ Reply(r, "error")
    /\ UNCHANGED <<row, aged, tries, outcome, lost>>

-----------------------------------------------------------------------------
Produce(r, o) ==
    /\ pc[r] = "producing"
    /\ outcome' = [outcome EXCEPT ![r] = o]
    /\ pc' = [pc EXCEPT ![r] = "produced"]
    /\ lost' = IF o = "threwLate" THEN lost \cup {r} ELSE lost
    /\ UNCHANGED <<row, aged, tries, answer>>

(* Mutant: every 5xx is taken for one that is safe to retry.               *)
KeptOutcome(r) == outcome[r] \in {"ok", "blocked"}

(* Deterministic outcomes, and failures after the model ran, are kept.     *)
Keeps(r) == outcome[r] \in Kept

(* completeKey updates the key's row, whoever owns it by now; the error    *)
(* of a failed UPDATE reaches the client in place of the result.           *)
Complete(r, x) ==
    /\ pc[r] = "produced"
    /\ Keeps(r)
    /\ IF Committed(x) /\ row # NoRow
       THEN /\ row' = [row EXCEPT !.status = "completed", !.result = r]
            /\ aged' = FALSE
            /\ lost' = lost \cup IF row.status = "completed" THEN {row.result} ELSE {}
       ELSE /\ lost' = lost \cup {r}
            /\ UNCHANGED <<row, aged>>
    /\ Reply(r, IF Failed(x) THEN "error" ELSE "own")
    /\ UNCHANGED <<tries, outcome>>

(* releaseKey deletes the key's row, whoever owns it by now.               *)
Release(r, x) ==
    /\ pc[r] = "produced"
    /\ ~Keeps(r)
    /\ IF Committed(x)
       THEN /\ row' = NoRow
            /\ aged' = FALSE
            /\ lost' = lost \cup IF row # NoRow /\ row.status = "completed"
                                 THEN {row.result} ELSE {}
       ELSE UNCHANGED <<row, aged, lost>>
    /\ Reply(r, IF Failed(x) \/ outcome[r] \in {"threw", "threwLate"} THEN "error" ELSE "own")
    /\ UNCHANGED <<tries, outcome>>

(* The process serving r dies; if the model has run, its result is gone.   *)
Crash(r) ==
    /\ pc[r] \notin Ended
    /\ pc' = [pc EXCEPT ![r] = "crashed"]
    /\ lost' = IF pc[r] \in Owning THEN lost \cup {r} ELSE lost
    /\ \E o \in IF pc[r] = "producing" THEN {"down", "ok"} ELSE {outcome[r]} :
        outcome' = [outcome EXCEPT ![r] = o]
    /\ UNCHANGED <<row, aged, tries, answer>>

-----------------------------------------------------------------------------
(* The claim crosses the stale cutoff; while its owner is alive only if    *)
(* the request may outlive IDEMPOTENCY_STALE_MS.                           *)
Age ==
    /\ row # NoRow /\ row.status = "processing" /\ ~aged
    /\ pc[row.by] \in Ended \/ row.by \in Slow
    /\ aged' = TRUE
    /\ UNCHANGED <<row, pc, tries, outcome, answer, lost>>

(* Mutants: the stale sweep without its cutoff; one that never matches.    *)
SweepFresh ==
    /\ row # NoRow /\ row.status = "processing"
    /\ row' = NoRow
    /\ aged' = FALSE
    /\ UNCHANGED <<pc, tries, outcome, answer, lost>>
SweepCompletedOnly ==
    /\ row # NoRow /\ row.status = "completed" /\ aged
    /\ row' = NoRow
    /\ aged' = FALSE
    /\ UNCHANGED <<pc, tries, outcome, answer, lost>>

(* cleanupStaleIdempotencyKeys.                                            *)
SweepStale ==
    /\ row # NoRow /\ row.status = "processing" /\ aged
    /\ row' = NoRow
    /\ aged' = FALSE
    /\ UNCHANGED <<pc, tries, outcome, answer, lost>>

(* cleanupCompletedIdempotencyKeys: the replay row is past its retention.  *)
SweepCompleted ==
    /\ row # NoRow /\ row.status = "completed"
    /\ row' = NoRow
    /\ lost' = lost \cup {row.result}
    /\ UNCHANGED <<aged, pc, tries, outcome, answer>>

Step(r) ==
    \/ ClaimConflicts(r) \/ SelectFindsNothing(r) \/ SelectFindsRow(r) \/ SelectFails(r)
    \/ \E o \in Outcomes : Produce(r, o)
    \/ \E x \in Results : Claim(r, x) \/ Complete(r, x) \/ Release(r, x)

Next ==
    \/ \E r \in Requests : Step(r) \/ Crash(r)
    \/ Age \/ SweepStale \/ SweepCompleted

Spec == Init /\ [][Next]_vars

(* A request that has started goes on; claims age; the stale sweep runs on *)
(* every maintenance tick.                                                 *)
Fairness ==
    /\ \A r \in Requests : WF_vars(Step(r) /\ (pc[r] # "new" \/ tries[r] > 0))
    /\ WF_vars(Age)
    /\ WF_vars(SweepStale)

FairSpec == Spec /\ Fairness

-----------------------------------------------------------------------------
(* Each variable holds a value of its kind.                                *)
TypeOK ==
    /\ row \in RowRecord \cup {NoRow} /\ aged \in BOOLEAN
    /\ pc \in [Requests -> PC]
    /\ tries \in [Requests -> 0 .. ClaimRetries]
    /\ outcome \in [Requests -> Outcomes \cup {NoAnswer}]
    /\ answer \in [Requests -> Answers]
    /\ lost \subseteq Requests

(* "Exactly one concurrent request owns a key" (idempotency/repo.ts:3-5):  *)
(* no two requests that stay within the stale window produce at once.      *)
OneProducer ==
    \A r, s \in Requests \ Slow : pc[r] \in Owning /\ pc[s] \in Owning => r = s

(* A model call that was paid for is replayed by every later request on    *)
(* the key, unless its outcome was lost on the way: the only requests that *)
(* re-run the flow and charge again follow such a loss.                    *)
PaidIsReplayed ==
    \A r \in Requests :
        outcome[r] \in Paid /\ pc[r] = "answered" /\ r \notin lost =>
            /\ row # NoRow
            /\ row.status = "completed" /\ row.result = r

(* A replay carries the result of a request with the same body: the key    *)
(* reused with another body is refused (idempotency/service.ts:38-39).     *)
ReplaySameBody ==
    \A r \in Requests : answer[r] \in Requests => Body[answer[r]] = Body[r]

(* No claim lasts forever: whatever happens to its owner, the key can be   *)
(* claimed again or replays a result.                                      *)
ClaimsEnd ==
    (row # NoRow /\ row.status = "processing")
        ~> (row = NoRow \/ row.status = "completed")
=============================================================================
