----------------------------- MODULE MeterEvents -----------------------------
(***************************************************************************)
(* Metered billing: the usage of a call is recorded in meter_events and    *)
(* reported to Stripe by the delivery sweep.  A row is not claimed before  *)
(* it is reported; Stripe drops a report whose identifier it has already   *)
(* seen, and the rows a report fails for come back with a backoff.         *)
(***************************************************************************)
EXTENDS Failing

CONSTANTS Requests, MaxMeterAttempts

ASSUME MeterConstants == MaxMeterAttempts \in Nat \ {0}

VARIABLES
  meter,    \* meter_events
  reports,  \* reports under way
  invoiced, \* requests whose usage Stripe has taken
  refused,  \* requests recorded as permanently unreportable
  crossed   \* requests two reports of which were under way at once

meterVars == <<meter, reports, invoiced, refused, crossed>>

Usage == [state : {"none", "row", "lost", "pruned", "abandoned"},
          attempts : 0 .. MaxMeterAttempts, due : BOOLEAN, reported : BOOLEAN]

NoUsage == [state |-> "none", attempts |-> 0, due |-> FALSE, reported |-> FALSE]
NewUsage == [state |-> "row", attempts |-> 0, due |-> TRUE, reported |-> FALSE]
LostUsage == [state |-> "lost", attempts |-> 0, due |-> FALSE, reported |-> FALSE]

MeterInit ==
  /\ meter = [r \in Requests |-> NoUsage]
  /\ reports = {}
  /\ invoiced = {}
  /\ refused = {}
  /\ crossed = {}

\* Three attempts at an INSERT that ignores a row already there.
RecordMeter(r) ==
  /\ meter[r].state = "none"
  /\ meter' = [meter EXCEPT ![r] = NewUsage]
  /\ NoFault
  /\ UNCHANGED <<reports, invoiced, refused, crossed>>

\* All three fail: the usage is lost unless one of them was performed after all.
RecordMeterFails(r) ==
  /\ Fault
  /\ meter[r].state = "none"
  /\ \E kept \in {NewUsage, LostUsage} :
       meter' = [meter EXCEPT ![r] = kept]
  /\ UNCHANGED <<reports, invoiced, refused, crossed>>

\* Rows that can be reported now.
Pending(r) ==
  /\ meter[r].state = "row" /\ ~meter[r].reported
  /\ meter[r].due /\ meter[r].attempts < MaxMeterAttempts

ListPendingMeterEvents(worker, linked) ==
  LET batch == {r \in Requests : linked /\ Pending(r)} IN
  /\ reports' = reports \cup {[request |-> r, worker |-> worker, attempts |-> meter[r].attempts,
                               stage |-> "post", awaited |-> TRUE] : r \in batch}
  /\ crossed' = crossed \cup {r \in batch : \E q \in reports : q.request = r}
  /\ UNCHANGED <<meter, invoiced, refused>>

Turns(r, stage) == (reports \ {r}) \cup {[r EXCEPT !.stage = stage]}

\* Stripe takes the event and says so; takes it while the answer is lost; fails
\* or is not reached (429, 5xx, the network); or refuses it for good (4xx).
CreateStripeMeterEvent(r) ==
  /\ r.stage = "post"
  /\ \/ /\ invoiced' = invoiced \cup {r.request}
        /\ reports' \in {Turns(r, "taken"), Turns(r, "failed")}
     \/ /\ reports' \in {Turns(r, "failed"), Turns(r, "refused")}
        /\ UNCHANGED invoiced
  /\ NoFault
  /\ UNCHANGED <<meter, refused, crossed>>

MarkMeterReported(r) ==
  /\ r.stage = "taken"
  /\ meter' = [meter EXCEPT ![r.request].reported = TRUE]
  /\ reports' = reports \ {r}
  /\ NoFault
  /\ UNCHANGED <<invoiced, refused, crossed>>

\* Mutant: a refusal counts as one attempt.
RecordAnyFailure(r) ==
  /\ r.stage \in {"failed", "refused"}
  /\ meter' = [meter EXCEPT ![r.request].attempts = r.attempts + 1, ![r.request].due = FALSE]
  /\ refused' = IF r.stage = "refused" THEN refused \cup {r.request} ELSE refused
  /\ reports' = reports \ {r}
  /\ NoFault
  /\ UNCHANGED <<invoiced, crossed>>

\* The attempts written were read when the rows were listed.
RecordMeterFailure(r) ==
  /\ r.stage \in {"failed", "refused"}
  /\ meter' = [meter EXCEPT
       ![r.request].attempts = IF r.stage = "refused" THEN MaxMeterAttempts ELSE r.attempts + 1,
       ![r.request].due = (r.stage = "refused")]
  /\ refused' = IF r.stage = "refused" THEN refused \cup {r.request} ELSE refused
  /\ reports' = reports \ {r}
  /\ NoFault
  /\ UNCHANGED <<invoiced, crossed>>

MeterDue(r) ==
  /\ meter[r].state = "row" /\ ~meter[r].due /\ ~meter[r].reported
  /\ meter' = [meter EXCEPT ![r].due = TRUE]
  /\ NoFault
  /\ UNCHANGED <<reports, invoiced, refused, crossed>>

\* Mutant: old rows are dropped as well while they can still be reported.
HopelessOrOld(r, linked) == ~meter[r].reported

\* Rows past retention: reported ones; unreported ones that can never be
\* reported, because no customer is linked or their attempts are used up.
Hopeless(r, linked) ==
  ~meter[r].reported /\ (~linked \/ meter[r].attempts >= MaxMeterAttempts)

CleanupMeterEvents(old, linked) ==
  /\ \A r \in old : /\ meter[r].state = "row"
                    /\ meter[r].reported \/ Hopeless(r, linked)
                    /\ \A q \in reports : q.request # r
  /\ meter' = [r \in Requests |->
                 IF r \notin old THEN meter[r]
                 ELSE [meter[r] EXCEPT !.state = IF @ = "row" /\ meter[r].reported
                                                   THEN "pruned" ELSE "abandoned"]]
  /\ UNCHANGED <<reports, invoiced, refused, crossed>>
(***************************************************************************)
(* Usage counts as reported only when Stripe has taken it, and a refusal   *)
(* is final unless two sweeps reported the row at once: the attempts one   *)
(* of them writes were read before the other's answer (billing/repo.ts:    *)
(* 441-464).                                                               *)
(***************************************************************************)
UsageInvoiced ==
  /\ \A r \in Requests : meter[r].reported => r \in invoiced
  /\ \A r \in refused \ crossed : meter[r].attempts = MaxMeterAttempts
==============================================================================
