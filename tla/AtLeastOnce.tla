----------------------------- MODULE AtLeastOnce -----------------------------
(***************************************************************************)
(* What an at-least-once queue promises to those who put messages in it: a *)
(* message is tried a bounded number of times, no more copies of it arrive *)
(* than it was tried, it counts as confirmed only when a copy arrived, and *)
(* it is given up only when all its tries are used.  Nothing is said about *)
(* how messages are stored, claimed, retried or cleaned up.                *)
(***************************************************************************)
EXTENDS Naturals

CONSTANTS Messages, MaxTries

VARIABLES
  fate,   \* what became of each message
  tries,  \* how often its delivery was begun
  copies  \* how many copies of it arrived

vars == <<fate, tries, copies>>

Fates == {"unsent", "pending", "confirmed", "dead"}

Init ==
  /\ fate = [m \in Messages |-> "unsent"]
  /\ tries = [m \in Messages |-> 0]
  /\ copies = [m \in Messages |-> 0]

Send(m) ==
  /\ fate[m] = "unsent"
  /\ fate' = [fate EXCEPT ![m] = "pending"]
  /\ UNCHANGED <<tries, copies>>

\* A batch is tried at once.
Try(batch) ==
  /\ \A m \in batch : fate[m] = "pending" /\ tries[m] < MaxTries
  /\ tries' = [m \in Messages |-> IF m \in batch THEN tries[m] + 1 ELSE tries[m]]
  /\ UNCHANGED <<fate, copies>>

\* A copy may arrive late, when an earlier one has been confirmed already.
Arrive(m) ==
  /\ copies[m] < tries[m]
  /\ copies' = [copies EXCEPT ![m] = @ + 1]
  /\ UNCHANGED <<fate, tries>>

Confirm(m) ==
  /\ fate[m] = "pending" /\ copies[m] > 0
  /\ fate' = [fate EXCEPT ![m] = "confirmed"]
  /\ UNCHANGED <<tries, copies>>

\* One event can end the last try of several messages.
GiveUp(batch) ==
  /\ \A m \in batch : fate[m] = "pending" /\ tries[m] = MaxTries
  /\ fate' = [m \in Messages |-> IF m \in batch THEN "dead" ELSE fate[m]]
  /\ UNCHANGED <<tries, copies>>

Next ==
  \/ \E m \in Messages : Send(m) \/ Arrive(m) \/ Confirm(m)
  \/ \E batch \in SUBSET Messages : Try(batch) \/ GiveUp(batch)

Spec == Init /\ [][Next]_vars

\* Every message sent is confirmed or given up in the end: []<>NonePending.
NonePending == \A m \in Messages : fate[m] # "pending"
==============================================================================
