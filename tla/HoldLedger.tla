----------------------------- MODULE HoldLedger -----------------------------
(***************************************************************************)
(* What a budget ledger promises to those who hold money in it.  A request *)
(* opens one hold, on all of its rows at once and only while each has      *)
(* room.  The hold ends once: it is freed, alone or with others, or it is  *)
(* settled.  A spend is booked once, whether or not the hold was freed     *)
(* before, on the rows the hold was on; what was incurred before the call  *)
(* is booked on them beside any hold.  Nothing booked is taken back.       *)
(* Nothing is said about leases, sweeps, unwinding or failures.            *)
(***************************************************************************)
EXTENDS Holds

CONSTANTS
    Rows,
    On,         \* On[r]: the rows of request r
    Limit,      \* Limit[c]: what row c may carry, or NoLimit
    NoLimit

VARIABLES
    hold,       \* what became of each request's hold
    held,       \* held[c]: money held on row c
    spent       \* spent[c]: money booked on row c

vars == <<hold, held, spent>>

Fates == {"none", "open", "freed", "settled"}
Open  == {r \in Requests : hold[r] = "open"}

Init ==
    /\ hold  = [r \in Requests |-> "none"]
    /\ held  = [c \in Rows |-> 0]
    /\ spent = [c \in Rows |-> 0]

HasRoom(r, c) == Limit[c] # NoLimit => spent[c] + held[c] + Est[r] <= Limit[c]

Amounts(S, c) == Total({r \in S : c \in On[r]}, Est)
GiveBack(S)   == held' = [c \in Rows |-> held[c] - Amounts(S, c)]
Book(r, a)    == spent' = [c \in Rows |-> IF c \in On[r] THEN spent[c] + a ELSE spent[c]]

Hold(r) ==
    /\ hold[r] = "none"
    /\ \A c \in On[r] : HasRoom(r, c)
    /\ hold' = [hold EXCEPT ![r] = "open"]
    /\ held' = [c \in Rows |-> IF c \in On[r] THEN held[c] + Est[r] ELSE held[c]]
    /\ UNCHANGED spent

Settle(r, a) ==
    /\ hold[r] \in {"open", "freed"}
    /\ hold' = [hold EXCEPT ![r] = "settled"]
    /\ GiveBack({r} \cap Open)
    /\ Book(r, a)

Free(S) ==
    /\ S \subseteq Open
    /\ hold' = [r \in Requests |-> IF r \in S THEN "freed" ELSE hold[r]]
    /\ GiveBack(S)
    /\ UNCHANGED spent

Incur(r) ==
    /\ hold[r] # "settled"
    /\ Book(r, Safety[r])
    /\ UNCHANGED <<hold, held>>

Next ==
    \/ \E r \in Requests : Hold(r) \/ Incur(r) \/ \E a \in Actual[r] : Settle(r, a)
    \/ \E S \in SUBSET Requests : Free(S)

Spec == Init /\ [][Next]_vars
=============================================================================
