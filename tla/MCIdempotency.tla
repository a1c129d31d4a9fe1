--------------------------- MODULE MCIdempotency ---------------------------
(***************************************************************************)
(* Three requests on one key, two with one body and one with another: a    *)
(* claim, its retry and a reuse.  claimKey starts over once instead of     *)
(* three times, so that three requests can make it give up.                *)
(***************************************************************************)
EXTENDS Idempotency, TLC

CONSTANTS r1, r2, r3

MCBody == [r \in Requests |-> IF r = r1 THEN "one" ELSE "two"]
=============================================================================
