------------------------------- MODULE Failing -------------------------------
(***************************************************************************)
(* Faults met by the deliveries: a statement the database does not answer, *)
(* a process that dies, a connection that is lost.  Bounded, so that the   *)
(* behaviours in which they stop are the ones judged for liveness.         *)
(***************************************************************************)
EXTENDS Naturals

CONSTANTS MaxFaults, None

ASSUME FaultBound == MaxFaults \in Nat

VARIABLE faults

Fault ==
  /\ faults < MaxFaults
  /\ faults' = faults + 1

NoFault == UNCHANGED faults
==============================================================================
