------------------------------ MODULE MCWallet ------------------------------
(***************************************************************************)
(* Two requests on one wallet whose balance is one topped-up hold: r1 may  *)
(* top up, r2 has a zero estimate and a positive cost.                     *)
(***************************************************************************)
EXTENDS Wallet, TLC

CONSTANTS r1, r2, r3, alice

Only(f)   == [r \in Requests |-> f[r]]
MCAccount == [r \in Requests |-> alice]
MCBalance == alice :> 3
MCEst     == Only(r1 :> 2 @@ r2 :> 0 @@ r3 :> 2)
MCExtra   == Only(r1 :> 1 @@ r2 :> 2 @@ r3 :> 2)
MCSafety  == Only(r1 :> 1 @@ r2 :> 0 @@ r3 :> 0)
MCActual  == Only(r1 :> {1, 4} @@ r2 :> {1} @@ r3 :> {2})
=============================================================================
