------------------------------- MODULE MCHub -------------------------------
(* Two paired devices.                                                     *)
EXTENDS Hub, TLC

CONSTANTS a, b

Paired == (a :> b) @@ (b :> a)

(* How often each device connects.                                         *)
OneEach == (a :> 1) @@ (b :> 1)
OneReconnects == (a :> 2) @@ (b :> 1)

(* How many binary frames each device sends.                               *)
OneFromB == (a :> 0) @@ (b :> 1)
TwoFromB == (a :> 0) @@ (b :> 2)
=============================================================================
