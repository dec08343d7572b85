----------------------------- MODULE MCPairing -----------------------------
EXTENDS Pairing, TLC

CONSTANTS a, b, c3

(* How often each device connects.                                         *)
OneReconnects == [d \in DeviceID |-> IF d = a THEN 2 ELSE 1]

SymmetricCodes == Permutations(Code)
=============================================================================
