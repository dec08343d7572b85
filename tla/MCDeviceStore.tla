--------------------------- MODULE MCDeviceStore ---------------------------
(* Four devices: two pairs, which may exchange partners.                   *)
EXTENDS DeviceStore, TLC

Symmetry == Permutations(DeviceID) \cup Permutations(StaticKey)
=============================================================================
