--------------------------- MODULE MCPeerSession ---------------------------
(* Two devices; a has the smaller device_id.                               *)
EXTENDS PeerSession, TLC

CONSTANTS a, b

(* How many messages each device encrypts.                                 *)
NoneSent == (a :> 0) @@ (b :> 0)
TwoFromB == (a :> 0) @@ (b :> 2)

(* What each device may have pinned, and may be told, of its peer.         *)
Unpinned == (a :> {NULL}) @@ (b :> {NULL})
MaybeMispinned == (a :> {NULL, "other"}) @@ (b :> {NULL})
Truthful == (a :> {"genuine"}) @@ (b :> {"genuine"})
MaybeMistold == (a :> {"genuine", "other"}) @@ (b :> {NULL})
=============================================================================
