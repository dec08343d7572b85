---------------------------- MODULE MCRateLimit ----------------------------
(* Two requests in flight, two tokens to a window, and a clock that runs   *)
(* past the first two cleanups.                                            *)
EXTENDS RateLimit
=============================================================================
