---------------------------- MODULE MCSDKClient ----------------------------
(* One client and the calls of its application.                            *)
EXTENDS SDKClient
=============================================================================
