----------------------------- MODULE PairCodes -----------------------------
(***************************************************************************)
(* The registry of in-band pairing codes (internal/relay/paircodes.go).    *)
(* Put and Take each run under the registry's mutex, so each is one step.  *)
(*                                                                         *)
(* Each Put is a grant.  Grants are numbered so that properties can tell   *)
(* apart two grants of the same six digits; the code sees only the digits. *)
(* Time is abstracted to the one thing Take asks of it: whether an entry's *)
(* expiresAt has passed, that is whether its grant has lapsed.  Module      *)
(* Pairing puts the steps to use.                                          *)
(***************************************************************************)
EXTENDS Naturals

CONSTANTS
    Code,          \* the values GeneratePairingCode may draw
    DeviceID,
    NULL,
    MaxGrants      \* bound: how many codes are ever requested

VARIABLES
    entries,       \* map from code to its pending grant
    grants,        \* how many grants there have been
    requester,     \* the device each grant was made to
    lapsed,        \* the grants whose TTL has elapsed
    redeemed       \* how many times each grant was taken successfully

Grant == 1..MaxGrants

TypeOK ==
    /\ entries \in [Code -> Grant \cup {NULL}]
    /\ grants \in 0..MaxGrants
    /\ requester \in [Grant -> DeviceID \cup {NULL}]
    /\ \A g \in 1..grants : requester[g] \in DeviceID
    /\ lapsed \subseteq Grant
    /\ redeemed \in [Grant -> Nat]

Init ==
    /\ entries = [c \in Code |-> NULL]
    /\ grants = 0
    /\ requester = [g \in Grant |-> NULL]
    /\ lapsed = {}
    /\ redeemed = [g \in Grant |-> 0]

-----------------------------------------------------------------------------
(* handlePairRequest draws a code and stores it, replacing whatever entry  *)
(* the same digits already had.                                            *)
Put(code, requesterID) ==
    /\ grants < MaxGrants
    /\ grants' = grants + 1
    /\ entries' = [entries EXCEPT ![code] = grants + 1]
    /\ requester' = [requester EXCEPT ![grants + 1] = requesterID]
    /\ UNCHANGED <<lapsed, redeemed>>

(* PairingCodeTTL elapses for a grant.                                     *)
TTLElapses(g) ==
    /\ g <= grants
    /\ g \notin lapsed
    /\ lapsed' = lapsed \cup {g}
    /\ UNCHANGED <<entries, grants, requester, redeemed>>

(* Take succeeds for a code that is present and has not expired.           *)
Redeemable(code) == entries[code] # NULL /\ entries[code] \notin lapsed

(* Faulty variant: the entry is left in the registry.                      *)
TakeKeeps(code) ==
    /\ redeemed' = IF Redeemable(code)
                   THEN [redeemed EXCEPT ![entries[code]] = @ + 1]
                   ELSE redeemed
    /\ UNCHANGED <<entries, grants, requester, lapsed>>

(* It removes the entry whatever the outcome.                              *)
Take(code) ==
    /\ entries' = [entries EXCEPT ![code] = NULL]
    /\ redeemed' = IF Redeemable(code)
                   THEN [redeemed EXCEPT ![entries[code]] = @ + 1]
                   ELSE redeemed
    /\ UNCHANGED <<grants, requester, lapsed>>

-----------------------------------------------------------------------------
(* A code is single-use (docs/PROTOCOL.md section 5.3): however the same   *)
(* digits are drawn, taken and drawn again, no grant is redeemed twice.    *)
SingleUse == \A g \in Grant : redeemed[g] <= 1
=============================================================================
