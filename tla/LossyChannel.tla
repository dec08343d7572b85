---------------------------- MODULE LossyChannel ----------------------------
(***************************************************************************)
(* What a paired connection promises the applications at its ends:         *)
(* messages may be lost, but those that arrive were sent, arrive in the    *)
(* order of sending and never twice, whatever connections and sessions     *)
(* come and go underneath.                                                 *)
(***************************************************************************)
EXTENDS Naturals

CONSTANT Receiver

VARIABLES
    sent,          \* messages sent to each receiver: they are numbered 1..sent
    last           \* the number of the last message it was delivered

Init ==
    /\ sent = [r \in Receiver |-> 0]
    /\ last = [r \in Receiver |-> 0]

Send(r) == sent' = [sent EXCEPT ![r] = @ + 1] /\ UNCHANGED last

Deliver(r) ==
    \E m \in (last[r] + 1) .. sent[r] :
        last' = [last EXCEPT ![r] = m] /\ UNCHANGED sent

Next == \E r \in Receiver : Send(r) \/ Deliver(r)
Spec == Init /\ [][Next]_<<sent, last>>
=============================================================================
