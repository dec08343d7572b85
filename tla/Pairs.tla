------------------------------- MODULE Pairs -------------------------------
(***************************************************************************)
(* What the devices table stands for: members, each of which has at most   *)
(* one partner, and partnership is mutual.                                 *)
(***************************************************************************)
CONSTANTS Member, Nobody

VARIABLES members, partner

Init ==
    /\ members = {}
    /\ partner = [m \in Member |-> Nobody]

Join(m) ==
    /\ members' = members \cup {m}
    /\ UNCHANGED partner

Link(a, b) ==
    /\ {a, b} \subseteq members
    /\ partner[a] = Nobody
    /\ partner[b] = Nobody
    /\ partner' = [partner EXCEPT ![a] = b, ![b] = a]
    /\ UNCHANGED members

(* m and its partner, if it has one, are free again.                       *)
Part(m) ==
    partner' = [x \in Member |->
                    IF x = m \/ partner[x] = m THEN Nobody ELSE partner[x]]

Unlink(m) == Part(m) /\ UNCHANGED members

Leave(m) ==
    /\ members' = members \ {m}
    /\ Part(m)

Next ==
    \E a \in Member :
        \/ Join(a)
        \/ Unlink(a)
        \/ Leave(a)
        \/ \E b \in Member : Link(a, b)

Spec == Init /\ [][Next]_<<members, partner>>
=============================================================================
