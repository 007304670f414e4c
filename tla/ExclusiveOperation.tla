------------------------- MODULE ExclusiveOperation -------------------------
(* What the operation slot promises: one holder at a time, and a holder gives *)
(* the slot back before another has it.                                       *)
CONSTANTS Kinds, Nobody
VARIABLE holder

Init == holder = Nobody
Acquire(k) == holder = Nobody /\ holder' = k
Release == holder # Nobody /\ holder' = Nobody
Next == Release \/ \E k \in Kinds : Acquire(k)
Spec == Init /\ [][Next]_holder
=============================================================================
