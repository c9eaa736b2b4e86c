---------------------------- MODULE LeaseContract ----------------------------
(***************************************************************************)
(* What a store's lease promises: whoever holds a run holds it alone, and  *)
(* another holder comes in only after the former one's time has ended.     *)
(***************************************************************************)
CONSTANT Owners

VARIABLE holders

Init == holders = {}

Enter(o) == holders = {} /\ holders' = {o}

\* By release, by death or because the TTL has passed.
End(o) == o \in holders /\ holders' = holders \ {o}

Next == \E o \in Owners : Enter(o) \/ End(o)

Spec == Init /\ [][Next]_holders
=============================================================================
