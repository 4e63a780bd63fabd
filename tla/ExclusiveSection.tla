-------------------------- MODULE ExclusiveSection --------------------------
(***************************************************************************)
(* What every lock of starfleetctl promises its users, whichever file it   *)
(* is kept in: critical sections are entered one at a time.  A section is  *)
(* left by finishing or by dying; the two look the same from outside.      *)
(***************************************************************************)
CONSTANT Proc

VARIABLE inside         \* the processes in their critical section

Init == inside = {}

Enter(p) == inside = {} /\ inside' = {p}

Leave(p) == p \in inside /\ inside' = inside \ {p}

Next == \E p \in Proc : Enter(p) \/ Leave(p)

Spec == Init /\ [][Next]_inside
=============================================================================
