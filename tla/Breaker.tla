------------------------------ MODULE Breaker -------------------------------
(***************************************************************************)
(* What the circuit breakers of the models promise: a tripped one keeps    *)
(* its model out of rotation for a whole cooldown; then the model is on    *)
(* probation, and only from there is the breaker closed again.  One step   *)
(* may move several breakers, each by what it may do on its own.           *)
(***************************************************************************)
CONSTANT Model

VARIABLES state, cooled

vars == <<state, cooled>>

Init ==
    /\ state = [m \in Model |-> "closed"]
    /\ cooled = [m \in Model |-> FALSE]

\* The model is taken out of rotation; the cooldown begins anew.
Trip(m) == state'[m] = "open" /\ ~cooled'[m]

CoolDown(m) == state[m] = "open" /\ ~cooled[m] /\ state'[m] = "open" /\ cooled'[m]

Probe(m) == state[m] = "open" /\ cooled[m] /\ state'[m] = "half" /\ ~cooled'[m]

Recover(m) == state[m] = "half" /\ state'[m] = "closed" /\ cooled'[m] = cooled[m]

Rest(m) == state'[m] = state[m] /\ cooled'[m] = cooled[m]

Next == \A m \in Model : Trip(m) \/ CoolDown(m) \/ Probe(m) \/ Recover(m) \/ Rest(m)

Spec == Init /\ [][Next]_vars
=============================================================================
