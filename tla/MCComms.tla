------------------------------- MODULE MCComms -------------------------------
(***************************************************************************)
(* The two stores of the comms bus, side by side: the messages (CommsBus)  *)
(* and the status file of one ship (StatusFile).  They share no state that *)
(* matters to the other; a behaviour is one of the active part.            *)
(*                                                                         *)
(* The messages are looked at in two instances: "store" has one post, a    *)
(* clock, and writes that fail; "names" has two posts, and time stands     *)
(* still.                                                                  *)
(***************************************************************************)
EXTENDS CommsBus, StatusFile, TLC

CONSTANTS Parts, a, b, cli, plugin

VARIABLE active

MCShip == {a, b}

\* A command and the plugin.
MCProc == {cli, plugin}

\* One part is active at a time, so that one of the two counts.
MCSymmetry == Permutations(MCShip) \cup Permutations(MCProc)

ASSUME StatusAssumption

MCInit == active \in Parts /\ Init /\ StatusInit

Fails == RenameFails \/ \E s \in Ship, left \in BOOLEAN : WriteTempFails(s, left)

MCNext ==
    /\ UNCHANGED active
    /\ \/ active = "store" /\ Next /\ posts' <= 1 /\ UNCHANGED statusVars
       \/ /\ active = "names" /\ Next /\ ~Fails /\ UNCHANGED statusVars
          /\ clock' = 0 /\ \A s \in Ship : beat'[s] = None \/ s \in idle'
       \/ active = "status" /\ StatusNext /\ UNCHANGED vars

MCSpec == MCInit /\ [][MCNext]_<<active, vars, statusVars>>
=============================================================================
