------------------------------ MODULE Processes ------------------------------
(***************************************************************************)
(* The programs that are started and kept alive, side by side: the ships,  *)
(* by launches, autoscaling and respawn (Fleet), and the daemons, by       *)
(* commands and cron (Daemons).  They share no state.                      *)
(***************************************************************************)
EXTENDS Fleet

CONSTANTS Pid, Caller, Cron, Crews      \* of Daemons

VARIABLES crew, proc, port, sig, file, job

dvars == <<crew, proc, port, sig, file, job>>

D == INSTANCE Daemons

ASSUME ProcessesAssumption == D!DaemonsAssumption

-----------------------------------------------------------------------------
\* Ships, launches and daemons keep to their types.
TypesOK == TypeOK /\ D!TypeOK

\* A web server that hangs (see Daemons).
HungIsReplaced == D!HungIsReplaced

\* The web server's button for a restart (see Daemons).
RestartComesBack == D!RestartComesBack
=============================================================================
