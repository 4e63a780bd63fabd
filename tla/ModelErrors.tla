----------------------------- MODULE ModelErrors -----------------------------
(***************************************************************************)
(* The two places that cope with a failing model, side by side: the proxy  *)
(* (ModelProxy) and the plugin of the ship (Recovery).  They share no      *)
(* state.                                                                  *)
(***************************************************************************)
EXTENDS ModelProxy

CONSTANTS Err, Poller, Fallback, IsFlagship     \* of Recovery

VARIABLES
    sess, tail, wire, chain, poll, lastRetryDetail, retryCooldown, logCooldown, hasSwitched,
    buffer, silent

rvars == <<sess, tail, wire, chain, poll, lastRetryDetail, retryCooldown, logCooldown,
           hasSwitched, buffer, silent>>

R == INSTANCE Recovery

ASSUME ErrorsAssumption == R!RecoveryAssumption

-----------------------------------------------------------------------------
\* The proxy's and the plugin's state keeps to its types.
TypesOK == TypeOK /\ R!TypeOK

\* A ship with an error is not left alone with it (see Recovery).
NotLeftParked == R!NotLeftParked

\* dispatch.go, comment: an error leads to a new attempt or to the flagship (see
\* Recovery).
NoErrorIsSwallowed == R!NoErrorIsSwallowed
=============================================================================
