---------------------------- MODULE MCExclusive ----------------------------
(***************************************************************************)
(* The ways in which the program keeps two users of a thing apart, side by *)
(* side: the lock file of the clone (Flock), the claims, leases and tips   *)
(* of pull requests (PullRequests), the one environment of the bridge      *)
(* (Bridge), and the two handlers of the dispatch plugin that look for the *)
(* same messages (Delivery).  They share no state; a behaviour is one of   *)
(* the active part.                                                        *)
(***************************************************************************)
EXTENDS Flock, PullRequests, Bridge, Delivery

CONSTANTS a, b, w, p1, p2, poll1, poll2

VARIABLE active

-----------------------------------------------------------------------------
\* Both requests are of one branch, which is the hard case.
MCBranch == [p \in PR |-> "x"]

\* What agent a and agent b set about.
Crew(S, U) == [x \in Agent |-> IF x = a THEN S ELSE U]

MCCrews ==
    {Crew({<<"claim", p1>>, <<"release", p1>>, <<"claim", p2>>},
          {<<"claim", p1>>, <<"steal", p1>>, <<"claim", p2>>, <<"releaseall", p1>>, <<"force", p1>>}),
     Crew({<<"checkout", p1>>, <<"amend", p1>>},
          {<<"checkout", p1>>, <<"checkout", p2>>, <<"amend", p2>>}),
     Crew({<<"cancel", p1>>}, {<<"checkout", p1>>, <<"amend", p1>>}),
     Crew({<<"prune", p1>>}, {<<"merge", p1>>})}

ASSUME PullRequestsAssumption /\ BridgeAssumption

MCInit ==
    /\ active \in {"lock", "requests", "bridge", "delivery"}
    /\ Init /\ RequestsInit /\ BridgeInit /\ DeliveryInit
    /\ active # "requests" => crew = CHOOSE c \in MCCrews : TRUE

\* Where a command cancels runs, only the branch of p1 moves.
OneBranchMoves == <<"cancel", p1>> \in crew[a] => tip'[p2] = tip[p2]

\* The runs of the poll are alike: the second starts only beside the first.
InOrder ==
    poll[poll2] = NoPoll /\ poll'[poll2] # NoPoll => poll[poll1] # NoPoll

MCNext ==
    /\ UNCHANGED active
    /\ \/ /\ active = "lock" /\ Next
          /\ UNCHANGED <<requestsVars, bridgeVars, deliveryVars>>
       \/ /\ active = "requests" /\ RequestsNext /\ OneBranchMoves
          /\ UNCHANGED <<vars, bridgeVars, deliveryVars>>
       \/ /\ active = "bridge" /\ BridgeNext
          /\ UNCHANGED <<vars, requestsVars, deliveryVars>>
       \/ /\ active = "delivery" /\ DeliveryNext /\ InOrder
          /\ UNCHANGED <<vars, requestsVars, bridgeVars>>

\* The fairness of the plugin where it is active (see Delivery); the guard of
\* StartPoll never lets poll2 begin.
Active == active = "delivery"

MCFairness ==
    /\ WF_deliveryVars(Active /\ Load) /\ WF_deliveryVars(Active /\ BecomeReady)
    /\ WF_deliveryVars(Active /\ StartPoll(poll1))
    /\ SF_deliveryVars(Active /\ ListInbox(poll1) /\ session')
    /\ WF_deliveryVars(Active /\ Handled(poll1))
    /\ WF_deliveryVars(Active /\ (Accept(poll1) \/ Reject(poll1)))
    /\ WF_deliveryVars(Active /\ ClaimInjected(poll1))
    /\ \A t \in Turn : WF_deliveryVars(Active /\ GoOn(t))

MCSpec ==
    /\ MCInit /\ [][MCNext]_<<active, vars, requestsVars, bridgeVars, deliveryVars>>
    /\ MCFairness
=============================================================================
