---------------------------- MODULE MCModelProxy ----------------------------
(***************************************************************************)
(* The parts of ModelErrors one at a time: they share no state, and a      *)
(* behaviour is one of the active part.  The models have one provider.     *)
(***************************************************************************)
EXTENDS ModelErrors

CONSTANTS
    Parts,      \* the parts to be looked at
    c1, c2, p, p1, p2

VARIABLES
    active,
    errors      \* those that this behaviour may meet

Streamed == <<TRUE, TRUE>>
Plain == <<TRUE, FALSE>>
Direct == <<FALSE, TRUE>>

\* Two requests at once where the strategy falls back or remembers sessions.
MCAsks ==
    [k \in Kind |->
       CASE k = "single" -> [c \in Client |-> IF c = c1 THEN {Streamed, Direct} ELSE {}]
         [] k = "fallback" -> [c \in Client |-> IF c = c1 THEN {Streamed} ELSE {Plain}]
         [] k = "round-robin" -> [c \in Client |-> IF c = c1 THEN {Streamed} ELSE {}]
         [] OTHER -> [c \in Client |-> {Plain}]]

MCProviderOf == [m \in Model |-> p]

\* The errors that one behaviour may meet: some for each answer of the policy to
\* each detector.
MCErrors ==
    {{{"overload"}}, {{"limit", "capped"}}, {{"stream", "broken"}, {}},
     {{"transient"}, {"stream", "broken", "abort"}}}

MCErr == UNION MCErrors

MCInit ==
    /\ active \in Parts
    /\ Init /\ R!Init
    /\ errors \in MCErrors
    /\ active # "proxy" => kind = "single"
    /\ active # "plugin" => errors = {{"overload"}}

MCNext ==
    /\ UNCHANGED <<active, errors>>
    /\ \/ active = "proxy" /\ Next /\ UNCHANGED rvars
       \/ /\ active = "plugin" /\ R!Next /\ UNCHANGED vars
          /\ {sess'.err, tail'} \cup buffer' \subseteq errors \cup {None}

\* The timers of the plugin go off, and opencode answers for its status every
\* now and then.
MCSpec ==
    /\ MCInit /\ [][MCNext]_<<active, errors, vars, rvars>>
    /\ \A c \in Client : WF_vars(active = "proxy" /\ Progress(c))
    /\ \A m \in Model : WF_vars(active = "proxy" /\ CoolDown(m))
    /\ WF_rvars(active = "plugin" /\ \E q \in {p1, p2} : R!Ask(q))
    /\ SF_rvars(active = "plugin" /\ \E q \in {p1, p2} : R!Answered(q))
    /\ WF_rvars(active = "plugin" /\ R!RetryCooldownEnds)
=============================================================================
