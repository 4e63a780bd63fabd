------------------------------- MODULE MCFiles -------------------------------
(***************************************************************************)
(* The parts of Files one after the other: they share no state, and a      *)
(* behaviour is one of the active part.                                    *)
(***************************************************************************)
EXTENDS Files

CONSTANTS
    Parts,      \* the parts to be looked at
    c1, c2, m1, m2, n1, a, b, k1, k2, k3

VARIABLE active

\* A reminder for one ship and a poll for the fleet.
SomePlans == {[kind |-> "once", fleet |-> FALSE],
              [kind |-> "interval", fleet |-> TRUE]}

-----------------------------------------------------------------------------
Answers(x, y) == [m \in {m1, m2} |-> IF m = m1 THEN x ELSE y]

\* Loop checks by requests, and c1 without.  A provider with two models, with
\* one that gives up, and one that is down.
MCWorlds ==
    {[up |-> TRUE, listed |-> {m1, m2}, answer |-> Answers("fine", "busy")],
     [up |-> TRUE, listed |-> {m1}, answer |-> Answers("hard", "fine")],
     [up |-> FALSE, listed |-> {m1}, answer |-> Answers("toolless", "fine")]}

Job(verb, data) == [verb |-> verb, name |-> n1, data |-> data, ttl |-> 1]
Crew(P, Q) == [c \in {c1, c2} |-> IF c = c1 THEN P ELSE Q]

MCCrews ==
    {Crew({Job("put", a), Job("prune", a)}, {Job("put", b)}),
     Crew({Job("put", a), Job("upload", a)}, {Job("upload", b)}),
     Crew({Job("put", a)}, {Job("put", b), Job("remove", b)})}

Draft(subject, tags, body) == [subject |-> subject, tags |-> tags, body |-> body]

\* What the two new reports are; k3 is one of the older form.  Bodies that look
\* like headers, or begin or end with empty lines; a tag with a comma; a subject
\* of two lines.
MCDrafts ==
    {Draft(<<"text">>, <<"x,y">>, <<"header", "empty", "text", "empty">>),
     Draft(<<"text">>, <<"x", "y">>, <<"empty", "text">>),
     Draft(<<"text">>, <<>>, <<>>),
     Draft(<<"text", "header">>, <<"x">>, <<"text">>)}

Word(x, comment) == [kind |-> "scalar", value |-> x, comment |-> comment]
List1(x, comment) == [kind |-> "list", value |-> {x}, comment |-> comment]
Within(x, comment) == [kind |-> "map", value |-> [s \in {k1} |-> x], comment |-> comment]
Doc(x, y) == [k \in {k1, k2} |-> IF k = k1 THEN x ELSE y]

\* Texts that change a value, its kind, or what is within it.
MCTexts ==
    {Doc(Word(b, None), None), Doc(List1(b, None), Within(Word(b, None), None)),
     Doc(Within(None, None), Word(b, n1))}

MCYamls ==
    {Doc(Word(a, n1), None), Doc(List1(a, n1), Within(Word(a, n1), n1)),
     Doc(Within(Word(a, None), None), List1(a, None))}

\* The parts that are not active stay in one of their initial states.
MCInit ==
    /\ active \in Parts
    /\ Init /\ H!Init /\ F!Init /\ R!Init /\ Y!Init
    /\ active # "health" => world = CHOOSE w \in Worlds : TRUE
    /\ active # "store" => left = CHOOSE c \in Crews : TRUE
    /\ active # "settings" => yaml = CHOOSE y \in Yamls : TRUE

MCNext ==
    /\ UNCHANGED active
    /\ \/ active = "timers" /\ Next /\ UNCHANGED <<hvars, fvars, rvars, yvars>>
       \/ active = "health" /\ H!Next /\ UNCHANGED <<vars, fvars, rvars, yvars>>
       \/ active = "store" /\ F!Next /\ UNCHANGED <<vars, hvars, rvars, yvars>>
       \/ active = "reports" /\ R!Next /\ UNCHANGED <<vars, hvars, fvars, yvars>>
       \/ active = "settings" /\ Y!Next /\ UNCHANGED <<vars, hvars, fvars, rvars>>

\* The fairness of the worker and of the proxy's health check.
MCSpec ==
    /\ MCInit /\ [][MCNext]_<<active, vars, hvars, fvars, rvars, yvars>>
    /\ WF_vars(active = "timers" /\ Step(Worker))
    /\ WF_vars(active = "timers" /\ At(Worker, "wait") /\ Poll(Worker))
    /\ WF_hvars(active = "health" /\ H!Tick)
    /\ WF_hvars(active = "health" /\ H!Outdate)
    /\ \A x \in H!Actor : WF_hvars(active = "health" /\ H!Step(x))

-----------------------------------------------------------------------------
\* RunHealthBackground: the verdicts come to be true (see ModelHealth).
FileCatchesUp == active = "health" => H!FileCatchesUp
=============================================================================
