----------------------------- MODULE MCWorkspace -----------------------------
(***************************************************************************)
(* The parts of Workspace one after the other: they share no state, and a  *)
(* behaviour is one of the active part.                                    *)
(***************************************************************************)
EXTENDS Workspace

CONSTANTS
    Parts,      \* the parts to be looked at
    s1, ui, wk, t1, t2, f1, f2

VARIABLE active

-----------------------------------------------------------------------------
\* What the ship and the web server do; the worker sweeps.
Crew(P, U) == [x \in Actor |-> CASE x = s1 -> P [] x = ui -> U [] x = wk -> {<<"sweep", t1>>}]

MCCrews ==
    {Crew({<<"begin", t1>>, <<"log", t1>>}, {<<"capture", t1>>, <<"assign", t1>>}),
     Crew({<<"begin", t1>>}, {<<"capture", t1>>, <<"rm", t1>>}),
     Crew({<<"done", t1>>}, {<<"capture", t1>>, <<"purge", t1>>, <<"status", t1>>}),
     Crew({<<"unassign", t1>>}, {<<"capture", t1>>, <<"status", t1>>}),
     Crew({<<"capture", t2>>, <<"rm", t2>>, <<"unassign", t1>>}, {<<"capture", t1>>, <<"move", t1>>})}

MCBase == [t \in Slug |-> "x"]

\* What the ship and the console do with the instructions.
MCSopCrews ==
    {[x \in SopActor |-> IF x = s1 THEN c[1] ELSE c[2]] : c \in {
        <<{<<"write", f1>>}, {<<"write", f2>>}>>,
        <<{<<"write", f1>>, <<"misname", f1>>}, {<<"update", f1>>}>>,
        <<{<<"misname", f1>>}, {<<"misname", f2>>}>>,
        <<{<<"update", f1>>, <<"remove", f1>>}, {<<"update", f1>>, <<"create", f2>>}>>,
        <<{<<"new", f1>>, <<"reindex", f1>>}, {<<"adopt", f1>>, <<"create", f1>>, <<"remove", f2>>}>>,
        <<{<<"ws", f1>>, <<"all", f1>>}, {<<"update", f1>>, <<"remove", f1>>}>>}}

Gone == {"absent"}

BootFile == {"project", "settings", "index", "fragments", "skills", "plugins", "package",
             "opencode", "oscripts", "cscripts", "hooks", "ignore", "web", "gitignore"}

Fresh == [f \in BootFile |-> Gone]

Furnished ==
    [f \in BootFile |->
        CASE f \in {"project", "package", "web"} -> {"user"}
          [] f = "settings" -> {"array", "allow", "confirm", "hook", "user"}
          [] f = "index" -> {"full"}
          [] f = "opencode" -> {"plugin", "schema", "index", "rules", "ask", "user"}
          [] f \in {"ignore", "gitignore"} -> {"entries", "user"}
          [] OTHER -> {"current", "user"}]

\* What else single files may hold.
Oddities ==
    [project |-> {Gone, {"torn", "user"}},
     settings |-> {{"torn"}, {"array", "confirm", "user"}, {"array", "other", "user"},
                   {"array", "allow", "confirm", "user"}},
     opencode |-> {{"torn", "user"}, {"user", "odd", "legacy"}, {"user", "scalar", "plugin"}},
     index |-> {Gone}, fragments |-> {{"old", "user"}, {"misnamed"}},
     plugins |-> {{"old", "user"}}, ignore |-> {{"user"}}, gitignore |-> {{"user"}}]

\* A new or a furnished workspace, with one file out of the ordinary.
MCFinds ==
    {Fresh, Furnished} \cup
    UNION {{[d EXCEPT ![f] = x] : d \in {Fresh, Furnished}, x \in Oddities[f]} : f \in DOMAIN Oddities}

\* The parts that are not active stay in one of their initial states.
MCInit ==
    /\ active \in Parts
    /\ Init /\ S!Init /\ B!Init
    /\ active # "tasks" => crew = CHOOSE c \in Crews : TRUE
    /\ active # "sops" => sopCrew = (CHOOSE c \in SopCrews : TRUE) /\ ~S!There(f1) /\ ~S!There(f2)
    /\ active # "bootstrap" => disk = Fresh

MCNext ==
    /\ UNCHANGED active
    /\ \/ active = "tasks" /\ Next /\ UNCHANGED <<svars, bvars>>
       \/ active = "sops" /\ S!Next /\ UNCHANGED <<vars, bvars>>
       \/ active = "bootstrap" /\ B!Next /\ UNCHANGED <<vars, svars>>

\* The fairness of the sweep, where the tasks are active.
MCSpec ==
    /\ MCInit /\ [][MCNext]_<<active, vars, svars, bvars>>
    /\ \A a \in Sweeper : /\ WF_vars(active = "tasks" /\ Works(a))
                          /\ <>[][~Die(a)]_vars
=============================================================================
