----------------------------- MODULE MCProcesses -----------------------------
(***************************************************************************)
(* The parts of Processes one at a time: they share no state, and a        *)
(* behaviour is one of the active part.                                    *)
(***************************************************************************)
EXTENDS Processes

CONSTANTS
    Parts,      \* the parts to be looked at
    Clicks      \* is the web server's own button for a restart used?

VARIABLE active

Do(k, S) == [kind |-> k, ops |-> [c \in Caller |-> IF c \in Cron THEN {"autostart"} ELSE S]]

MCCrews ==
    {Do("web", {"restart"}), Do("web", {"start", "stop"}),
     Do("proxy", {"restart"}), Do("proxy", {"start", "stop"}),
     Do("worker", {"start", "restart"}), Do("worker", {"stop", "notify"})}

\* The button for a restart, and the web server by itself.
ClickCrews == {Do("web", {"autostart", "api"})}

CronCrews == {Do("web", {"autostart"})}

\* The part that is not active stays in one of its initial states.
MCInit ==
    /\ active \in Parts
    /\ Init /\ D!Init
    /\ active # "daemons" => crew = (CHOOSE c \in Crews : TRUE) /\ \A x \in Pid : port[x] = "ours"

\* Beside a stop, ships are launched by commands only.
Plain == \A l \in Launcher : op'[l] \notin {op[l], NoOp} => op'[l].how = "command"

MCNext ==
    /\ UNCHANGED active
    /\ \/ active = "ships" /\ Next /\ UNCHANGED <<stops, dvars>>
       \/ active = "stops" /\ Next /\ Plain /\ UNCHANGED dvars
       \/ active = "daemons" /\ D!Next /\ UNCHANGED vars

\* Ships are at work, with or without somebody who stops them.
Sails == active \in {"ships", "stops"}

\* The fairness of the active part.  Only one of the steps of a launch, or of
\* a process, can be taken at a time, so that they are fair together.  The
\* web server runs commands only by its button.
MCSpec ==
    /\ MCInit /\ [][MCNext]_<<active, vars, dvars>>
    /\ \A l \in Launcher :
          WF_vars(Sails /\ (Record(l) \/ Fork(l) \/ RunForeground(l) \/ LaunchFails(l)))
    /\ \A p \in Proc :
          WF_vars(Sails /\ (Boot(p) \/ OnExitRead(p) \/ OnExitRemove(p)))
    /\ \A n \in Name : WF_vars(Sails /\ Expire(n))
    /\ \A c \in Cron : WF_dvars(active = "daemons" /\ D!Autostart(c))
    /\ \A c \in Caller \cup (IF Clicks THEN Pid ELSE {}) : WF_dvars(active = "daemons" /\ D!Command(c))
    /\ \A x \in Pid : WF_dvars(active = "daemons" /\ D!Process(x))
    /\ <>[][active # "daemons" \/ ~D!Disturb]_dvars

-----------------------------------------------------------------------------
\* autostart: cron brings the daemon back (see Daemons).
ServesAgain == active = "daemons" => D!ServesAgain
=============================================================================
