------------------------------- MODULE Fleet --------------------------------
(***************************************************************************)
(* Launching, supervising, stopping and respawning ships.  A launch is a   *)
(* sequence of file operations with no lock around them: take a name, look *)
(* whether it runs (PID file and signal 0), fork the terminal, write its   *)
(* PID file and its first heartbeat.  The terminal writes the PID file     *)
(* once more, and when its shell exits it asks the stop marker whether     *)
(* that was meant.  Everything is keyed by the name of the ship.           *)
(***************************************************************************)
EXTENDS ShipNames

CONSTANTS
    Launcher,   \* launches under way at once
    Web,        \* those of them the web daemon makes
    Procs,      \* bound: terminals started in all
    Stopper,    \* stops under way at once
    None

ASSUME FleetAssumption ==
    /\ Web \subseteq Launcher
    /\ Procs \in Nat \ {0}
    /\ None \notin 1..Procs

VARIABLES
    pidFile,    \* process in the PID file of each name
    pipe,       \* names whose control pipe exists
    marker,     \* names with a stop marker
    sup,        \* the child of the supervisor at each control socket
    ship,       \* processes
    op,         \* launches
    stop,       \* stops
    doubled,    \* ghost: names started by a way that does not look, or while
                \* another launch of the same name was between look and record,
                \* or whose ship lost its PID file to a stop
    robbed      \* ghost: names with a stop under way whose marker an exit
                \* handler has taken before the ship was told, and nobody has
                \* set again

files == <<pidFile, pipe, marker>>
stops == <<stop, robbed>>
vars == <<registry, files, sup, ship, op, doubled, stops>>

Proc == 1..Procs

\* How a ship is launched: by the web daemon (LaunchShip, supervised),
\* detached by a command, by the autoscaler, by respawn, or by "run" in a
\* terminal of its own or in the foreground.
How == {"web", "command", "scale", "respawn", "run"}

\* What launcher l may do.
May(l) == IF l \in Web THEN {"web"} ELSE How \ {"web"}

NoShip == [at |-> "none", name |-> 0, web |-> FALSE]

NoOp == [at |-> "idle", how |-> "command", name |-> 0, proc |-> None]

NoStop == [at |-> "idle", name |-> 0, proc |-> None]

ShipState ==
    [at : {"none", "boot", "run", "fore", "told", "exit", "leave", "zombie", "dead"},
     name : 0..Pool, web : BOOLEAN]

OpState ==
    [at : {"idle", "checked", "forked"}, how : How,
     name : 0..Pool, proc : Proc \cup {None}]

StopState ==
    [at : {"idle", "marked", "open", "past", "drop"}, name : 0..Pool, proc : Proc \cup {None}]

Living == {p \in Proc : ship[p].at \notin {"none", "zombie", "dead"}}

\* Signal 0 also reaches a zombie.
Signalled(p) == p # None /\ ship[p].at \notin {"none", "dead"}

Crew(n) == {p \in Living : ship[p].name = n}

Writes(how) == IF how = "web" THEN "daemon" ELSE "terminal"

\* Names whose reservation was written by a process that still runs.
Busy ==
    {op[l].name : l \in {k \in Launcher : op[k].at # "idle"}}
        \cup {ship[p].name : p \in {q \in Proc : ship[q].at = "fore"}}

\* A process that is over is a zombie until its parent waits for it, which
\* the web daemon does only when it restarts the ship.
Over(p) == [ship EXCEPT ![p].at = IF ship[p].web THEN "zombie" ELSE "dead"]

Fresh(p) == ship[p].at = "none" /\ \A q \in 1..(p - 1) : ship[q].at # "none"

-----------------------------------------------------------------------------
\* isShipRunning: signal 0 to the process in the PID file.
Running(n) == Signalled(pidFile[n])

DropStalePid_Truncated(n) ==
    pidFile' = IF Running(n) THEN pidFile ELSE [pidFile EXCEPT ![n] = 0]

\* ... which removes the file of a process that is gone.
DropStalePid(n) ==
    pidFile' = IF Running(n) THEN pidFile ELSE [pidFile EXCEPT ![n] = None]

\* Another launch of n has looked already and has not recorded its ship, or
\* left a ship behind that is not recorded yet.
Overlaps(l, n) ==
    \/ \E k \in Launcher \ {l} : op[k].name = n /\ op[k].at \in {"checked", "forked"}
    \/ \E p \in Crew(n) : ship[p].at = "boot" /\ pidFile[n] # p

Begin(l, how, n) ==
    /\ op' = [op EXCEPT ![l] = [@ EXCEPT !.at = "checked", !.how = how, !.name = n]]
    /\ doubled' = IF Overlaps(l, n) THEN doubled \cup {n} ELSE doubled

CheckRunning_Blind(l, how, n) ==
    /\ Begin(l, how, n)
    /\ DropStalePid(n)

\* "run" does not look whether the name runs.
RunCmd(l, how, n) ==
    /\ how = "run"
    /\ Begin(l, how, n)
    /\ UNCHANGED pidFile

\* The others go on only if it does not.
CheckRunning(l, how, n) ==
    \/ RunCmd(l, how, n)
    \/ /\ how # "run" /\ ~Running(n)
       /\ Begin(l, how, n)
       /\ DropStalePid(n)

\* A launch that lets the registry choose its name.  If that runs, it gives
\* up: the autoscaler releases the name, the others keep it.
LaunchAny(l, how) ==
    /\ op[l] = NoOp
    /\ how \in May(l) \ {"respawn"}
    /\ \E n \in Name :
          /\ AssignName(n, Writes(how), Busy)
          /\ \/ /\ CheckRunning(l, how, n)
                /\ WriteReservation(n, Writes(how))
             \/ /\ how # "run" /\ Running(n)
                /\ IF how = "scale" THEN DoRelease(n) ELSE WriteReservation(n, Writes(how))
                /\ UNCHANGED <<op, doubled, pidFile>>
    /\ UNCHANGED <<beat, pipe, marker, sup, ship, stops>>

\* A launch that is given its name, which it reserves ("session run --name"
\* does not).
LaunchNamed(l, how, n) ==
    /\ op[l] = NoOp
    /\ how \in May(l) \cap {"web", "command", "run"}
    /\ Reserve(n, Writes(how)) \/ (how = "command" /\ UNCHANGED resv)
    /\ \/ CheckRunning(l, how, n)
       \/ how # "run" /\ Running(n) /\ UNCHANGED <<op, doubled, pidFile>>
    /\ UNCHANGED <<beat, pipe, marker, sup, ship, stops>>

\* respawn takes every ship for dead: it looks for heartbeats in files that
\* nobody writes.  Only the marker holds it back, and the check.
Respawn(l, n) ==
    /\ op[l] = NoOp
    /\ "respawn" \in May(l)
    /\ n \notin marker
    /\ CheckRunning(l, "respawn", n)
    /\ UNCHANGED <<registry, pipe, marker, sup, ship, stops>>

\* The model is not on offer, the listener or the fork fails: the launch ends
\* and keeps its reservation, except for the autoscaler.
LaunchFails(l) ==
    /\ op[l].at = "checked"
    /\ op' = [op EXCEPT ![l] = NoOp]
    /\ IF op[l].how = "scale" THEN DoRelease(op[l].name) ELSE UNCHANGED resv
    /\ UNCHANGED <<beat, files, sup, ship, doubled, stops>>

\* A terminal for n is started as process p.
StartChild(p, n, web) == ship' = [ship EXCEPT ![p] = [at |-> "boot", name |-> n, web |-> web]]

\* The terminal is forked; the web daemon supervises it from now on, except
\* in the API mode.
Fork(l) ==
    LET n == op[l].name IN
    /\ op[l].at = "checked"
    /\ \E p \in Proc :
          /\ Fresh(p)
          /\ StartChild(p, n, op[l].how = "web")
          /\ op' = [op EXCEPT ![l] = [@ EXCEPT !.at = "forked", !.proc = p]]
          /\ sup' = sup \/ (op[l].how = "web" /\ sup' = [sup EXCEPT ![n] = p])
    /\ doubled' = IF op[l].how = "run" THEN doubled \cup {n} ELSE doubled
    /\ beat' = IF op[l].how = "run" THEN [beat EXCEPT ![n] = "idle"] ELSE beat
    /\ UNCHANGED <<resv, files, stops>>

\* The parent writes the PID file and the first heartbeat, whatever has
\* become of the child.
Record(l) ==
    LET n == op[l].name IN
    /\ op[l].at = "forked"
    /\ pidFile' = [pidFile EXCEPT ![n] = op[l].proc]
    /\ DoStatus(n, "active")
    /\ op' = [op EXCEPT ![l] = NoOp]
    /\ UNCHANGED <<resv, pipe, marker, sup, ship, doubled, stops>>

\* "run --exec": the client is a child of the command, with no PID file.
RunForeground(l) ==
    LET n == op[l].name IN
    /\ op[l].at = "checked" /\ op[l].how = "run"
    /\ \E p \in Proc :
          /\ Fresh(p)
          /\ ship' = [ship EXCEPT ![p] = [at |-> "fore", name |-> n, web |-> FALSE]]
    /\ DoStatus(n, "idle")
    /\ op' = [op EXCEPT ![l] = NoOp]
    /\ doubled' = doubled \cup {n}
    /\ UNCHANGED <<resv, files, sup, stops>>

-----------------------------------------------------------------------------
\* The terminal is up: it writes its own PID and opens the pipe.
Boot(p) ==
    /\ ship[p].at = "boot"
    /\ ship' = [ship EXCEPT ![p].at = "run"]
    /\ pidFile' = [pidFile EXCEPT ![ship[p].name] = p]
    /\ pipe' = pipe \cup {ship[p].name}
    /\ UNCHANGED <<registry, marker, sup, op, doubled, stops>>

\* The ship at work posts heartbeats.
Report(p) ==
    /\ ship[p].at \in {"run", "fore"}
    /\ \E b \in {"active", "idle"} : DoStatus(ship[p].name, b)
    /\ UNCHANGED <<resv, files, sup, ship, op, doubled, stops>>

\* The shell exits unasked.
Quit(p) ==
    /\ ship[p].at = "run"
    /\ ship' = [ship EXCEPT ![p].at = "exit"]
    /\ UNCHANGED <<registry, files, sup, op, doubled, stops>>

\* OnExit: the marker tells a stop from a crash and is cleared.
OnExitRead(p) ==
    LET n == ship[p].name IN
    /\ ship[p].at \in {"told", "exit"}
    /\ ship' = [ship EXCEPT ![p].at = "leave"]
    /\ marker' = marker \ {n}
    /\ \/ n \in marker /\ DoStatus(n, "none") /\ DoRelease(n)
       \/ n \notin marker /\ DoStatus(n, "crashed") /\ UNCHANGED resv
    /\ robbed' = IF \E k \in Stopper : stop[k].name = n /\ stop[k].at \in {"marked", "open"}
                 THEN robbed \cup {n} ELSE robbed
    /\ UNCHANGED <<pidFile, pipe, sup, op, doubled, stop>>

\* ... and the pipe and the PID file go, whoever they belong to by now.
OnExitRemove(p) ==
    LET n == ship[p].name IN
    /\ ship[p].at = "leave"
    /\ ship' = Over(p)
    /\ pipe' = pipe \ {n}
    /\ pidFile' = [pidFile EXCEPT ![n] = None]
    /\ UNCHANGED <<registry, marker, sup, op, doubled, stops>>

\* The client in the foreground ends, well or badly.
ForegroundEnds(p) ==
    /\ ship[p].at = "fore"
    /\ ship' = Over(p)
    /\ \E b \in {"none", "crashed"} : DoStatus(ship[p].name, b)
    /\ DoRelease(ship[p].name)
    /\ UNCHANGED <<files, sup, op, doubled, stops>>

\* The process is killed: its exit handler does not run.
Kill(p) ==
    /\ ship[p].at \in {"boot", "run", "fore", "told", "exit", "leave"}
    /\ ship' = Over(p)
    /\ UNCHANGED <<registry, files, sup, op, doubled, stops>>

-----------------------------------------------------------------------------
(* StopShip.                                                               *)

\* Who listens at the pipe of n.
Listening(n) == {p \in Crew(n) : ship[p].at = "run"}

\* Stop k goes on to at.
StopGoes(k, at) == stop' = [stop EXCEPT ![k].at = at]

SetMarker_Never(k, n) ==
    /\ stop[k] = NoStop
    /\ stop' = [stop EXCEPT ![k] = [NoStop EXCEPT !.at = "marked", !.name = n]]
    /\ UNCHANGED <<registry, files, sup, ship, op, doubled, robbed>>

\* The marker comes first, whether or not there is anything to stop.
SetMarker(k, n) ==
    /\ stop[k] = NoStop
    /\ marker' = marker \cup {n}
    /\ robbed' = robbed \ {n}
    /\ stop' = [stop EXCEPT ![k] = [NoStop EXCEPT !.at = "marked", !.name = n]]
    /\ UNCHANGED <<registry, pidFile, pipe, sup, ship, op, doubled>>

\* Then the pipe is opened, whoever's it is by now, ...
OpenPipe(k) ==
    LET n == stop[k].name IN
    /\ stop[k].at = "marked"
    /\ IF n \in pipe /\ Listening(n) # {}
       THEN \E p \in Listening(n) :
               stop' = [stop EXCEPT ![k] = [@ EXCEPT !.at = "open", !.proc = p]]
       ELSE StopGoes(k, "past")
    /\ UNCHANGED <<registry, files, sup, ship, op, doubled, robbed>>

\* ... and the terminal that reads it is told, if it still does.
Tell(k) ==
    /\ stop[k].at = "open"
    /\ IF ship[stop[k].proc].at = "run"
       THEN ship' = [ship EXCEPT ![stop[k].proc].at = "told"] ELSE UNCHANGED ship
    /\ StopGoes(k, "past")
    /\ UNCHANGED <<registry, files, sup, op, doubled, robbed>>

\* A name that is not reserved and has no pipe is an error; a stale PID file
\* is dropped if the ship does not run.
LookAtPid(k) ==
    LET n == stop[k].name IN
    /\ stop[k].at = "past"
    /\ \/ n \notin pipe /\ resv[n] = "free"
          /\ stop' = [stop EXCEPT ![k] = NoStop] /\ UNCHANGED pidFile
       \/ /\ n \in pipe \/ resv[n] # "free"
          /\ stop' = [stop EXCEPT ![k] = IF Running(n) THEN NoStop ELSE [@ EXCEPT !.at = "drop"]]
          /\ DropStalePid(n)
    /\ UNCHANGED <<registry, pipe, marker, sup, ship, op, doubled, robbed>>

\* It goes once more, whoever has written it since.
DropPid(k) ==
    LET n == stop[k].name IN
    /\ stop[k].at = "drop"
    /\ pidFile' = [pidFile EXCEPT ![n] = None]
    /\ doubled' = IF Running(n) THEN doubled \cup {n} ELSE doubled
    /\ stop' = [stop EXCEPT ![k] = NoStop]
    /\ UNCHANGED <<registry, pipe, marker, sup, ship, op, robbed>>

\* The command, or the daemon, that stops is killed half-way.
CutOff(k) ==
    /\ stop[k].at # "idle"
    /\ stop' = [stop EXCEPT ![k] = NoStop]
    /\ UNCHANGED <<registry, files, sup, ship, op, doubled, robbed>>

\* RESTART at the control socket: the supervisor kills and waits for its own
\* child, and starts another without asking who else runs.  One restart at a
\* time: childMu.
RestartShip(l, n) ==
    LET old == sup[n] IN
    /\ op[l] = NoOp /\ l \in Web
    /\ old # None
    /\ ~\E k \in Launcher : op[k].at = "forked" /\ op[k].how = "web" /\ op[k].name = n
    /\ \E p \in Proc :
          /\ Fresh(p)
          /\ ship' = [ship EXCEPT ![old] = [@ EXCEPT !.at = "dead", !.web = FALSE],
                                  ![p] = [at |-> "boot", name |-> n, web |-> TRUE]]
          /\ sup' = [sup EXCEPT ![n] = p]
          /\ op' = [op EXCEPT ![l] = [at |-> "forked", how |-> "web", name |-> n, proc |-> p]]
    /\ doubled' = IF Crew(n) \ {old} # {} \/ Overlaps(l, n) THEN doubled \cup {n} ELSE doubled
    /\ UNCHANGED <<registry, files, stops>>

\* The daemon ends: init waits for its children, its launches are cut off and
\* nobody listens at the sockets.
WebExit ==
    /\ \E p \in Proc : ship[p].web
    /\ ship' = [p \in Proc |->
                  [ship[p] EXCEPT !.web = FALSE, !.at = IF @ = "zombie" THEN "dead" ELSE @]]
    /\ op' = [l \in Launcher |-> IF op[l].how = "web" THEN NoOp ELSE op[l]]
    /\ sup' = [n \in Name |-> None]
    /\ UNCHANGED <<registry, files, doubled, stops>>

GarbageCollect == DoGC /\ UNCHANGED <<beat, files, sup, ship, op, doubled, stops>>

Expire(n) == Age(n) /\ UNCHANGED <<files, sup, ship, op, doubled, stops>>

-----------------------------------------------------------------------------
Init ==
    /\ RegistryInit
    /\ pidFile = [n \in Name |-> None] /\ pipe = {} /\ marker = {}
    /\ sup = [n \in Name |-> None]
    /\ ship = [p \in Proc |-> NoShip]
    /\ op = [l \in Launcher |-> NoOp]
    /\ stop = [k \in Stopper |-> NoStop]
    /\ doubled = {} /\ robbed = {}

Next ==
    \/ \E l \in Launcher, how \in How : LaunchAny(l, how)
    \/ \E l \in Launcher, how \in How, n \in Name : LaunchNamed(l, how, n)
    \/ \E l \in Launcher, n \in Name : Respawn(l, n) \/ RestartShip(l, n)
    \/ \E l \in Launcher :
          LaunchFails(l) \/ Fork(l) \/ Record(l) \/ RunForeground(l)
    \/ \E p \in Proc :
          \/ Boot(p) \/ Report(p) \/ Quit(p) \/ OnExitRead(p) \/ OnExitRemove(p)
          \/ ForegroundEnds(p) \/ Kill(p)
    \/ \E k \in Stopper :
          \/ OpenPipe(k) \/ Tell(k) \/ LookAtPid(k) \/ DropPid(k) \/ CutOff(k)
          \/ \E n \in Name : SetMarker(k, n)
    \/ \E n \in Name : Expire(n)
    \/ WebExit \/ GarbageCollect

Spec == Init /\ [][Next]_vars

\* Launches and processes get on, and time passes.
Fairness ==
    /\ \A l \in Launcher :
          /\ WF_vars(Record(l))
          /\ WF_vars(Fork(l) \/ RunForeground(l) \/ LaunchFails(l))
    /\ \A p \in Proc : WF_vars(Boot(p)) /\ WF_vars(OnExitRead(p)) /\ WF_vars(OnExitRemove(p))
    /\ \A n \in Name : WF_vars(Expire(n))

FairSpec == Spec /\ Fairness

-----------------------------------------------------------------------------
TypeOK ==
    /\ RegistryTypeOK
    /\ pidFile \in [Name -> Proc \cup {None}]
    /\ pipe \subseteq Name /\ marker \subseteq Name
    /\ sup \in [Name -> Proc \cup {None}]
    /\ ship \in [Proc -> ShipState]
    /\ op \in [Launcher -> OpState]
    /\ stop \in [Stopper -> StopState]
    /\ doubled \subseteq Name /\ robbed \subseteq Name

\* Two processes run under one name only if one of them was started by a way
\* that does not look (run, or RESTART to a supervisor whose child is not the
\* ship any more), if two launches had looked before either was recorded, or
\* if a stop has removed the PID file of the first.
OneShipPerName ==
    \A n \in Name : n \notin doubled =>
        \A p, q \in Crew(n) : p = q

\* A ship that was stopped through its pipe is not reported as crashed when
\* it ends, unless two ships have shared its name and its marker, or a ship
\* of that name before it took the marker between the first two steps of a
\* stop.
StopIsHonoured ==
    [][\A p \in Proc :
         (ship[p].at = "told" /\ ship'[p].at = "leave"
             /\ ship[p].name \notin doubled \cup robbed)
           => beat'[ship[p].name] = "none"]_vars

\* The marker tells a stop from a crash: a ship that was stopped through its
\* pipe is not reported as crashed, whichever ship of its name ended before.
MarkerTellsStop ==
    [][\A p \in Proc :
         (ship[p].at = "told" /\ ship'[p].at = "leave" /\ ship[p].name \notin doubled)
           => beat'[ship[p].name] = "none"]_vars

\* The name of a ship that is no more can be assigned again in the end, or is
\* in use again; unless it was killed while its heartbeat said "idle", which
\* never gets old.
NamesComeFree ==
    \A n \in Name :
        (Crew(n) = {}) ~> (Free(n) \/ Crew(n) # {} \/ beat[n] = "idle")
=============================================================================
