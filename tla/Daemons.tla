------------------------------- MODULE Daemons -------------------------------
(***************************************************************************)
(* The life of a daemon of the workspace: the web server, the model proxy  *)
(* or the timer worker.  Commands, cron and the web server itself start,   *)
(* stop and restart it, with a PID file that nothing locks.  Web server    *)
(* and proxy are alone on their port; the worker relies on the PID file.   *)
(***************************************************************************)
EXTENDS FiniteSets

CONSTANTS
    Pid,
    Caller,     \* whoever runs commands
    Cron,       \* those of them that call autostart every minute
    Crews,      \* bound: the kind of the daemon and the commands of each caller
    None

Kind == {"web", "proxy", "worker"}

\* "api" is a restart asked of the web server, which runs it itself.
Op == {"start", "autostart", "stop", "restart", "notify", "api"}

DaemonsAssumption ==
    /\ Cron \subseteq Caller
    /\ None \notin Pid \cup Caller /\ Pid \cap Caller = {}
    /\ Crews \subseteq [kind : Kind, ops : [Caller -> SUBSET Op]]

VARIABLES
    crew,
    proc,       \* what has become of each process
    port,       \* where it listens, or wants to: "ours" by --addr, "bare"
                \* there as well, but without --addr, or "other";
                \* "ours" if there is no process
    sig,        \* the signal pending in the worker's channel, which holds one
    file,       \* content of the PID file
    job         \* the command each caller, or the web server, runs

vars == <<crew, proc, port, sig, file, job>>

Runner == Caller \cup Pid

\* There is "none" before it is started and after it has ended by itself; it
\* is "dead" when it was killed.  A worker owns the file before it writes it,
\* and is deaf until it asks for signals.  A "foreign" process answers for a
\* daemon that is gone: another program that got its number, or the zombie
\* the web server keeps of a worker it has started.
ProcState == {"none", "boot", "own", "deaf", "serving", "hung", "closing", "foreign", "dead"}

Alive(x) == x # None /\ proc[x] \notin {"none", "dead"}

\* A process that is a starfleetctl by its command line.
Daemon(x) == Alive(x) /\ proc[x] # "foreign"

\* Who listens, or would, where the configuration says.
Ours(x) == port[x] # "other"

Job ==
    [op : Op \cup {None}, child : Pid \cup {None},
     at : {"idle", "clean", "probe", "stale", "unlink", "fork", "record",
           "kill", "remove", "scan", "wait", "over"}]

Idle == [op |-> None, child |-> None, at |-> "idle"]

Is(k) == crew.kind = k

Starts(c, op) == /\ job[c].at = "idle"
                 /\ IF op = "api"
                    THEN /\ Is("web") /\ c \in Pid /\ proc[c] = "serving"
                         /\ \E d \in Caller : "api" \in crew.ops[d]
                    ELSE c \in Caller /\ op \in crew.ops[c]

Go(c, at) == job' = [job EXCEPT ![c].at = at]

\* The death of processes takes the commands they run with them.
Killed(X, jobs) == [c \in Runner |-> IF c \in X THEN Idle ELSE jobs[c]]

Dies(X) ==
    /\ proc' = [x \in Pid |-> IF x \in X /\ Daemon(x) THEN "dead" ELSE proc[x]]
    /\ port' = [x \in Pid |-> IF x \in X /\ Daemon(x) THEN "ours" ELSE port[x]]

-----------------------------------------------------------------------------
(* Probes. *)

\* Who listens on the port it should: a TCP connection reaches a hung proxy,
\* an HTTP request no hung server.  The worker's is the life of the PID.
IsRunning ==
    CASE Is("web")    -> \E x \in Pid : proc[x] = "serving" /\ Ours(x)
      [] Is("proxy")  -> \E x \in Pid : proc[x] \in {"serving", "hung"}
      [] Is("worker") -> Alive(file)

\* A number for a new process.  A foreign one that no PID file names is no
\* concern of anybody; a daemon never gets the number in the file.
Fresh == {x \in Pid : /\ proc[x] \in {"none", "dead", "foreign"} /\ x # file
                      /\ \A c \in Runner : x # job[c].child}

\* Of the processes that are there none is told from another.
Pick(x) == x = CHOOSE y \in Fresh : TRUE

-----------------------------------------------------------------------------
(* Autostart. *)

Autostart(c) ==
    /\ Starts(c, "autostart")
    /\ job' = [job EXCEPT ![c] = [Idle EXCEPT !.op = "autostart",
                                              !.at = IF Is("web") THEN "clean" ELSE "probe"]]
    /\ UNCHANGED <<crew, proc, port, sig, file>>

\* cleanupWrongPortProcesses kills the web servers of this workspace that
\* listen, or would, somewhere else.
CleanPorts(c) ==
    LET X == {x \in Pid : Daemon(x) /\ port[x] = "other"} IN
    /\ job[c].at = "clean"
    /\ Dies(X)
    /\ job' = Killed(X, [job EXCEPT ![c].at = "probe"])
    /\ UNCHANGED <<crew, sig, file>>

Probe_ByFile(c) ==
    /\ job[c].at = "probe"
    /\ job' = IF file # None THEN [job EXCEPT ![c] = Idle]
              ELSE [job EXCEPT ![c].at = IF Is("worker") THEN "fork" ELSE "stale"]
    /\ UNCHANGED <<crew, proc, port, sig, file>>

Probe(c) ==
    /\ job[c].at = "probe"
    /\ job' = IF IsRunning THEN [job EXCEPT ![c] = Idle]
              ELSE [job EXCEPT ![c].at = IF Is("worker") THEN "fork" ELSE "stale"]
    /\ UNCHANGED <<crew, proc, port, sig, file>>

\* A PID file is stale if its process is dead; it goes by name, whoever has
\* written it by then.
LookAtFile(c) ==
    /\ job[c].at = "stale"
    /\ Go(c, IF file # None /\ ~Alive(file) THEN "unlink" ELSE "fork")
    /\ UNCHANGED <<crew, proc, port, sig, file>>

Unlink(c) ==
    /\ job[c].at = "unlink"
    /\ file' = None
    /\ Go(c, "fork")
    /\ UNCHANGED <<crew, proc, port, sig>>

Fork(c) ==
    /\ job[c].at = "fork"
    /\ \E x \in Fresh :
          /\ Pick(x)
          /\ proc' = [proc EXCEPT ![x] = "boot"]
          /\ port' = [port EXCEPT ![x] = "ours"]
          /\ job' = [job EXCEPT ![c] = IF Is("worker") THEN Idle
                                       ELSE [@ EXCEPT !.at = "record", !.child = x]]
    /\ UNCHANGED <<crew, sig, file>>

\* The parent writes the child's PID; the probe half a second later changes
\* nothing.
Record(c) ==
    /\ job[c].at = "record"
    /\ file' = job[c].child
    /\ job' = [job EXCEPT ![c] = Idle]
    /\ UNCHANGED <<crew, proc, port, sig>>

\* "start" in the foreground, the web server perhaps with --addr.
StartForeground(c) ==
    /\ Starts(c, "start")
    /\ \E x \in Fresh, p \in {"ours", "bare", "other"} :
          /\ Pick(x)
          /\ p # "ours" => Is("web")
          /\ proc' = [proc EXCEPT ![x] = "boot"]
          /\ port' = [port EXCEPT ![x] = p]
    /\ UNCHANGED <<crew, sig, file, job>>

-----------------------------------------------------------------------------
(* The daemons themselves. *)

\* Who finds the port taken gives up.
Bind(x) ==
    /\ proc[x] = "boot" /\ ~Is("worker")
    /\ IF \E y \in Pid : proc[y] \in {"serving", "hung"} /\ Ours(y) = Ours(x)
       THEN /\ proc' = [proc EXCEPT ![x] = "none"]
            /\ port' = [port EXCEPT ![x] = "ours"]
       ELSE /\ proc' = [proc EXCEPT ![x] = "serving"]
            /\ UNCHANGED port
    /\ UNCHANGED <<crew, sig, file, job>>

\* RunWorker: ensurePIDFile looks, writePIDFile writes, with no lock.
EnsurePIDFile(x) ==
    /\ proc[x] = "boot" /\ Is("worker")
    /\ IF Alive(file)
       THEN proc' = [proc EXCEPT ![x] = "none"] /\ UNCHANGED file
       ELSE proc' = [proc EXCEPT ![x] = "own"] /\ file' = None
    /\ UNCHANGED <<crew, port, sig, job>>

WritePIDFile(x) ==
    /\ proc[x] = "own"
    /\ file' = x
    /\ proc' = [proc EXCEPT ![x] = "deaf"]
    /\ UNCHANGED <<crew, port, sig, job>>

NotifyMe(x) ==
    /\ proc[x] = "deaf"
    /\ proc' = [proc EXCEPT ![x] = "serving"]
    /\ UNCHANGED <<crew, port, sig, file, job>>

\* SIGHUP looks for due timers; SIGTERM ends the loop.
TakeSignal(x) ==
    /\ proc[x] = "serving" /\ sig[x] # None
    /\ sig' = [sig EXCEPT ![x] = None]
    /\ proc' = [proc EXCEPT ![x] = IF sig[x] = "term" THEN "closing" ELSE @]
    /\ UNCHANGED <<crew, port, file, job>>

Close_Truncates(x) ==
    /\ proc[x] = "closing"
    /\ proc' = [proc EXCEPT ![x] = "dead"]
    /\ file' = "empty"
    /\ UNCHANGED <<crew, port, sig, job>>

\* The file goes, whosever it is.
Close(x) ==
    /\ proc[x] = "closing"
    /\ proc' = [proc EXCEPT ![x] = "none"]
    /\ file' = None
    /\ UNCHANGED <<crew, port, sig, job>>

Hang(x) ==
    /\ proc[x] = "serving" /\ ~Is("worker")
    /\ proc' = [proc EXCEPT ![x] = "hung"]
    /\ UNCHANGED <<crew, port, sig, file, job>>

\* The number of a dead daemon in the PID file answers again.
Reuse(x) ==
    /\ x = file /\ proc[x] \in {"none", "dead"}
    /\ proc' = [proc EXCEPT ![x] = "foreign"]
    /\ UNCHANGED <<crew, port, sig, file, job>>

Crash(x) ==
    /\ Alive(x)
    /\ proc' = [proc EXCEPT ![x] = "dead"]
    /\ port' = [port EXCEPT ![x] = "ours"]
    /\ sig' = [sig EXCEPT ![x] = None]
    /\ job' = Killed({x}, job)
    /\ UNCHANGED <<crew, file>>

-----------------------------------------------------------------------------
(* Stop and Restart. *)

StopStarts(c, op) ==
    /\ op \in {"stop", "restart", "api"} /\ Starts(c, op)
    /\ job' = [job EXCEPT ![c] = [op |-> op, child |-> None, at |-> "kill"]]
    /\ UNCHANGED <<crew, proc, port, sig, file>>

\* Where a stop of the web server or of the worker leaves its command.
AfterStop(c) ==
    CASE job[c].op = "stop" -> Idle
      [] OTHER -> [job[c] EXCEPT !.at = IF Is("web") THEN "scan" ELSE "wait"]

\* The PID in the file is killed if it is a starfleetctl; the web server's
\* Stop gives up without a file, which its Restart ignores.
Kill(c) ==
    /\ job[c].at = "kill" /\ ~Is("worker")
    /\ IF file = None
       THEN /\ job' = [job EXCEPT ![c] = IF Is("web") THEN AfterStop(c)
                                         ELSE [@ EXCEPT !.at = "remove"]]
            /\ UNCHANGED <<proc, port>>
       ELSE /\ Dies({file})
            /\ job' = Killed({file}, [job EXCEPT ![c].at = "remove"])
    /\ UNCHANGED <<crew, sig, file>>

RemoveFile(c) ==
    /\ job[c].at = "remove"
    /\ file' = None
    /\ job' = [job EXCEPT ![c] = IF Is("web") THEN AfterStop(c) ELSE [@ EXCEPT !.at = "scan"]]
    /\ UNCHANGED <<crew, proc, port, sig>>

\* All of this workspace, the web servers by --addr and its port: the proxy's
\* Stop looks for them always, the web server's Restart if somebody still
\* answers.
Doomed ==
    {x \in Pid : Daemon(x) /\ port[x] = "ours" /\ (Is("proxy") \/ IsRunning)}

Scan(c) ==
    /\ job[c].at = "scan"
    /\ Dies(Doomed)
    /\ job' = Killed(Doomed, [job EXCEPT ![c].at = "over"])
    /\ UNCHANGED <<crew, sig, file>>

Over(c) ==
    /\ job[c].at = "over"
    /\ job' = [job EXCEPT ![c] =
                  IF job[c].op = "stop" THEN Idle
                  ELSE [Idle EXCEPT !.op = job[c].op,
                                    !.at = IF Is("web") THEN "clean" ELSE "probe"]]
    /\ UNCHANGED <<crew, proc, port, sig, file>>

\* SIGTERM and SIGHUP go to whoever has the number, and nobody asks who that
\* is: a deaf process dies of them, a foreign one may, and a second signal
\* finds the channel full.
Signal(s) ==
    \/ /\ proc[file] \in {"boot", "own", "deaf", "foreign"}
       /\ proc' = [proc EXCEPT ![file] = "dead"]
       /\ UNCHANGED sig
    \/ /\ proc[file] \notin {"boot", "own", "deaf"} /\ UNCHANGED proc
       /\ sig' = [sig EXCEPT ![file] = IF @ = None /\ proc[file] = "serving" THEN s ELSE @]

\* StopWorker; without a live process in the file it is an error, and a
\* restart then goes on to start.
StopWorker(c) ==
    /\ job[c].at = "kill" /\ Is("worker")
    /\ IF Alive(file) THEN Signal("term") ELSE UNCHANGED <<proc, sig>>
    /\ job' = [job EXCEPT ![c] = AfterStop(c)]
    /\ UNCHANGED <<crew, port, file>>

\* Ten looks in a second at whether it has gone; StartWorker refuses if not.
AwaitExit(c) ==
    /\ job[c].at = "wait"
    /\ job' = [job EXCEPT ![c] = [Idle EXCEPT !.op = job[c].op, !.at = "probe"]]
    /\ UNCHANGED <<crew, proc, port, sig, file>>

\* NotifyWorker, after every change of a timer.
NotifyWorker(c) ==
    /\ Starts(c, "notify") /\ Is("worker")
    /\ Alive(file)
    /\ Signal("hup")
    /\ UNCHANGED <<crew, port, file, job>>

-----------------------------------------------------------------------------
Init ==
    /\ crew \in Crews
    /\ proc = [x \in Pid |-> "none"]
    /\ port = [x \in Pid |-> "ours"]
    /\ sig = [x \in Pid |-> None]
    /\ file = None
    /\ job = [c \in Runner |-> Idle]

Command(c) ==
    \/ CleanPorts(c) \/ Probe(c) \/ LookAtFile(c) \/ Unlink(c) \/ Fork(c) \/ Record(c)
    \/ Kill(c) \/ RemoveFile(c) \/ Scan(c) \/ Over(c) \/ StopWorker(c) \/ AwaitExit(c)

Process(x) ==
    \/ Bind(x) \/ EnsurePIDFile(x) \/ WritePIDFile(x) \/ NotifyMe(x)
    \/ TakeSignal(x) \/ Close(x)

Disturb ==
    \/ \E x \in Pid : Hang(x) \/ Crash(x) \/ Reuse(x)
    \/ \E c \in Runner, op \in Op : StopStarts(c, op)
    \/ \E c \in Caller : NotifyWorker(c) \/ StartForeground(c)

Next ==
    \/ \E c \in Caller : Autostart(c)
    \/ \E c \in Runner : Command(c)
    \/ \E x \in Pid : Process(x)
    \/ Disturb

Spec == Init /\ [][Next]_vars

\* Commands and daemons go on, cron calls autostart every minute, and nobody
\* kills, stops or hangs the daemon, or takes its number, for ever.
Calm ==
    /\ \A c \in Cron : WF_vars(Autostart(c))
    /\ \A c \in Runner : WF_vars(Command(c))
    /\ \A x \in Pid : WF_vars(Process(x))
    /\ <>[][~Disturb]_vars

CalmSpec == Spec /\ Calm

-----------------------------------------------------------------------------
TypeOK ==
    /\ crew \in Crews
    /\ proc \in [Pid -> ProcState]
    /\ port \in [Pid -> {"ours", "bare", "other"}]
    /\ sig \in [Pid -> {"hup", "term", None}]
    /\ file \in Pid \cup {None}
    /\ job \in [Runner -> Job]

\* However the daemon was killed or stopped, and whichever dead process the
\* PID file names, cron brings it back; unless one hangs on its port, or, for
\* the worker, the number in its PID file answers for somebody else.
ServesAgain ==
    []<>(\/ \E x \in Pid : proc[x] = "serving" /\ Ours(x)
         \/ \E x \in Pid : proc[x] = "hung" /\ Ours(x)
         \/ Is("worker") /\ file # None /\ proc[file] = "foreign")

\* A web server that hangs fails the probe, and autostart replaces it.
HungIsReplaced ==
    \A x \in Pid : (Is("web") /\ proc[x] = "hung") ~> proc[x] # "hung"

\* A restart that is asked of the web server does not end with nobody there:
\* a new process takes over.
RestartComesBack ==
    [][\A x \in Pid :
          (job[x].op = "api" /\ (Kill(x) \/ Scan(x)) /\ job'[x].op # "api") =>
              \E y \in Pid \ {x} : proc'[y] \notin {"none", "dead"}]_vars
=============================================================================
