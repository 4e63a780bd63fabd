-------------------------------- MODULE Bridge --------------------------------
(***************************************************************************)
(* The bridge daemon: it runs commands of the bus and of the dashboard in  *)
(* its own process for whoever connects to its socket, each under the name *)
(* that its request brings along, by way of the one environment that the   *)
(* process has.  Nothing but a probe keeps two daemons apart.              *)
(***************************************************************************)
EXTENDS FiniteSets

CONSTANTS
    Server,     \* processes that run "bridged run"
    Request,    \* bound: connections there will ever be
    Ship,       \* names a request may bring along
    NoName      \* no name: that of the daemon itself

BridgeAssumption == NoName \notin Ship \cup Server \cup Request

VARIABLES
    srv,        \* what each server does
    sock,       \* whose socket the path leads to; it may be dead
    env,        \* STARFLEET_SHIP_ID in each server
    execMu,     \* the request that may run a command in it
    req

bridgeVars == <<srv, sock, env, execMu, req>>

Name == Ship \cup {NoName}

\* name: what the request asks for; saved: the environment before it; as:
\* the name its command has acted under.
Req ==
    [at : {"none", "queued", "running", "ran", "done", "lost"},
     to : Server \cup {NoName}, name : Name, saved : Name, as : Name]

Unused == [at |-> "none", to |-> NoName, name |-> NoName, saved |-> NoName, as |-> NoName]

Live(p) == p # NoName /\ srv[p] = "listening"

\* What is under way in a process ends with it.
Lost(p) == [r \in Request |-> IF req[r].to = p /\ req[r].at # "done"
                              THEN [req[r] EXCEPT !.at = "lost"] ELSE req[r]]

-----------------------------------------------------------------------------
(* ListenAndServe. *)

\* checkNotAlreadyRunning connects to the socket.
Start(p) ==
    /\ srv[p] = "none"
    /\ srv' = [srv EXCEPT ![p] = IF Live(sock) THEN "dead" ELSE "probed"]
    /\ UNCHANGED <<sock, env, execMu, req>>

\* A stale socket is removed, and so is one that is new since the probe.
RemoveStale(p) ==
    /\ srv[p] = "probed"
    /\ sock' = NoName
    /\ srv' = [srv EXCEPT ![p] = "removed"]
    /\ UNCHANGED <<env, execMu, req>>

Listen(p) ==
    /\ srv[p] = "removed"
    /\ IF sock = NoName
       THEN sock' = p /\ srv' = [srv EXCEPT ![p] = "listening"]
       ELSE srv' = [srv EXCEPT ![p] = "dead"] /\ UNCHANGED sock
    /\ UNCHANGED <<env, execMu, req>>

\* A signal: closing the listener removes the path, whoever listens there.
Shutdown(p) ==
    /\ srv[p] = "listening"
    /\ sock' = NoName
    /\ srv' = [srv EXCEPT ![p] = "closing"]
    /\ UNCHANGED <<env, execMu, req>>

\* The process ends with Accept, before or after the path is removed again.
Exit(p) ==
    /\ srv[p] = "closing"
    /\ sock' \in {sock, NoName}
    /\ srv' = [srv EXCEPT ![p] = "dead"]
    /\ req' = Lost(p)
    /\ UNCHANGED <<env, execMu>>

Killed(p) ==
    /\ srv[p] \notin {"none", "dead"}
    /\ srv' = [srv EXCEPT ![p] = "dead"]
    /\ req' = Lost(p)
    /\ UNCHANGED <<sock, env, execMu>>

-----------------------------------------------------------------------------
(* handleConn, one goroutine for each connection. *)

\* A client has connected and its request has been read.  It may give up
\* after thirty seconds; its command runs nevertheless.
Connect(r, n) ==
    /\ req[r].at = "none" /\ Live(sock)
    /\ req' = [req EXCEPT ![r] = [Unused EXCEPT !.at = "queued", !.to = sock, !.name = n]]
    /\ UNCHANGED <<srv, sock, env, execMu>>

Mutex_None(p) == TRUE

Mutex(p) == execMu[p] = NoName

\* A subcommand that is not allowed is answered without it.
Refuse(r) ==
    /\ req[r].at = "queued"
    /\ req' = [req EXCEPT ![r].at = "done", ![r].as = req[r].name]
    /\ UNCHANGED <<srv, sock, env, execMu>>

\* runCaptured takes execMu and applyEnvOverrides sets the name.
Override(r) ==
    LET p == req[r].to IN
    /\ req[r].at = "queued"
    /\ Mutex(p)
    /\ execMu' = [execMu EXCEPT ![p] = r]
    /\ env' = [env EXCEPT ![p] = IF req[r].name = NoName THEN @ ELSE req[r].name]
    /\ req' = [req EXCEPT ![r].at = "running", ![r].saved = env[p]]
    /\ UNCHANGED <<srv, sock>>

\* The command reads the environment.
RunCommand(r) ==
    /\ req[r].at = "running"
    /\ req' = [req EXCEPT ![r].at = "ran", ![r].as = env[req[r].to]]
    /\ UNCHANGED <<srv, sock, env, execMu>>

Restore(r) ==
    LET p == req[r].to IN
    /\ req[r].at = "ran"
    /\ env' = [env EXCEPT ![p] = IF req[r].name = NoName THEN @ ELSE req[r].saved]
    /\ execMu' = [execMu EXCEPT ![p] = NoName]
    /\ req' = [req EXCEPT ![r].at = "done"]
    /\ UNCHANGED <<srv, sock>>

-----------------------------------------------------------------------------
BridgeInit ==
    /\ srv = [p \in Server |-> "none"]
    /\ sock = NoName
    /\ env = [p \in Server |-> NoName]
    /\ execMu = [p \in Server |-> NoName]
    /\ req = [r \in Request |-> Unused]

BridgeNext ==
    \/ \E p \in Server : \/ Start(p) \/ RemoveStale(p) \/ Listen(p)
                         \/ Shutdown(p) \/ Exit(p) \/ Killed(p)
    \/ \E r \in Request : \/ Refuse(r) \/ Override(r) \/ RunCommand(r) \/ Restore(r)
                          \/ \E n \in Name : Connect(r, n)

BridgeSpec == BridgeInit /\ [][BridgeNext]_bridgeVars

-----------------------------------------------------------------------------
BridgeTypeOK ==
    /\ srv \in [Server -> {"none", "probed", "removed", "listening", "closing", "dead"}]
    /\ sock \in Server \cup {NoName}
    /\ env \in [Server -> Name]
    /\ execMu \in [Server -> Request \cup {NoName}]
    /\ req \in [Request -> Req]

\* A command acts under the name its request brings along, or under the
\* daemon's own if it brings none, whatever else runs in the process.
IdentityIsOwn ==
    \A r \in Request : req[r].at \in {"ran", "done"} => req[r].as = req[r].name
=============================================================================
