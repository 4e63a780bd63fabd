-------------------------------- MODULE Task --------------------------------
(***************************************************************************)
(* The tasks of the fleet: one topic file each under the dashboard, which  *)
(* the commands of ships, console, web server and sweep load, change in    *)
(* memory and write back without a lock; only the commits are made under   *)
(* the lock of the clone (Flock), so a commit is one step here.  A topic   *)
(* is its status and its assignee; title, log and tags are left out.       *)
(***************************************************************************)
EXTENDS FiniteSets

CONSTANTS
    Slug,       \* topics, by their path below dashboard/topics
    Base,       \* of each slug: the slug without its category
    Ship,
    Actor,      \* whoever runs commands: a ship, or somebody without its name
    Crews,      \* bound: the commands each actor runs, and on which topics; a
                \* run has one of these crews
    None

Status == {"open", "assigned", "in-progress", "done", "interrupted"}

Topic == [status : Status, who : Ship \cup {None}]

Op == {"capture", "assign", "unassign", "status", "begin", "log", "done",
       "rm", "purge", "sweep", "move"}

ASSUME TaskAssumption ==
    /\ None \notin Ship
    /\ Crews \subseteq [Actor -> SUBSET (Op \X Slug)]

VARIABLES
    crew,
    topic,      \* the file of each slug; "torn" between truncation and writing
    head,       \* what the last commit has of it
    board,      \* heartbeat of each ship
    job,        \* the command each actor runs
    lapsed      \* ghost: slugs whose last commit failed, whose writer died before
                \* it, or which a move took out of git though they were there

vars == <<crew, topic, head, board, job, lapsed>>

Absent == [status |-> "absent", who |-> None]
Torn == [status |-> "torn", who |-> None]
File == Topic \cup {Absent, Torn}

Heartbeat == {"none", "idle", "working", "stale"}

\* at: where the command is; t: its topic; u: where a move takes it; m: the
\* topic it will write; todo: topics still ahead of it; did: topics it has
\* changed and has still to commit.
Job ==
    [op : Op \cup {None}, at : {"idle", "new", "load", "write", "close", "next", "commit", "report"},
     t : Slug \cup {None}, u : Slug \cup {None}, m : Topic \cup {None},
     todo : SUBSET Slug, did : SUBSET Slug]

Idle == [op |-> None, at |-> "idle", t |-> None, u |-> None, m |-> None,
         todo |-> {}, did |-> {}]

Parses_IfThere(t) == topic[t] # Absent

\* parseTopicFile finds the headers: a torn file is no task.
Parses(t) == topic[t] \in Topic

Starts(a, op, t) == job[a].at = "idle" /\ <<op, t>> \in crew[a]

-----------------------------------------------------------------------------
(* Commands that load one topic, change it in memory and write it back. *)

\* What each command makes of the topic m it has loaded.
Assigned == {[status |-> "assigned", who |-> s] : s \in Ship}

Unassigned == {[status |-> "open", who |-> None]}

StatusSet(m) == {[m EXCEPT !.status = st] : st \in Status}

\* Only a ship can begin, by STARFLEET_SHIP_ID, and no task of another's.
Begun(a, m) ==
    IF a \in Ship /\ m.who \in {None, a}
    THEN {[status |-> "in-progress", who |-> a]} ELSE {}

\* A line of the log: the rest of the topic is written as it was loaded.
Logged(m) == {m}

DoneWith(m) == {[m EXCEPT !.status = "done"]}

Changed(op, a, m) ==
    CASE op = "assign"   -> Assigned
      [] op = "unassign" -> Unassigned
      [] op = "status"   -> StatusSet(m)
      [] op = "begin"    -> Begun(a, m)
      [] op = "log"      -> Logged(m)
      [] op = "done"     -> DoneWith(m)

Load(a, op, t) ==
    /\ Starts(a, op, t) /\ op \in {"assign", "unassign", "status", "begin", "log", "done"}
    /\ Parses(t)
    /\ \E m \in Changed(op, a, topic[t]) :
          job' = [job EXCEPT ![a] = [Idle EXCEPT !.op = op, !.at = "write", !.t = t, !.m = m]]
    /\ UNCHANGED <<crew, topic, head, board, lapsed>>

\* The topic that is written: a move writes the new one first.
Target(a) == IF job[a].op = "move" THEN job[a].u ELSE job[a].t

\* DoTopicWrite and writeTopicFile: os.WriteFile truncates the file, or
\* creates it, ...
Truncate(a) ==
    /\ job[a].at = "write"
    /\ topic' = [topic EXCEPT ![Target(a)] = Torn]
    /\ job' = [job EXCEPT ![a].at = "close", ![a].did = @ \cup {Target(a)}]
    /\ UNCHANGED <<crew, head, board, lapsed>>

Stage(op) == IF op = "sweep" THEN "next" ELSE "commit"

\* ... and writes it.
Write(a) ==
    /\ job[a].at = "close" /\ job[a].op # "move"
    /\ topic' = [topic EXCEPT ![job[a].t] = job[a].m]
    /\ job' = [job EXCEPT ![a].at = Stage(job[a].op),
                          ![a].m = None]
    /\ UNCHANGED <<crew, head, board, lapsed>>

-----------------------------------------------------------------------------
(* capture, rm and move. *)

\* DoTopicNew looks whether the file is there; two captures can both pass.
Capture(a, t) ==
    /\ Starts(a, "capture", t)
    /\ topic[t] = Absent
    /\ job' = [job EXCEPT ![a] = [Idle EXCEPT !.op = "capture", !.at = "new", !.t = t]]
    /\ UNCHANGED <<crew, topic, head, board, lapsed>>

\* The task that buildTopicFile makes of the arguments.
Captured == Assigned \cup Unassigned

\* It writes a scaffold; the task itself follows, assigned or not.
Scaffold(a) ==
    /\ job[a].at = "new"
    /\ topic' = [topic EXCEPT ![job[a].t] = [status |-> "open", who |-> None]]
    /\ \E m \in Captured :
          job' = [job EXCEPT ![a].at = "write", ![a].m = m, ![a].did = @ \cup {job[a].t}]
    /\ UNCHANGED <<crew, head, board, lapsed>>

\* runRm: a topic that is on disk, torn or not, or in the index.
Remove(a, t) ==
    /\ Starts(a, "rm", t)
    /\ topic[t] # Absent \/ head[t] # Absent
    /\ topic' = [topic EXCEPT ![t] = Absent]
    /\ job' = [job EXCEPT ![a] = [Idle EXCEPT !.op = "rm", !.at = "commit", !.t = t,
                                              !.did = {t}]]
    /\ UNCHANGED <<crew, head, board, lapsed>>

\* The web console edits a topic and takes it to another category.  Whatever
\* is there already is overwritten.
Move(a, t, u) ==
    /\ Starts(a, "move", t)
    /\ t # u /\ Base[t] = Base[u]
    /\ Parses(t)
    /\ job' = [job EXCEPT ![a] = [Idle EXCEPT !.op = "move", !.at = "write", !.t = t,
                                              !.u = u, !.m = topic[t]]]
    /\ UNCHANGED <<crew, topic, head, board, lapsed>>

\* DoTopicMove writes the new file and removes the old one; it fails if that
\* has gone, and leaves the new one uncommitted.
MoveWrite(a) ==
    LET t == job[a].t  u == job[a].u IN
    /\ job[a].at = "close" /\ job[a].op = "move"
    /\ topic' = [topic EXCEPT ![u] = job[a].m, ![t] = Absent]
    /\ \/ /\ topic[t] # Absent
          /\ job' = [job EXCEPT ![a].at = "commit", ![a].did = @ \cup {t}]
          /\ UNCHANGED lapsed
       \/ /\ topic[t] = Absent
          /\ job' = [job EXCEPT ![a] = Idle]
          /\ lapsed' = lapsed \cup job[a].did
    /\ UNCHANGED <<crew, head, board>>

-----------------------------------------------------------------------------
(* Commands over all topics. *)

Purge(a) ==
    LET todo == {t \in Slug : Parses(t) /\ topic[t].status = "done"} IN
    /\ \E t \in Slug : Starts(a, "purge", t)
    /\ todo # {}
    /\ job' = [job EXCEPT ![a] = [Idle EXCEPT !.op = "purge", !.at = "next", !.todo = todo]]
    /\ UNCHANGED <<crew, topic, head, board, lapsed>>

\* What was done when the purge listed it, whatever it is by now.
PurgeOne(a, t) ==
    /\ job[a].at = "next" /\ job[a].op = "purge" /\ t \in job[a].todo
    /\ topic' = [topic EXCEPT ![t] = Absent]
    /\ job' = [job EXCEPT ![a].todo = @ \ {t}, ![a].did = @ \cup {t}]
    /\ UNCHANGED <<crew, head, board, lapsed>>

\* comms IsStale: an expired heartbeat that does not say idle.
Stale(s) == board[s] = "stale"

Swept_NotBegun(t) == Parses(t) /\ topic[t].status = "assigned" /\ topic[t].who # None

Swept(t) ==
    /\ Parses(t)
    /\ topic[t].status \in {"assigned", "in-progress"}
    /\ topic[t].who # None

\* runSweepStale reads the board, then the topics; the two are one step.
Sweep(a) ==
    LET todo == {t \in Slug : Swept(t) /\ Stale(topic[t].who)} IN
    /\ \E t \in Slug : Starts(a, "sweep", t)
    /\ todo # {}
    /\ job' = [job EXCEPT ![a] = [Idle EXCEPT !.op = "sweep", !.at = "next", !.todo = todo]]
    /\ UNCHANGED <<crew, topic, head, board, lapsed>>

\* Each is loaded anew and interrupted, whatever its status and its assignee
\* have become; one that cannot be read is passed over.
SweepOne(a, t) ==
    /\ job[a].at = "next" /\ job[a].op = "sweep" /\ t \in job[a].todo
    /\ IF Parses(t)
       THEN job' = [job EXCEPT ![a].todo = @ \ {t}, ![a].at = "write", ![a].t = t,
                               ![a].m = [topic[t] EXCEPT !.status = "interrupted"]]
       ELSE job' = [job EXCEPT ![a].todo = @ \ {t}]
    /\ UNCHANGED <<crew, topic, head, board, lapsed>>

\* The list is through; a sweep that has interrupted nothing ends here.
ListEnds(a) ==
    /\ job[a].at = "next" /\ job[a].todo = {}
    /\ job' = [job EXCEPT ![a] = IF job[a].did = {} THEN Idle ELSE [@ EXCEPT !.at = "commit"]]
    /\ UNCHANGED <<crew, topic, head, board, lapsed>>

-----------------------------------------------------------------------------
(* Commits. *)

Scope_Written(a) == {t \in job[a].did : topic[t] # Absent}

\* DoTopicCommit and DoTopicCommitMove are for their own topics, which they
\* stage as they are on disk by now; DoTopicCommitAll stages them all.
Scope(a) == IF job[a].op \in {"purge", "sweep"} THEN Slug ELSE job[a].did

\* What is left to do once the topic is committed: a ship reports its work.
\* The directive that follows an assignment is a post of CommsBus.
After(a) ==
    IF job[a].op \in {"begin", "log", "done"} /\ a \in Ship
    THEN [Idle EXCEPT !.op = job[a].op, !.at = "report"] ELSE Idle

\* git add fails on a path that is neither on disk nor in the index: the new
\* one of a move, if somebody has removed it.
CanCommit(a) == job[a].op = "move" => topic[job[a].u] # Absent \/ head[job[a].u] # Absent

\* git rm --cached: the old path of a move is removed, whether or not somebody
\* has written it again.
Unlisted(a) == {t \in Slug : job[a].op = "move" /\ t = job[a].t}

Commit(a) ==
    /\ job[a].at = "commit"
    /\ CanCommit(a)
    /\ head' = [t \in Slug |-> CASE t \in Unlisted(a) -> Absent
                              [] t \in Scope(a) \ Unlisted(a) -> topic[t]
                              [] OTHER -> head[t]]
    /\ job' = [job EXCEPT ![a] = After(a)]
    /\ lapsed' = (lapsed \ Scope(a)) \cup {t \in Unlisted(a) : topic[t] # Absent}
    /\ UNCHANGED <<crew, topic, board>>

\* The lock of the clone does not come free in time, or git fails.  Only
\* capture gives up; the others report the failure and go on.
CommitFails(a) ==
    /\ job[a].at = "commit"
    /\ job' = [job EXCEPT ![a] = IF job[a].op = "capture" THEN Idle ELSE After(a)]
    /\ lapsed' = lapsed \cup job[a].did
    /\ UNCHANGED <<crew, topic, head, board>>

\* begin and progress report the ship as working, done as idle; log stands for
\* progress and for log, which does not report.
Report(a) ==
    /\ job[a].at = "report"
    /\ \/ board' = [board EXCEPT ![a] = IF job[a].op = "done" THEN "idle" ELSE "working"]
       \/ job[a].op = "log" /\ UNCHANGED board
    /\ job' = [job EXCEPT ![a] = Idle]
    /\ UNCHANGED <<crew, topic, head, lapsed>>

\* The process dies.
Die(a) ==
    /\ job[a].at # "idle"
    /\ job' = [job EXCEPT ![a] = Idle]
    /\ lapsed' = lapsed \cup job[a].did
    /\ UNCHANGED <<crew, topic, head, board>>

\* A heartbeat of a working ship expires.
Expire(s) ==
    /\ board[s] = "working"
    /\ board' = [board EXCEPT ![s] = "stale"]
    /\ UNCHANGED <<crew, topic, head, job, lapsed>>

-----------------------------------------------------------------------------
Init ==
    /\ crew \in Crews
    /\ topic = [t \in Slug |-> Absent]
    /\ head = topic
    /\ board = [s \in Ship |-> "none"]
    /\ job = [a \in Actor |-> Idle]
    /\ lapsed = {}

Works(a) ==
    \/ Sweep(a) \/ Truncate(a) \/ Write(a) \/ ListEnds(a)
    \/ Commit(a) \/ CommitFails(a)
    \/ \E t \in Slug : SweepOne(a, t)

Next ==
    \/ \E a \in Actor :
          \/ Works(a) \/ Purge(a) \/ Scaffold(a) \/ MoveWrite(a) \/ Report(a) \/ Die(a)
          \/ \E t \in Slug :
                \/ Capture(a, t) \/ Remove(a, t) \/ PurgeOne(a, t)
                \/ \E op \in Op : Load(a, op, t)
                \/ \E u \in Slug : Move(a, t, u)
    \/ \E s \in Ship : Expire(s)

Spec == Init /\ [][Next]_vars

\* The worker runs the sweep again and again: it is one of its system timers.
\* It is started again when it dies, and does not die for ever.
Sweeper == {a \in Actor : \A c \in Crews : \E t \in Slug : c[a] = {<<"sweep", t>>}}

Fairness == \A a \in Sweeper : WF_vars(Works(a)) /\ <>[][~Die(a)]_vars

FairSpec == Spec /\ Fairness

-----------------------------------------------------------------------------
TypeOK ==
    /\ crew \in Crews
    /\ topic \in [Slug -> File]
    /\ head \in [Slug -> File]
    /\ board \in [Ship -> Heartbeat]
    /\ job \in [Actor -> Job]
    /\ lapsed \subseteq Slug
    /\ \A a \in Actor : job[a].at \in {"write", "close"} => job[a].m \in Topic

\* No change of a topic is left uncommitted: whatever differs from the last
\* commit is still to be committed by a command under way, or by one whose
\* commit failed or that died before it; unless the commit of a move has
\* taken its old path out of git when another command had written it again.
NothingUncommitted ==
    \A t \in Slug :
        topic[t] # head[t] => t \in lapsed \/ \E a \in Actor : t \in job[a].did

\* The work of a ship that has gone is not held for ever: a task does not stay
\* assigned to a ship whose heartbeat has expired.
StuckIsInterrupted ==
    \A t \in Slug, s \in Ship :
        ~<>[](Stale(s) /\ topic[t].who = s /\ topic[t].status \in {"assigned", "in-progress"})
=============================================================================
