-------------------------- MODULE WorkspaceProofs --------------------------
(***************************************************************************)
(* Proofs about the parts of Workspace, for any topics, fragments, actors  *)
(* and sets of commands.                                                   *)
(***************************************************************************)
EXTENDS Workspace, Integers, Sequences, TLAPS

(***************************************************************************)
(* Tasks.                                                                  *)
(***************************************************************************)

\* What a command has in hand at each of its stages: a topic, and where a
\* move takes it.
InHand ==
    \A a \in Actor :
        /\ job[a].at \in {"new", "write", "close"} => job[a].t \in Slug
        /\ job[a].at \in {"write", "close"} /\ job[a].op = "move" => job[a].u \in Slug
        /\ job[a].at = "new" => job[a].op = "capture"
        /\ job[a].at \in {"new", "write", "close", "next", "commit"} => job[a].op \in Op

\* A command that has written a file has it on its list until it has seen to
\* its commit; before it starts and when it reports there is nothing on it.
Remembered ==
    \A a \in Actor :
        /\ job[a].at \in {"idle", "report"} => job[a].did = {}
        /\ job[a].at = "close" => Target(a) \in job[a].did

\* NothingUncommitted alone does not say that the file a command is about to
\* write is on its list.
TaskInv == TypeOK /\ InHand /\ Remembered /\ NothingUncommitted

LEMMA IdleJob ==
    /\ Idle \in Job
    /\ Idle.at = "idle" /\ Idle.did = {}
BY DEF Idle, Job

LEMMA TaskInit == Init => TaskInv
<1> SUFFICES ASSUME Init PROVE TaskInv
  OBVIOUS
<1>1. TypeOK
  BY IdleJob DEF Init, TypeOK, File, Absent, Heartbeat, Idle
<1>2. InHand /\ Remembered /\ NothingUncommitted
  BY DEF Init, InHand, Remembered, NothingUncommitted, Idle
<1>3. QED
  BY <1>1, <1>2 DEF TaskInv

\* Steps of one actor that keep the files as they are.
LEMMA JobStep ==
    ASSUME TaskInv, NEW a \in Actor, NEW j \in Job,
           job' = [job EXCEPT ![a] = j],
           UNCHANGED <<crew, topic, head>>,
           lapsed' = lapsed \/ lapsed' = lapsed \cup job[a].did,
           board' \in [Ship -> Heartbeat],
           j.at \in {"new", "write"} => j.t \in Slug,
           j.at = "new" => j.op = "capture",
           j.at = "write" /\ j.op = "move" => j.u \in Slug,
           j.at = "write" => j.m \in Topic,
           j.at \in {"new", "write", "next", "commit"} => j.op \in Op,
           j.at # "close",
           j.at \in {"idle", "report"} => j.did = {},
           job[a].did \subseteq j.did \cup lapsed'
    PROVE  TaskInv'
<1>1. job'[a] = j /\ \A b \in Actor \ {a} : job'[b] = job[b]
  BY DEF TaskInv, TypeOK
<1>2. TypeOK'
  <2>1. job' \in [Actor -> Job] /\ lapsed' \subseteq Slug
    BY DEF TaskInv, TypeOK, Job
  <2>2. \A b \in Actor : job'[b].at \in {"write", "close"} => job'[b].m \in Topic
    BY <1>1 DEF TaskInv, TypeOK
  <2>3. QED
    BY <2>1, <2>2 DEF TaskInv, TypeOK
<1>3. InHand'
  BY <1>1 DEF TaskInv, InHand
<1>4. Remembered'
  <2>1. \A b \in Actor \ {a} : Target(b)' = Target(b)
    BY <1>1 DEF Target
  <2>2. QED
    BY <1>1, <2>1 DEF TaskInv, Remembered
<1>5. NothingUncommitted'
  <2>1. SUFFICES ASSUME NEW t \in Slug, topic[t] # head[t], t \notin lapsed'
                 PROVE  \E b \in Actor : t \in job'[b].did
    BY DEF NothingUncommitted
  <2>2. PICK b \in Actor : t \in job[b].did
    BY <2>1 DEF TaskInv, NothingUncommitted
  <2>3. QED
    BY <1>1, <2>1, <2>2
<1>6. QED
  BY <1>2, <1>3, <1>4, <1>5 DEF TaskInv
\* What begins from nothing.
LEMMA Starters ==
    ASSUME TaskInv, NEW a \in Actor,
           \/ Purge(a) \/ Sweep(a)
           \/ \E t \in Slug :
                 \/ Capture(a, t)
                 \/ \E op \in Op : Load(a, op, t)
                 \/ \E u \in Slug : Move(a, t, u)
    PROVE  TaskInv'
<1>0. job[a].at = "idle" => job[a].did = {}
  BY DEF TaskInv, Remembered
<1>1. ASSUME NEW t \in Slug, NEW op \in Op, Load(a, op, t) PROVE TaskInv'
  <2>1. PICK m \in Changed(op, a, topic[t]) :
          job' = [job EXCEPT ![a] = [Idle EXCEPT !.op = op, !.at = "write", !.t = t, !.m = m]]
    BY <1>1 DEF Load
  <2>2. /\ op \in {"assign", "unassign", "status", "begin", "log", "done"}
        /\ topic[t] \in Topic /\ job[a].at = "idle"
        /\ UNCHANGED <<crew, topic, head, board, lapsed>>
    BY <1>1 DEF Load, Parses, Starts
  <2>3. m \in Topic
    BY <2>1, <2>2 DEF Changed, Assigned, Unassigned, StatusSet, Begun, Logged, DoneWith, Topic, Status
  <2>4. board \in [Ship -> Heartbeat]
    BY DEF TaskInv, TypeOK
  <2> DEFINE j == [Idle EXCEPT !.op = op, !.at = "write", !.t = t, !.m = m]
  <2>5. j \in Job /\ j.at = "write" /\ j.t = t /\ j.op = op /\ j.m = m
    BY <2>2, <2>3 DEF Idle, Job, Op
  <2> HIDE DEF j
  <2>6. job' = [job EXCEPT ![a] = j]
    BY <2>1 DEF j
  <2>7. QED
    BY <1>0, <2>2, <2>3, <2>4, <2>5, <2>6, JobStep
<1>2. ASSUME NEW t \in Slug, Capture(a, t) PROVE TaskInv'
  <2>1. /\ job' = [job EXCEPT ![a] = [Idle EXCEPT !.op = "capture", !.at = "new", !.t = t]]
        /\ job[a].at = "idle" /\ board \in [Ship -> Heartbeat]
        /\ UNCHANGED <<crew, topic, head, board, lapsed>>
    BY <1>2 DEF Capture, Starts, TaskInv, TypeOK
  <2> DEFINE j == [Idle EXCEPT !.op = "capture", !.at = "new", !.t = t]
  <2>2. j \in Job /\ j.at = "new" /\ j.t = t /\ j.op = "capture" /\ "capture" \in Op
    BY DEF Idle, Job, Op
  <2> HIDE DEF j
  <2>3. job' = [job EXCEPT ![a] = j]
    BY <2>1 DEF j
  <2>4. QED
    BY <1>0, <2>1, <2>2, <2>3, JobStep
<1>3. ASSUME NEW t \in Slug, NEW u \in Slug, Move(a, t, u) PROVE TaskInv'
  <2>1. /\ job' = [job EXCEPT ![a] = [Idle EXCEPT !.op = "move", !.at = "write", !.t = t,
                                                  !.u = u, !.m = topic[t]]]
        /\ topic[t] \in Topic /\ job[a].at = "idle" /\ board \in [Ship -> Heartbeat]
        /\ UNCHANGED <<crew, topic, head, board, lapsed>>
    BY <1>3 DEF Move, Parses, Starts, TaskInv, TypeOK
  <2> DEFINE j == [Idle EXCEPT !.op = "move", !.at = "write", !.t = t, !.u = u, !.m = topic[t]]
  <2>2. /\ j \in Job /\ j.at = "write" /\ j.t = t /\ j.u = u /\ j.m = topic[t]
        /\ j.op = "move" /\ "move" \in Op
    BY <2>1 DEF Idle, Job, Op
  <2> HIDE DEF j
  <2>3. job' = [job EXCEPT ![a] = j]
    BY <2>1 DEF j
  <2>4. QED
    BY <1>0, <2>1, <2>2, <2>3, JobStep
<1>4. CASE Purge(a) \/ Sweep(a)
  <2>1. PICK o \in {"purge", "sweep"}, todo \in SUBSET Slug :
          job' = [job EXCEPT ![a] = [Idle EXCEPT !.op = o, !.at = "next", !.todo = todo]]
    BY <1>4 DEF Purge, Sweep
  <2>2. /\ job[a].at = "idle" /\ board \in [Ship -> Heartbeat]
        /\ UNCHANGED <<crew, topic, head, board, lapsed>>
    BY <1>4 DEF Purge, Sweep, Starts, TaskInv, TypeOK
  <2> DEFINE j == [Idle EXCEPT !.op = o, !.at = "next", !.todo = todo]
  <2>3. j \in Job /\ j.at = "next" /\ j.op = o /\ o \in Op
    BY DEF Idle, Job, Op
  <2> HIDE DEF j
  <2>4. job' = [job EXCEPT ![a] = j]
    BY <2>1 DEF j
  <2>5. QED
    BY <1>0, <2>2, <2>3, <2>4, JobStep
<1>5. QED
  BY <1>1, <1>2, <1>3, <1>4

LEMMA AfterType ==
    ASSUME TaskInv, NEW a \in Actor
    PROVE  /\ After(a) \in Job /\ After(a).at \in {"idle", "report"} /\ After(a).did = {}
<1>1. job[a].op \in Op \cup {None}
  BY DEF TaskInv, TypeOK, Job
<1>2. QED
  BY <1>1, IdleJob DEF After, Idle, Job

\* The lists of a sweep, what fails and what ends.
LEMMA Others ==
    ASSUME TaskInv, NEW a \in Actor,
           \/ ListEnds(a) \/ CommitFails(a) \/ Report(a) \/ Die(a)
           \/ \E t \in Slug : SweepOne(a, t)
    PROVE  TaskInv'
<1>0. job[a] \in Job /\ board \in [Ship -> Heartbeat] /\ topic \in [Slug -> File]
  BY DEF TaskInv, TypeOK
<1>1. ASSUME NEW t \in Slug, SweepOne(a, t) PROVE TaskInv'
  <2>1. /\ job[a].at = "next" /\ job[a].op = "sweep"
        /\ UNCHANGED <<crew, topic, head, board, lapsed>>
    BY <1>1 DEF SweepOne
  <2>2. CASE Parses(t)
    <3> DEFINE j == [job[a] EXCEPT !.todo = @ \ {t}, !.at = "write", !.t = t,
                                   !.m = [topic[t] EXCEPT !.status = "interrupted"]]
    <3>1. [topic[t] EXCEPT !.status = "interrupted"] \in Topic
      BY <2>2 DEF Parses, Topic, Status
    <3>2. /\ j \in Job /\ j.at = "write" /\ j.t = t /\ j.m \in Topic
          /\ j.op = "sweep" /\ j.did = job[a].did
      BY <1>0, <2>1, <3>1 DEF Job
    <3>3. job' = [job EXCEPT ![a] = j]
      BY <1>1, <2>2 DEF SweepOne, TaskInv, TypeOK
    <3>4. "sweep" \in Op
      BY DEF Op
    <3> HIDE DEF j
    <3>5. QED
      BY <1>0, <2>1, <3>2, <3>3, <3>4, JobStep
  <2>3. CASE ~Parses(t)
    <3> DEFINE j == [job[a] EXCEPT !.todo = @ \ {t}]
    <3>1. j \in Job /\ j.at = "next" /\ j.op = "sweep" /\ j.did = job[a].did /\ "sweep" \in Op
      BY <1>0, <2>1 DEF Job, Op
    <3>2. job' = [job EXCEPT ![a] = j]
      BY <1>1, <2>3 DEF SweepOne, TaskInv, TypeOK
    <3> HIDE DEF j
    <3>3. QED
      BY <1>0, <2>1, <3>1, <3>2, JobStep
  <2>4. QED
    BY <2>2, <2>3
<1>2. CASE ListEnds(a)
  <2> DEFINE j == IF job[a].did = {} THEN Idle ELSE [job[a] EXCEPT !.at = "commit"]
  <2>1. job[a].op \in Op
    BY <1>2 DEF ListEnds, TaskInv, InHand
  <2>2. /\ j \in Job /\ j.at \in {"idle", "commit"} /\ j.did = job[a].did
        /\ j.at = "commit" => j.op \in Op
        /\ j.at = "idle" => j.did = {}
    BY <1>0, <2>1, IdleJob DEF Job
  <2>3. job' = [job EXCEPT ![a] = j] /\ UNCHANGED <<crew, topic, head, board, lapsed>>
    BY <1>2 DEF ListEnds, TaskInv, TypeOK
  <2> HIDE DEF j
  <2>4. QED
    BY <1>0, <2>2, <2>3, JobStep
<1>3. CASE CommitFails(a)
  <2>1. PICK j \in {Idle, After(a)} : job' = [job EXCEPT ![a] = j]
    BY <1>3 DEF CommitFails
  <2>2. j \in Job /\ j.at \in {"idle", "report"} /\ j.did = {}
    BY IdleJob, AfterType
  <2>3. lapsed' = lapsed \cup job[a].did /\ UNCHANGED <<crew, topic, head, board>>
    BY <1>3 DEF CommitFails
  <2>4. QED
    BY <1>0, <2>1, <2>2, <2>3, JobStep
<1>4. CASE Report(a)
  <2>1. job' = [job EXCEPT ![a] = Idle] /\ UNCHANGED <<crew, topic, head, lapsed>> /\ job[a].did = {}
    BY <1>4 DEF Report, TaskInv, Remembered
  <2>2. board' \in [Ship -> Heartbeat]
    BY <1>0, <1>4 DEF Report, Heartbeat
  <2>3. QED
    BY <2>1, <2>2, IdleJob, JobStep
<1>5. CASE Die(a)
  <2>1. /\ job' = [job EXCEPT ![a] = Idle] /\ UNCHANGED <<crew, topic, head, board>>
        /\ lapsed' = lapsed \cup job[a].did
    BY <1>5 DEF Die
  <2>2. QED
    BY <1>0, <2>1, IdleJob, JobStep
<1>6. QED
  BY <1>1, <1>2, <1>3, <1>4, <1>5

\* What a command that has changed a file has in hand.
GoesOn(j) ==
    /\ j.at \in {"write", "close"} => j.t \in Slug /\ j.m \in Topic
    /\ j.at \in {"write", "close"} /\ j.op = "move" => j.u \in Slug
    /\ j.at = "close" => (IF j.op = "move" THEN j.u ELSE j.t) \in j.did
    /\ j.at \notin {"new", "report"}
    /\ j.at = "idle" => j.did = {}
    /\ j.at # "idle" => j.op \in Op

\* Steps of one actor that change the files of topics on its list.
LEMMA FileStep ==
    ASSUME TaskInv, NEW a \in Actor, NEW j \in Job, NEW T \in SUBSET Slug,
           job' = [job EXCEPT ![a] = j],
           topic' \in [Slug -> File],
           \A t \in Slug \ T : topic'[t] = topic[t],
           UNCHANGED <<crew, head, board>>,
           lapsed' \in SUBSET Slug, lapsed \subseteq lapsed',
           T \cup job[a].did \subseteq j.did \cup lapsed',
           GoesOn(j)
    PROVE  TaskInv'
<1>1. job'[a] = j /\ \A b \in Actor \ {a} : job'[b] = job[b]
  BY DEF TaskInv, TypeOK
<1>2. TypeOK'
  <2>1. job' \in [Actor -> Job]
    BY DEF TaskInv, TypeOK
  <2>2. \A b \in Actor : job'[b].at \in {"write", "close"} => job'[b].m \in Topic
    BY <1>1 DEF TaskInv, TypeOK, GoesOn
  <2>3. QED
    BY <2>1, <2>2 DEF TaskInv, TypeOK
<1>3. InHand'
  BY <1>1 DEF TaskInv, InHand, GoesOn
<1>4. Remembered'
  <2>1. \A b \in Actor \ {a} : Target(b)' = Target(b)
    BY <1>1 DEF Target
  <2>2. Target(a)' = IF j.op = "move" THEN j.u ELSE j.t
    BY <1>1 DEF Target
  <2>3. QED
    BY <1>1, <2>1, <2>2 DEF TaskInv, Remembered, GoesOn
<1>5. NothingUncommitted'
  <2>1. SUFFICES ASSUME NEW t \in Slug, topic'[t] # head[t], t \notin lapsed'
                 PROVE  \E b \in Actor : t \in job'[b].did
    BY DEF NothingUncommitted
  <2>2. CASE t \in T
    BY <1>1, <2>1, <2>2
  <2>3. CASE t \notin T
    <3>1. PICK b \in Actor : t \in job[b].did
      BY <2>1, <2>3 DEF TaskInv, NothingUncommitted
    <3>2. QED
      BY <1>1, <2>1, <3>1
  <2>4. QED
    BY <2>2, <2>3
<1>6. QED
  BY <1>2, <1>3, <1>4, <1>5 DEF TaskInv

\* DoTopicWrite, DoTopicNew, runRm, DoTopicMove: whatever is written is on the
\* list of the command, or has lapsed.
LEMMA Writers ==
    ASSUME TaskInv, NEW a \in Actor,
           \/ Truncate(a) \/ Write(a) \/ Scaffold(a) \/ MoveWrite(a)
           \/ \E t \in Slug : Remove(a, t) \/ PurgeOne(a, t)
    PROVE  TaskInv'
<1>0. /\ job[a] \in Job /\ job[a].did \in SUBSET Slug
      /\ topic \in [Slug -> File] /\ job \in [Actor -> Job] /\ lapsed \in SUBSET Slug
      /\ Absent \in File /\ Torn \in File /\ Topic \subseteq File
  BY DEF TaskInv, TypeOK, Job, File
<1>1. CASE Truncate(a)
  <2>1. /\ job[a].at = "write" /\ UNCHANGED <<crew, head, board, lapsed>>
        /\ topic' = [topic EXCEPT ![Target(a)] = Torn]
        /\ job' = [job EXCEPT ![a].at = "close", ![a].did = @ \cup {Target(a)}]
    BY <1>1 DEF Truncate
  <2>2. /\ Target(a) \in Slug /\ job[a].t \in Slug /\ job[a].m \in Topic /\ job[a].op \in Op
        /\ job[a].op = "move" => job[a].u \in Slug
    BY <2>1 DEF TaskInv, TypeOK, InHand, Target
  <2> DEFINE j == [job[a] EXCEPT !.at = "close", !.did = @ \cup {Target(a)}]
  <2>3. /\ j \in Job /\ j.at = "close" /\ j.did = job[a].did \cup {Target(a)}
        /\ j.op = job[a].op /\ j.t = job[a].t /\ j.u = job[a].u /\ j.m = job[a].m
    BY <1>0, <2>2 DEF Job
  <2>4. job' = [job EXCEPT ![a] = j]
    BY <1>0, <2>1
  <2>5. PICK T \in SUBSET Slug : T = {Target(a)}
    BY <2>2
  <2>6. /\ topic' \in [Slug -> File] /\ \A x \in Slug \ T : topic'[x] = topic[x]
        /\ T \cup job[a].did \subseteq j.did \cup lapsed'
        /\ lapsed' \in SUBSET Slug /\ lapsed \subseteq lapsed'
    BY <1>0, <2>1, <2>2, <2>3, <2>5
  <2>7. GoesOn(j) /\ UNCHANGED <<crew, head, board>>
    BY <2>1, <2>2, <2>3 DEF Target, GoesOn
  <2> HIDE DEF j
  <2>8. QED
    BY <2>3, <2>4, <2>6, <2>7, FileStep
<1>2. CASE Write(a)
  <2>1. /\ job[a].at = "close" /\ job[a].op # "move" /\ UNCHANGED <<crew, head, board, lapsed>>
        /\ topic' = [topic EXCEPT ![job[a].t] = job[a].m]
        /\ job' = [job EXCEPT ![a].at = Stage(job[a].op), ![a].m = None]
    BY <1>2 DEF Write
  <2>2. /\ job[a].t \in Slug /\ job[a].m \in Topic /\ job[a].op \in Op /\ job[a].t \in job[a].did
    BY <2>1 DEF TaskInv, TypeOK, InHand, Remembered, Target
  <2> DEFINE j == [job[a] EXCEPT !.at = Stage(job[a].op), !.m = None]
  <2>3. j \in Job /\ j.at \in {"next", "commit"} /\ j.did = job[a].did /\ j.op = job[a].op
    BY <1>0 DEF Job, Stage
  <2>4. job' = [job EXCEPT ![a] = j]
    BY <1>0, <2>1
  <2>5. PICK T \in SUBSET Slug : T = {job[a].t}
    BY <2>2
  <2>6. /\ topic' \in [Slug -> File] /\ \A x \in Slug \ T : topic'[x] = topic[x]
        /\ T \cup job[a].did \subseteq j.did \cup lapsed'
        /\ lapsed' \in SUBSET Slug /\ lapsed \subseteq lapsed'
    BY <1>0, <2>1, <2>2, <2>3, <2>5
  <2>7. GoesOn(j) /\ UNCHANGED <<crew, head, board>>
    BY <2>1, <2>2, <2>3 DEF GoesOn
  <2> HIDE DEF j
  <2>8. QED
    BY <2>3, <2>4, <2>6, <2>7, FileStep
<1>3. CASE Scaffold(a)
  <2>1. PICK m \in Captured :
          /\ job[a].at = "new" /\ UNCHANGED <<crew, head, board, lapsed>>
          /\ topic' = [topic EXCEPT ![job[a].t] = [status |-> "open", who |-> None]]
          /\ job' = [job EXCEPT ![a].at = "write", ![a].m = m, ![a].did = @ \cup {job[a].t}]
    BY <1>3 DEF Scaffold
  <2>2. /\ job[a].t \in Slug /\ job[a].op = "capture" /\ "capture" \in Op
        /\ m \in Topic /\ [status |-> "open", who |-> None] \in Topic
    BY <2>1 DEF TaskInv, InHand, Captured, Assigned, Unassigned, Topic, Status, Op
  <2> DEFINE j == [job[a] EXCEPT !.at = "write", !.m = m, !.did = @ \cup {job[a].t}]
  <2>3. /\ j \in Job /\ j.at = "write" /\ j.did = job[a].did \cup {job[a].t}
        /\ j.op = "capture" /\ j.t = job[a].t /\ j.m = m
    BY <1>0, <2>2 DEF Job
  <2>4. job' = [job EXCEPT ![a] = j]
    BY <1>0, <2>1
  <2>5. PICK T \in SUBSET Slug : T = {job[a].t}
    BY <2>2
  <2>6. /\ topic' \in [Slug -> File] /\ \A x \in Slug \ T : topic'[x] = topic[x]
        /\ T \cup job[a].did \subseteq j.did \cup lapsed'
        /\ lapsed' \in SUBSET Slug /\ lapsed \subseteq lapsed'
    BY <1>0, <2>1, <2>2, <2>3, <2>5
  <2>7. GoesOn(j) /\ UNCHANGED <<crew, head, board>>
    BY <2>1, <2>2, <2>3 DEF GoesOn
  <2> HIDE DEF j
  <2>8. QED
    BY <2>3, <2>4, <2>6, <2>7, FileStep
<1>4. CASE MoveWrite(a)
  <2>1. PICK u \in Slug, x \in Slug : u = job[a].u /\ x = job[a].t
    BY <1>4 DEF MoveWrite, TaskInv, InHand
  <2>2. /\ job[a].at = "close" /\ job[a].op = "move" /\ UNCHANGED <<crew, head, board>>
        /\ topic' = [topic EXCEPT ![u] = job[a].m, ![x] = Absent]
        /\ \/ job' = [job EXCEPT ![a].at = "commit", ![a].did = @ \cup {x}] /\ lapsed' = lapsed
           \/ /\ topic[x] = Absent
              /\ job' = [job EXCEPT ![a] = Idle]
              /\ lapsed' = lapsed \cup job[a].did
    BY <1>4, <2>1 DEF MoveWrite
  <2>3. job[a].m \in Topic /\ u \in job[a].did /\ "move" \in Op
    BY <2>1, <2>2 DEF TaskInv, TypeOK, Remembered, Target, Op
  <2>4. topic' \in [Slug -> File] /\ \A y \in Slug \ {u, x} : topic'[y] = topic[y]
    BY <1>0, <2>2, <2>3
  <2>5. CASE job' = [job EXCEPT ![a].at = "commit", ![a].did = @ \cup {x}] /\ lapsed' = lapsed
    <3> DEFINE j == [job[a] EXCEPT !.at = "commit", !.did = @ \cup {x}]
    <3>1. j \in Job /\ j.at = "commit" /\ j.did = job[a].did \cup {x} /\ j.op = "move"
      BY <1>0, <2>2 DEF Job
    <3>2. job' = [job EXCEPT ![a] = j]
      BY <1>0, <2>5
    <3>3. PICK T \in SUBSET Slug : T = {u, x}
      BY <2>1
    <3>4. /\ \A y \in Slug \ T : topic'[y] = topic[y]
          /\ T \cup job[a].did \subseteq j.did \cup lapsed'
          /\ lapsed' \in SUBSET Slug /\ lapsed \subseteq lapsed'
      BY <1>0, <2>3, <2>4, <2>5, <3>1, <3>3
    <3>5. GoesOn(j)
      BY <2>3, <3>1 DEF GoesOn
    <3> HIDE DEF j
    <3>6. QED
      BY <2>2, <2>4, <3>1, <3>2, <3>4, <3>5, FileStep
  <2>6. CASE /\ topic[x] = Absent
             /\ job' = [job EXCEPT ![a] = Idle]
             /\ lapsed' = lapsed \cup job[a].did
    <3>1. PICK T \in SUBSET Slug : T = {u}
      BY <2>1
    <3>2. /\ \A y \in Slug \ T : topic'[y] = topic[y]
          /\ T \cup job[a].did \subseteq Idle.did \cup lapsed'
          /\ lapsed' \in SUBSET Slug /\ lapsed \subseteq lapsed'
      BY <1>0, <2>2, <2>3, <2>6, <3>1
    <3>3. GoesOn(Idle)
      BY IdleJob DEF GoesOn
    <3>4. QED
      BY <2>2, <2>4, <2>6, <3>2, <3>3, IdleJob, FileStep
  <2>7. QED
    BY <2>2, <2>5, <2>6
<1>5. ASSUME NEW t \in Slug, Remove(a, t) PROVE TaskInv'
  <2>1. /\ job[a].did = {} /\ UNCHANGED <<crew, head, board, lapsed>>
        /\ topic' = [topic EXCEPT ![t] = Absent]
        /\ job' = [job EXCEPT ![a] = [Idle EXCEPT !.op = "rm", !.at = "commit", !.t = t,
                                                  !.did = {t}]]
    BY <1>5 DEF Remove, Starts, TaskInv, Remembered
  <2> DEFINE j == [Idle EXCEPT !.op = "rm", !.at = "commit", !.t = t, !.did = {t}]
  <2>2. j \in Job /\ j.at = "commit" /\ j.did = {t} /\ j.op = "rm" /\ "rm" \in Op
    BY DEF Idle, Job, Op
  <2>3. job' = [job EXCEPT ![a] = j]
    BY <2>1
  <2>4. PICK T \in SUBSET Slug : T = {t}
    OBVIOUS
  <2>5. /\ topic' \in [Slug -> File] /\ \A x \in Slug \ T : topic'[x] = topic[x]
        /\ T \cup job[a].did \subseteq j.did \cup lapsed'
        /\ lapsed' \in SUBSET Slug /\ lapsed \subseteq lapsed'
    BY <1>0, <2>1, <2>2, <2>4
  <2>6. GoesOn(j) /\ UNCHANGED <<crew, head, board>>
    BY <2>1, <2>2 DEF GoesOn
  <2> HIDE DEF j
  <2>7. QED
    BY <2>2, <2>3, <2>5, <2>6, FileStep
<1>6. ASSUME NEW t \in Slug, PurgeOne(a, t) PROVE TaskInv'
  <2>1. /\ job[a].at = "next" /\ job[a].op = "purge" /\ UNCHANGED <<crew, head, board, lapsed>>
        /\ topic' = [topic EXCEPT ![t] = Absent]
        /\ job' = [job EXCEPT ![a].todo = @ \ {t}, ![a].did = @ \cup {t}]
    BY <1>6 DEF PurgeOne
  <2> DEFINE j == [job[a] EXCEPT !.todo = @ \ {t}, !.did = @ \cup {t}]
  <2>2. /\ j \in Job /\ j.at = "next" /\ j.did = job[a].did \cup {t}
        /\ j.op = "purge" /\ "purge" \in Op
    BY <1>0, <2>1 DEF Job, Op
  <2>3. job' = [job EXCEPT ![a] = j]
    BY <1>0, <2>1
  <2>4. PICK T \in SUBSET Slug : T = {t}
    OBVIOUS
  <2>5. /\ topic' \in [Slug -> File] /\ \A x \in Slug \ T : topic'[x] = topic[x]
        /\ T \cup job[a].did \subseteq j.did \cup lapsed'
        /\ lapsed' \in SUBSET Slug /\ lapsed \subseteq lapsed'
    BY <1>0, <2>1, <2>2, <2>4
  <2>6. GoesOn(j) /\ UNCHANGED <<crew, head, board>>
    BY <2>1, <2>2 DEF GoesOn
  <2> HIDE DEF j
  <2>7. QED
    BY <2>2, <2>3, <2>5, <2>6, FileStep
<1>7. QED
  BY <1>1, <1>2, <1>3, <1>4, <1>5, <1>6

\* DoTopicCommit and its like stage all that is on the command's list, as it
\* is on disk by now; a move takes its old path out of git, and it has lapsed
\* if it was there.
LEMMA Commits ==
    ASSUME TaskInv, NEW a \in Actor, Commit(a)
    PROVE  TaskInv'
<1>1. /\ head' = [t \in Slug |-> CASE t \in Unlisted(a) -> Absent
                                  [] t \in Scope(a) \ Unlisted(a) -> topic[t]
                                  [] OTHER -> head[t]]
      /\ job' = [job EXCEPT ![a] = After(a)]
      /\ lapsed' = (lapsed \ Scope(a)) \cup {t \in Unlisted(a) : topic[t] # Absent}
      /\ UNCHANGED <<crew, topic, board>>
  BY DEF Commit
<1>2. job[a].did \subseteq Scope(a)
  BY DEF TaskInv, TypeOK, Job, Scope
<1>3. job'[a] = After(a) /\ \A b \in Actor \ {a} : job'[b] = job[b]
  BY <1>1 DEF TaskInv, TypeOK
<1>4. TypeOK'
  <2>1. head' \in [Slug -> File] /\ lapsed' \subseteq Slug
    BY <1>1 DEF TaskInv, TypeOK, Unlisted, File
  <2>2. QED
    BY <1>1, <1>3, <2>1, AfterType DEF TaskInv, TypeOK
<1>5. InHand'
  BY <1>3, AfterType DEF TaskInv, InHand
<1>6. Remembered'
  <2>1. \A b \in Actor \ {a} : Target(b)' = Target(b)
    BY <1>3 DEF Target
  <2>2. QED
    BY <1>3, <2>1, AfterType DEF TaskInv, Remembered
<1>7. NothingUncommitted'
  <2>1. SUFFICES ASSUME NEW t \in Slug, topic[t] # head'[t], t \notin lapsed'
                 PROVE  \E b \in Actor : t \in job'[b].did
    BY <1>1 DEF NothingUncommitted
  <2>2. t \notin Scope(a) /\ head'[t] = head[t]
    <3>1. t \notin Unlisted(a)
      BY <1>1, <2>1
    <3>2. QED
      BY <1>1, <2>1, <3>1
  <2>3. PICK b \in Actor : t \in job[b].did
    BY <1>1, <2>1, <2>2 DEF TaskInv, NothingUncommitted
  <2>4. QED
    BY <1>2, <1>3, <2>2, <2>3
<1>8. QED
  BY <1>4, <1>5, <1>6, <1>7 DEF TaskInv

LEMMA TaskNext == TaskInv /\ [Next]_vars => TaskInv'
<1> SUFFICES ASSUME TaskInv, [Next]_vars PROVE TaskInv'
  OBVIOUS
<1>1. ASSUME NEW s \in Ship, Expire(s) PROVE TaskInv'
  BY <1>1 DEF Expire, TaskInv, TypeOK, Heartbeat, InHand, Remembered, Target, NothingUncommitted
<1>2. CASE UNCHANGED vars
  BY <1>2 DEF vars, TaskInv, TypeOK, InHand, Remembered, Target, NothingUncommitted
<1>3. ASSUME NEW a \in Actor,
             \/ Works(a) \/ Purge(a) \/ Scaffold(a) \/ MoveWrite(a) \/ Report(a) \/ Die(a)
             \/ \E t \in Slug :
                   \/ Capture(a, t) \/ Remove(a, t) \/ PurgeOne(a, t)
                   \/ \E op \in Op : Load(a, op, t)
                   \/ \E u \in Slug : Move(a, t, u)
      PROVE  TaskInv'
  BY <1>3, Starters, Others, Writers, Commits DEF Works
<1>4. QED
  BY <1>1, <1>2, <1>3 DEF Next

LEMMA TaskInductive == Spec => []TaskInv
BY TaskInit, TaskNext, PTL DEF Spec

\* Topics, commits and commands keep their types, whoever writes in between.
THEOREM TaskTypes == Spec => []TypeOK
<1>1. TaskInv => TypeOK
  BY DEF TaskInv
<1>2. QED
  BY <1>1, TaskInductive, PTL

\* DoTopicCommit: whatever differs from the last commit will still be committed
\* by a command under way, or has lapsed with one that failed or died.
THEOREM AllIsCommitted == Spec => []NothingUncommitted
<1>1. TaskInv => NothingUncommitted
  BY DEF TaskInv
<1>2. QED
  BY <1>1, TaskInductive, PTL

(***************************************************************************)
(* Standing instructions.                                                  *)
(***************************************************************************)

\* The names in the headers.
Names == {frag[s].name : s \in {t \in SopSlug : S!There(t)}}

\* What a command that nobody has crossed knows at each stage of a reindex is
\* still so.
KnowsTheFragments ==
    \A a \in SopActor : sopJob[a].alone =>
        /\ sopJob[a].at = "inline" => sopJob[a].metas = Names
        /\ sopJob[a].at = "index" => sopJob[a].list = S!Inlined
        /\ sopJob[a].at = "commit" => index = S!Inlined
        /\ sopJob[a].at = "over" /\ sopJob[a].ok => index = S!Inlined

\* What the console has reported as done stays in the index of git too: the
\* next commit of whatever else takes it along.
StaysStaged ==
    \A a \in SopActor :
        LET s == sopJob[a].slug IN
        /\ sopJob[a].at = "over" /\ sopJob[a].ok /\ S!Commits(sopJob[a].op)
        /\ S!There(s) /\ frag[s].text = sopJob[a].text
        => sopHead[s] = frag[s] /\ staged[s] = frag[s]

\* No command has written what is still to be written.
WrittenBefore == \A a \in SopActor : sopJob[a].text <= made

SopInv == S!TypeOK /\ KnowsTheFragments /\ StaysStaged /\ WrittenBefore

LEMMA SopInit == S!Init => SopInv
<1> SUFFICES ASSUME S!Init PROVE SopInv
  OBVIOUS
<1> USE WorkspaceAssumption DEF S!SopsAssumption
<1>1. 0 \in S!Version /\ 1 \in S!Version /\ (CHOOSE s \in SopSlug : TRUE) \in SopSlug
  BY DEF S!Version
<1>2. PICK T \in SUBSET SopSlug :
        frag = [s \in SopSlug |-> IF s \in T THEN [name |-> s, title |-> 0, text |-> 1] ELSE S!Gone]
  BY DEF S!Init
<1>3. frag \in [SopSlug -> S!Fragment \cup {S!Gone}]
  BY <1>1, <1>2 DEF S!Fragment
<1>4. \A s \in SopSlug : frag[s].text \in S!Version
  BY <1>1, <1>2 DEF S!Gone
<1>5. S!Idle \in S!Job /\ S!Idle.at = "idle" /\ S!Idle.text = 0
  BY <1>1 DEF S!Idle, S!Job, S!Op, S!Blank
<1>6. S!TypeOK
  BY <1>1, <1>3, <1>4, <1>5 DEF S!Init, S!TypeOK
<1>7. KnowsTheFragments /\ StaysStaged /\ WrittenBefore
  BY <1>5 DEF S!Init, KnowsTheFragments, StaysStaged, WrittenBefore
<1>8. QED
  BY <1>6, <1>7 DEF SopInv

\* A step of one command leaves the others what they were, except that they
\* may not be alone any more.
SameWork(b) ==
    /\ sopJob'[b].at = sopJob[b].at /\ sopJob'[b].ok = sopJob[b].ok
    /\ sopJob'[b].op = sopJob[b].op /\ sopJob'[b].slug = sopJob[b].slug
    /\ sopJob'[b].text = sopJob[b].text
    /\ sopJob'[b].metas = sopJob[b].metas /\ sopJob'[b].list = sopJob[b].list

LEMMA SopJobs ==
    ASSUME SopInv, NEW a \in SopActor, NEW j \in S!Job, S!Step(a, j) \/ S!Disturb(a, j)
    PROVE  /\ sopJob' \in [SopActor -> S!Job]
           /\ sopJob'[a] = j
           /\ \A b \in SopActor \ {a} : SameWork(b)
           /\ S!Step(a, j) => \A b \in SopActor \ {a} : sopJob'[b] = sopJob[b]
           /\ S!Disturb(a, j) => \A b \in SopActor \ {a} : ~sopJob'[b].alone
<1>1. sopJob \in [SopActor -> S!Job]
  BY DEF SopInv, S!TypeOK
<1>2. CASE S!Step(a, j)
  <2>1. sopJob' = [sopJob EXCEPT ![a] = j]
    BY <1>2 DEF S!Step
  <2>2. sopJob'[a] = j /\ \A b \in SopActor \ {a} : sopJob'[b] = sopJob[b]
    BY <1>1, <2>1
  <2>3. ~S!Disturb(a, j) \/ \A b \in SopActor \ {a} : ~sopJob'[b].alone
    BY <1>1 DEF S!Disturb, S!Job
  <2>4. QED
    BY <1>1, <2>1, <2>2, <2>3 DEF SameWork
<1>3. CASE S!Disturb(a, j)
  <2>1. sopJob' = [b \in SopActor |-> IF b = a THEN j ELSE [sopJob[b] EXCEPT !.alone = FALSE]]
    BY <1>3 DEF S!Disturb
  <2>2. \A b \in SopActor \ {a} : sopJob'[b] = [sopJob[b] EXCEPT !.alone = FALSE] /\ sopJob[b] \in S!Job
    BY <1>1, <2>1
  <2>3. ASSUME NEW b \in SopActor \ {a}
        PROVE  sopJob'[b] \in S!Job /\ SameWork(b) /\ ~sopJob'[b].alone
    <3>1. sopJob'[b] = [sopJob[b] EXCEPT !.alone = FALSE] /\ sopJob[b] \in S!Job
      BY <2>2
    <3>2. sopJob'[b] \in S!Job
      BY <3>1 DEF S!Job
    <3>3. SameWork(b) /\ ~sopJob'[b].alone
      BY <3>1 DEF S!Job, SameWork
    <3>4. QED
      BY <3>2, <3>3
  <2>4. sopJob'[a] = j
    BY <2>1
  <2>5. sopJob' \in [SopActor -> S!Job]
    BY <2>1, <2>3, <2>4
  <2>6. S!Step(a, j) => \A b \in SopActor \ {a} : sopJob'[b] = sopJob[b]
    BY <1>1 DEF S!Step
  <2>7. QED
    BY <2>3, <2>4, <2>5, <2>6
<1>4. QED
  BY <1>2, <1>3

\* Commands that look, or give up, and change no file.
LEMMA SopLooks ==
    ASSUME SopInv, NEW a \in SopActor, NEW j \in S!Job, S!Step(a, j),
           UNCHANGED <<sopCrew, frag, made, index>>,
           sopHead' \in [SopSlug -> S!Fragment \cup {S!Gone}],
           staged' \in [SopSlug -> S!Fragment \cup {S!Gone}],
           \A s \in SopSlug : sopHead[s] = frag[s] /\ staged[s] = frag[s]
                                => sopHead'[s] = frag[s] /\ staged'[s] = frag[s],
           j.alone => /\ j.at = "inline" => j.metas = Names
                      /\ j.at = "index" => j.list = S!Inlined
                      /\ j.at = "commit" => index = S!Inlined
                      /\ j.at = "over" /\ j.ok => index = S!Inlined,
           j.at = "over" /\ j.ok /\ S!Commits(j.op)
                => sopHead'[j.slug] = frag[j.slug] /\ staged'[j.slug] = frag[j.slug],
           j.text <= made
    PROVE  SopInv'
<1>1. /\ sopJob' \in [SopActor -> S!Job] /\ sopJob'[a] = j
      /\ \A b \in SopActor \ {a} : sopJob'[b] = sopJob[b]
  BY SopJobs
<1>2. S!TypeOK'
  BY <1>1 DEF SopInv, S!TypeOK
<1>3. Names' = Names /\ S!Inlined' = S!Inlined
  BY DEF Names, S!Inlined, S!There
<1>4. KnowsTheFragments'
  BY <1>1, <1>3 DEF SopInv, KnowsTheFragments
<1>5. StaysStaged'
  <2>1. \A b \in SopActor : sopJob[b].slug \in SopSlug
    BY DEF SopInv, S!TypeOK, S!Job
  <2>2. QED
    BY <1>1, <2>1 DEF SopInv, StaysStaged, S!There
<1>6. WrittenBefore'
  BY <1>1 DEF SopInv, WrittenBefore
<1>7. QED
  BY <1>2, <1>4, <1>5, <1>6 DEF SopInv

LEMMA FailType ==
    ASSUME NEW j \in S!Job
    PROVE  /\ S!Fail(j) \in S!Job /\ S!Fail(j).at = "over" /\ ~S!Fail(j).ok
           /\ S!Fail(j).text = j.text
BY DEF S!Fail, S!Job

LEMMA SopBegins ==
    ASSUME SopInv, NEW a \in SopActor, NEW op \in S!Op, NEW s \in SopSlug, S!Begin(a, op, s)
    PROVE  SopInv'
<1> USE WorkspaceAssumption DEF S!SopsAssumption
<1>1. PICK alone \in BOOLEAN :
        /\ alone => ~S!IsWsCommit(op)
        /\ LET j == [at |-> S!First(op), op |-> op, slug |-> s, title |-> 0, text |-> 0,
                     metas |-> {}, list |-> S!Blank, ok |-> TRUE, alone |-> alone]
           IN S!Step(a, IF S!Refused(op, s) THEN S!Fail(j) ELSE j)
  BY DEF S!Begin
<1>2. op # "remove" /\ UNCHANGED <<sopCrew, frag, made, index, sopHead, staged>>
  BY DEF S!Begin
<1> DEFINE j == [at |-> S!First(op), op |-> op, slug |-> s, title |-> 0, text |-> 0,
                 metas |-> {}, list |-> S!Blank, ok |-> TRUE, alone |-> alone]
<1>3. S!First(op) \in {"put", "load", "scan", "commit"} /\ (S!First(op) = "commit" => S!IsWsCommit(op))
  BY <1>2 DEF S!First, S!Op, S!IsWsCommit
<1>4. 0 \in S!Version
  BY DEF S!Version
<1>5. /\ j \in S!Job /\ j.at \in {"put", "load", "scan", "commit"} /\ j.text = 0
      /\ j.at = "commit" => ~j.alone
  BY <1>1, <1>3, <1>4 DEF S!Job, S!Blank
<1>6. 0 <= made /\ sopHead \in [SopSlug -> S!Fragment \cup {S!Gone}]
      /\ staged \in [SopSlug -> S!Fragment \cup {S!Gone}]
  BY DEF SopInv, S!TypeOK, S!Version
<1>7. S!Step(a, IF S!Refused(op, s) THEN S!Fail(j) ELSE j)
  BY <1>1
<1> HIDE DEF j
<1>8. CASE S!Refused(op, s)
  <2>1. PICK k \in S!Job : k = S!Fail(j)
    BY <1>5, FailType
  <2>2. S!Step(a, k) /\ k.at = "over" /\ ~k.ok /\ k.text = 0
    BY <1>5, <1>7, <1>8, <2>1, FailType
  <2>3. QED
    BY <1>2, <1>6, <2>2, SopLooks
<1>9. CASE ~S!Refused(op, s)
  BY <1>2, <1>5, <1>6, <1>7, <1>9, SopLooks
<1>10. QED
  BY <1>8, <1>9

\* loadAllFragments and DoReindex, up to the writing of the index.
LEMMA SopReads ==
    ASSUME SopInv, NEW a \in SopActor, S!LoadMeta(a) \/ S!Scan(a) \/ S!Inline(a)
    PROVE  SopInv'
<1>0. /\ sopJob[a] \in S!Job /\ frag \in [SopSlug -> S!Fragment \cup {S!Gone}]
      /\ sopHead \in [SopSlug -> S!Fragment \cup {S!Gone}]
      /\ staged \in [SopSlug -> S!Fragment \cup {S!Gone}]
      /\ sopJob[a].text <= made
  BY DEF SopInv, S!TypeOK, WrittenBefore
<1>1. UNCHANGED <<sopCrew, frag, made, index, sopHead, staged>>
  BY DEF S!LoadMeta, S!Scan, S!Inline
<1>2. ASSUME NEW k \in S!Job, S!Step(a, k), k.at = "over", ~k.ok, k.text = sopJob[a].text
      PROVE  SopInv'
  BY <1>0, <1>1, <1>2, SopLooks
<1>3. CASE S!LoadMeta(a)
  <2>1. CASE S!Step(a, S!Fail(sopJob[a]))
    BY <1>0, <1>2, <2>1, FailType
  <2>2. ASSUME NEW s \in SopSlug, S!There(s),
               S!Step(a, [sopJob[a] EXCEPT !.at = "put", !.title = frag[s].title])
        PROVE  SopInv'
    <3> DEFINE j == [sopJob[a] EXCEPT !.at = "put", !.title = frag[s].title]
    <3>1. frag[s].title \in S!Version
      BY <1>0, <2>2 DEF S!There, S!Fragment
    <3>2. j \in S!Job /\ j.at = "put" /\ j.text = sopJob[a].text
      BY <1>0, <3>1 DEF S!Job
    <3>3. S!Step(a, j)
      BY <2>2
    <3> HIDE DEF j
    <3>4. QED
      BY <1>0, <1>1, <3>2, <3>3, SopLooks
  <2>3. QED
    BY <1>3, <2>1, <2>2 DEF S!LoadMeta
<1>4. CASE S!Scan(a)
  <2> DEFINE j == [sopJob[a] EXCEPT !.at = "inline", !.metas = Names]
  <2>1. Names \in SUBSET SopSlug
    BY <1>0 DEF Names, S!There, S!Fragment
  <2>2. j \in S!Job /\ j.at = "inline" /\ j.metas = Names /\ j.text = sopJob[a].text
    BY <1>0, <2>1 DEF S!Job
  <2>3. S!Step(a, j)
    BY <1>4 DEF S!Scan, Names
  <2> HIDE DEF j
  <2>4. QED
    BY <1>0, <1>1, <2>2, <2>3, SopLooks
<1>5. CASE S!Inline(a)
  <2> DEFINE m == sopJob[a].metas
             k == [sopJob[a] EXCEPT !.metas = {}]
             l == [s \in SopSlug |-> IF s \in m THEN frag[s].text ELSE 0]
             j == [sopJob[a] EXCEPT !.at = "index", !.metas = {}, !.list = l]
  <2>1. k \in S!Job /\ k.text = sopJob[a].text
    BY <1>0 DEF S!Job
  <2>2. CASE \E s \in m : ~S!There(s)
    <3>1. S!Step(a, S!Fail(k))
      BY <1>5, <2>2 DEF S!Inline
    <3> HIDE DEF k
    <3>2. QED
      BY <1>2, <2>1, <3>1, FailType
  <2>3. CASE \A s \in m : S!There(s)
    <3>1. S!Step(a, j)
      BY <1>5, <2>3 DEF S!Inline
    <3>2. l \in [SopSlug -> S!Version]
      <4>1. 0 \in S!Version
        BY WorkspaceAssumption DEF S!SopsAssumption, S!Version
      <4>2. \A s \in SopSlug : s \in m => frag[s].text \in S!Version
        BY <1>0, <2>3 DEF S!There, S!Fragment
      <4>3. QED
        BY <4>1, <4>2
    <3>3. j \in S!Job /\ j.at = "index" /\ j.list = l /\ j.text = sopJob[a].text
          /\ j.alone = sopJob[a].alone
      BY <1>0, <3>2 DEF S!Job
    <3>4. sopJob[a].alone => m = Names
      BY <1>5 DEF S!Inline, SopInv, KnowsTheFragments
    <3>5. m = Names => l = S!Inlined
      BY <2>3 DEF Names, S!Inlined
    <3> HIDE DEF j, l, m
    <3>6. QED
      BY <1>0, <1>1, <3>1, <3>3, <3>4, <3>5, SopLooks
  <2>4. QED
    BY <2>2, <2>3
<1>6. QED
  BY <1>3, <1>4, <1>5

\* Commands that write a fragment or the index, and the user's removals: nobody
\* else is alone after them.
LEMMA SopWrites ==
    ASSUME SopInv, NEW a \in SopActor, NEW j \in S!Job, S!Disturb(a, j),
           frag' \in [SopSlug -> S!Fragment \cup {S!Gone}],
           made' \in S!Version, made <= made',
           index' \in [SopSlug -> S!Version],
           UNCHANGED <<sopHead, staged>>,
           \A s \in SopSlug : frag'[s] = frag[s] \/ frag'[s] = S!Gone \/ frag'[s].text > made,
           j.alone => /\ j.at \notin {"inline", "index"}
                      /\ j.at \in {"commit", "over"} => index' = S!Inlined',
           j.at = "over" => ~S!Commits(j.op),
           j.text <= made'
    PROVE  SopInv'
<1>1. /\ sopJob' \in [SopActor -> S!Job] /\ sopJob'[a] = j
      /\ \A b \in SopActor \ {a} : SameWork(b) /\ ~sopJob'[b].alone
  BY SopJobs
<1>2. S!TypeOK'
  BY <1>1 DEF SopInv, S!TypeOK
<1>3. KnowsTheFragments'
  BY <1>1 DEF KnowsTheFragments
<1>4. StaysStaged'
  <2>1. SUFFICES ASSUME NEW b \in SopActor \ {a}, NEW s, s = sopJob[b].slug,
                        sopJob[b].at = "over", sopJob[b].ok, S!Commits(sopJob[b].op),
                        frag'[s] # S!Gone, frag'[s].text = sopJob[b].text
                 PROVE  sopHead[s] = frag'[s] /\ staged[s] = frag'[s]
    BY <1>1 DEF StaysStaged, SameWork, S!There
  <2>2. s \in SopSlug /\ sopJob[b].text \in S!Version /\ made \in S!Version
    BY <2>1 DEF SopInv, S!TypeOK, S!Job
  <2>3. ~(sopJob[b].text > made)
    BY <2>2 DEF SopInv, WrittenBefore, S!Version
  <2>4. frag'[s] = frag[s]
    BY <2>1, <2>2, <2>3
  <2>5. QED
    BY <2>1, <2>4 DEF SopInv, StaysStaged, S!There
<1>5. WrittenBefore'
  <2>1. \A b \in SopActor : sopJob[b].text \in S!Version /\ made \in S!Version
    BY DEF SopInv, S!TypeOK, S!Job
  <2>2. QED
    BY <1>1, <2>1 DEF SopInv, WrittenBefore, SameWork, S!Version
<1>6. QED
  BY <1>2, <1>3, <1>4, <1>5 DEF SopInv

LEMMA SopFiles ==
    ASSUME SopInv, NEW a \in SopActor,
           S!Put(a) \/ S!WriteIndex(a) \/ \E s \in SopSlug : S!Remove(a, s)
    PROVE  SopInv'
<1>0. /\ sopJob[a] \in S!Job /\ frag \in [SopSlug -> S!Fragment \cup {S!Gone}]
      /\ made \in S!Version /\ made \in Nat /\ index \in [SopSlug -> S!Version]
      /\ sopJob[a].text <= made
  BY DEF SopInv, S!TypeOK, WrittenBefore, S!Version
<1>1. CASE S!Put(a)
  <2>1. PICK f \in S!Written(a, made + 1) :
          frag' = [frag EXCEPT ![sopJob[a].slug] = f]
    BY <1>1 DEF S!Put
  <2> DEFINE j == [sopJob[a] EXCEPT !.at = "scan", !.title = 0, !.text = made + 1]
  <2>2. /\ sopJob[a].at = "put" /\ made + 1 \in S!Version /\ made' = made + 1
        /\ S!Disturb(a, j) /\ UNCHANGED <<sopCrew, index, sopHead, staged>>
    BY <1>1 DEF S!Put, S!AfterPut
  <2>3. f \in S!Fragment /\ f.text = made + 1
    BY <1>0, <2>2 DEF S!Written, S!Fragment, S!Job
  <2>4. 0 \in S!Version
    BY WorkspaceAssumption DEF S!SopsAssumption, S!Version
  <2>5. j \in S!Job /\ j.at = "scan" /\ j.text = made + 1
    BY <1>0, <2>2, <2>4 DEF S!Job
  <2>6. /\ frag' \in [SopSlug -> S!Fragment \cup {S!Gone}]
        /\ \A s \in SopSlug : frag'[s] = frag[s] \/ frag'[s] = f
    BY <1>0, <2>1, <2>3
  <2>9. \A s \in SopSlug : frag'[s] = frag[s] \/ frag'[s].text > made
    BY <1>0, <2>3, <2>6
  <2>7. made <= made' /\ j.text <= made' /\ made' \in S!Version /\ index' \in [SopSlug -> S!Version]
    BY <1>0, <2>2, <2>5
  <2> HIDE DEF j
  <2>8. QED
    BY <2>2, <2>5, <2>6, <2>7, <2>9, SopWrites
<1>2. ASSUME NEW s \in SopSlug, S!Remove(a, s) PROVE SopInv'
  <2> DEFINE j == [sopJob[a] EXCEPT !.at = "idle"]
  <2>1. /\ frag' = [frag EXCEPT ![s] = S!Gone] /\ S!Disturb(a, j)
        /\ UNCHANGED <<sopCrew, made, index, sopHead, staged>>
    BY <1>2 DEF S!Remove
  <2>2. j \in S!Job /\ j.at = "idle" /\ j.text = sopJob[a].text
    BY <1>0 DEF S!Job
  <2>3. /\ frag' \in [SopSlug -> S!Fragment \cup {S!Gone}]
        /\ \A t \in SopSlug : frag'[t] = frag[t] \/ frag'[t] = S!Gone
    BY <1>0, <2>1
  <2>4. made <= made' /\ j.text <= made' /\ made' \in S!Version /\ index' \in [SopSlug -> S!Version]
    BY <1>0, <2>1, <2>2
  <2> HIDE DEF j
  <2>5. QED
    BY <2>1, <2>2, <2>3, <2>4, SopWrites
<1>3. CASE S!WriteIndex(a)
  <2> DEFINE at == IF S!Commits(sopJob[a].op) THEN "commit" ELSE "over"
             j == [sopJob[a] EXCEPT !.at = at, !.list = S!Blank]
  <2>1. /\ sopJob[a].at = "index" /\ index' = sopJob[a].list /\ S!Disturb(a, j)
        /\ UNCHANGED <<sopCrew, frag, made, sopHead, staged>>
    BY <1>3 DEF S!WriteIndex
  <2>2. S!Blank \in [SopSlug -> S!Version]
    BY WorkspaceAssumption DEF S!SopsAssumption, S!Blank, S!Version
  <2>3. /\ j \in S!Job /\ j.at = at /\ j.text = sopJob[a].text
        /\ j.op = sopJob[a].op /\ j.alone = sopJob[a].alone
    BY <1>0, <2>2 DEF S!Job
  <2>4. S!Inlined' = S!Inlined
    BY <2>1 DEF S!Inlined, S!There
  <2>5. sopJob[a].alone => index' = S!Inlined'
    BY <2>1, <2>4 DEF SopInv, KnowsTheFragments
  <2>6. made <= made' /\ j.text <= made' /\ made' \in S!Version /\ index' \in [SopSlug -> S!Version]
    BY <1>0, <2>1, <2>3 DEF S!Job
  <2>7. frag' \in [SopSlug -> S!Fragment \cup {S!Gone}]
    BY <1>0, <2>1
  <2>8. j.at = "over" => ~S!Commits(j.op)
    BY <2>3
  <2>9. j.at \notin {"inline", "index"}
    BY <2>3
  <2> HIDE DEF j, at
  <2>10. QED
    BY <2>1, <2>3, <2>5, <2>6, <2>7, <2>8, <2>9, SopWrites
<1>4. QED
  BY <1>1, <1>2, <1>3

\* DoCommit: what is added is as it is on disk by now, and what was staged
\* before goes along.
LEMMA SopCommits ==
    ASSUME SopInv, NEW a \in SopActor, S!Commit(a) \/ S!Die(a)
    PROVE  SopInv'
<1>0. /\ sopJob[a] \in S!Job /\ frag \in [SopSlug -> S!Fragment \cup {S!Gone}]
      /\ sopHead \in [SopSlug -> S!Fragment \cup {S!Gone}]
      /\ staged \in [SopSlug -> S!Fragment \cup {S!Gone}]
      /\ sopJob[a].text <= made
  BY DEF SopInv, S!TypeOK, WrittenBefore
<1>1. UNCHANGED <<sopCrew, frag, made, index>>
  BY DEF S!Commit, S!Die
<1>2. /\ S!Added(a) \in [SopSlug -> S!Fragment \cup {S!Gone}]
      /\ \A s \in SopSlug : S!Added(a)[s] = IF s \in S!Paths(a) THEN frag[s] ELSE staged[s]
  BY <1>0 DEF S!Added
<1>3. ASSUME NEW k \in S!Job, S!Step(a, k), k.at = "over", ~k.ok, k.text = sopJob[a].text,
             sopHead' = sopHead, staged' \in {staged, S!Added(a)}
      PROVE  SopInv'
  BY <1>0, <1>1, <1>2, <1>3, SopLooks
<1>4. CASE S!Die(a)
  <2>1. staged' \in {staged, S!Added(a)} /\ sopHead' = sopHead /\ S!Step(a, S!Fail(sopJob[a]))
    BY <1>4 DEF S!Die
  <2>2. QED
    BY <1>0, <1>3, <2>1, FailType
<1>5. CASE S!Commit(a)
  <2>1. CASE S!Step(a, S!Fail(sopJob[a])) /\ UNCHANGED <<sopHead, staged>>
    BY <1>0, <1>3, <2>1, FailType
  <2>2. CASE /\ staged' = S!Added(a)
             /\ IF S!NothingStaged(a)
                THEN S!Step(a, [sopJob[a] EXCEPT !.at = "over"]) /\ UNCHANGED sopHead
                ELSE /\ sopHead' = S!Added(a)
                     /\ \E ok \in BOOLEAN : S!Step(a, [sopJob[a] EXCEPT !.at = "over", !.ok = ok])
    <3>1. PICK ok \in BOOLEAN : S!Step(a, [sopJob[a] EXCEPT !.at = "over", !.ok = ok])
      <4>1. [sopJob[a] EXCEPT !.at = "over"] = [sopJob[a] EXCEPT !.at = "over", !.ok = sopJob[a].ok]
        BY <1>0 DEF S!Job
      <4>2. sopJob[a].ok \in BOOLEAN
        BY <1>0 DEF S!Job
      <4>3. QED
        BY <2>2, <4>1, <4>2
    <3> DEFINE j == [sopJob[a] EXCEPT !.at = "over", !.ok = ok]
    <3>2. /\ j \in S!Job /\ j.at = "over" /\ j.text = sopJob[a].text /\ j.op = sopJob[a].op
          /\ j.slug = sopJob[a].slug /\ j.alone = sopJob[a].alone /\ j.slug \in SopSlug
      BY <1>0 DEF S!Job
    <3>3. S!Step(a, j)
      BY <3>1
    <3>4. sopHead' \in {sopHead, S!Added(a)} /\ staged' = S!Added(a)
      BY <2>2
    <3>5. S!Commits(sopJob[a].op) =>
            sopHead'[j.slug] = frag[j.slug] /\ staged'[j.slug] = frag[j.slug]
      <4>1. SUFFICES ASSUME S!Commits(sopJob[a].op)
                     PROVE  sopHead'[j.slug] = frag[j.slug] /\ staged'[j.slug] = frag[j.slug]
        OBVIOUS
      <4>2. S!Paths(a) = {sopJob[a].slug} /\ ~S!IsWsCommit(sopJob[a].op)
        BY <4>1 DEF S!Paths, S!Commits, S!IsWsCommit
      <4>3. S!Added(a)[j.slug] = frag[j.slug]
        BY <1>2, <3>2, <4>2
      <4>4. S!NothingStaged(a) => S!Added(a)[j.slug] = sopHead[j.slug]
        BY <3>2, <4>2 DEF S!NothingStaged
      <4>5. QED
        BY <2>2, <3>4, <4>3, <4>4
    <3>6. sopJob[a].alone => index = S!Inlined
      BY <1>5 DEF S!Commit, SopInv, KnowsTheFragments
    <3>7. \A s \in SopSlug : sopHead[s] = frag[s] /\ staged[s] = frag[s]
                                => sopHead'[s] = frag[s] /\ staged'[s] = frag[s]
      BY <1>2, <3>4
    <3> HIDE DEF j
    <3>8. QED
      BY <1>0, <1>1, <1>2, <3>2, <3>3, <3>4, <3>5, <3>6, <3>7, SopLooks
  <2>3. QED
    BY <1>5, <2>1, <2>2 DEF S!Commit
<1>6. QED
  BY <1>4, <1>5

LEMMA SopNext == SopInv /\ [S!Next]_(S!vars) => SopInv'
<1> SUFFICES ASSUME SopInv, [S!Next]_(S!vars) PROVE SopInv'
  OBVIOUS
<1>1. CASE UNCHANGED S!vars
  BY <1>1 DEF S!vars, SopInv, S!TypeOK, KnowsTheFragments, Names, S!Inlined, S!There,
              StaysStaged, WrittenBefore
<1>2. CASE S!Next
  BY <1>2, SopBegins, SopReads, SopFiles, SopCommits DEF S!Next
<1>3. QED
  BY <1>1, <1>2

LEMMA SopInductive == S!Spec => []SopInv
BY SopInit, SopNext, PTL DEF S!Spec

\* DoReindex: a command of sop that nobody has crossed leaves an index with the
\* text of every fragment.
THEOREM ReindexIsTrue == S!Spec => []IndexIsTrue
<1>1. SopInv => IndexIsTrue
  BY DEF SopInv, KnowsTheFragments, IndexIsTrue, S!IndexIsTrue
<1>2. QED
  BY <1>1, SopInductive, PTL

\* apiSOPUpdate, DoCommit: what the console reports as done is committed, and
\* stays so while the file has it, whatever else is staged and committed.
THEOREM ReportedIsCommitted == S!Spec => []ConsoleCommits
<1>1. SopInv => ConsoleCommits
  BY DEF SopInv, StaysStaged, ConsoleCommits, S!ConsoleCommits
<1>2. QED
  BY <1>1, SopInductive, PTL
=============================================================================
