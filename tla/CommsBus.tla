------------------------------ MODULE CommsBus ------------------------------
(***************************************************************************)
(* The message store of internal/comms: one file per recipient and         *)
(* message, msgs/<ship>/unseen/<id>.json until it is acked and             *)
(* msgs/<ship>/seen/<id>.json afterwards, and the counter msgs/.seq.       *)
(*                                                                         *)
(* Every operation here but HealthUpdate runs under the bus lock (module   *)
(* Flock), so at most one is between two of its file operations; `op' is   *)
(* that one.  Its process can die there, which frees the lock and leaves   *)
(* the files as they are.                                                  *)
(*                                                                         *)
(* A message file is written here as the number of the post it was written *)
(* by.  The code knows only its id, idOf[post]: that is the file's name,   *)
(* and a file of the same name in the same directory is overwritten.       *)
(***************************************************************************)
EXTENDS Integers, FiniteSets

CONSTANTS
    Ship,       \* ship names
    Nobody,     \* not a ship
    MaxPost,    \* bound: how many messages are posted
    MaxTime,    \* bound: how far the clock runs
    TTL,        \* BusTTL, in the clock's unit
    Idleness,   \* bound: whether ships report themselves idle, or not, or both
    IOErrors    \* whether a write or rename of post may fail (disk full)

ASSUME BusAssumption ==
    /\ Nobody \notin Ship
    /\ MaxPost \in Nat
    /\ MaxTime \in Nat
    /\ TTL \in Nat
    /\ Idleness \subseteq BOOLEAN
    /\ IOErrors \in BOOLEAN

Post == 1 .. MaxPost
Id == 1 .. MaxPost      \* .seq counts at most one per post
Time == 0 .. MaxTime
None == -1              \* no status file

VARIABLES
    unseen, seen,   \* the message files of each ship
    tmp,            \* its <id>.json.tmp.<nanos> files, in its unseen/
    dirs,           \* ships that have a directory under msgs/
    seq,            \* the number in .seq; 0 when it is missing or empty
    beat,           \* the epoch of each status file
    idle,           \* ships whose status file says "idle"
    clock,
    posts,          \* how many messages have been posted so far
    idOf, from, at, rcpt,   \* id, sender, epoch, recipients of each post
    done,           \* posts whose caller has got an id back
    gone,           \* <<ship, post>> of every message file removed
    op              \* the operation that holds the bus lock

store == <<unseen, seen, tmp, dirs>>
board == <<beat, idle>>
sent == <<posts, idOf, from, at, rcpt>>
vars == <<store, seq, board, clock, sent, done, gone, op>>

Free == [kind |-> "free", by |-> Nobody, post |-> 0,
         rcpts |-> {}, todo |-> {}, live |-> {}]

Kind == {"free", "number", "write", "rename",       \* postAs
         "ack", "init", "prune", "purge"}

StoreOK ==
    /\ unseen \in [Ship -> SUBSET Post]
    /\ seen \in [Ship -> SUBSET Post]
    /\ tmp \in [Ship -> SUBSET Post]
    /\ dirs \in SUBSET Ship
    /\ gone \in SUBSET (Ship \X Post)

BoardOK ==
    /\ beat \in [Ship -> Time \cup {None}]
    /\ idle \in SUBSET Ship
    /\ clock \in Time

SentOK ==
    /\ seq \in 0 .. MaxPost
    /\ posts \in 0 .. MaxPost
    /\ idOf \in [Post -> 0 .. MaxPost]
    /\ from \in [Post -> Ship \cup {Nobody}]
    /\ at \in [Post -> Time]
    /\ rcpt \in [Post -> SUBSET Ship]
    /\ done \in SUBSET Post

OpOK ==
    /\ op \in [kind : Kind, by : Ship \cup {Nobody}, post : 0 .. MaxPost,
              rcpts : SUBSET Ship, todo : SUBSET (Ship \X Post),
              live : SUBSET Ship]
    /\ op.kind # "free" => op.by \in Ship

TypeOK == StoreOK /\ BoardOK /\ SentOK /\ OpOK

Init ==
    /\ unseen = [s \in Ship |-> {}]
    /\ seen = [s \in Ship |-> {}]
    /\ tmp = [s \in Ship |-> {}]
    /\ dirs = {}
    /\ seq = 0
    /\ beat = [s \in Ship |-> None]
    /\ idle = {}
    /\ clock = 0
    /\ posts = 0
    /\ idOf = [p \in Post |-> 0]
    /\ from = [p \in Post |-> Nobody]
    /\ at = [p \in Post |-> 0]
    /\ rcpt = [p \in Post |-> {}]
    /\ done = {}
    /\ gone = {}
    /\ op = Free

-----------------------------------------------------------------------------
(* What the operations look at. *)

Files(s) == unseen[s] \cup seen[s]

\* The ids highestMsgID sees: temp files do not end in ".json".
Ids == {idOf[p] : p \in UNION {Files(s) : s \in Ship}}

\* acked: there is a file of that id in the ship's seen/.
Acked(p, s) == \E q \in seen[s] : idOf[q] = idOf[p]

\* A file of post p is put into a directory with the files d.
Put(p, d) == {q \in d : idOf[q] # idOf[p]} \cup {p}

\* stale, for a heartbeat and for a message (whose state is "").
FreshBeat(s) ==
    beat[s] # None /\ (s \in idle \/ clock - beat[s] < TTL)
OldMessage(p) == clock - at[p] >= TTL

Live == {s \in Ship : FreshBeat(s)}

\* knownShips: message directories and status files.
KnownShips == dirs \cup {s \in Ship : beat[s] # None}

-----------------------------------------------------------------------------
(***************************************************************************)
(* postAs.  The counter is read, floored at the highest id in the store,   *)
(* and written back with os.WriteFile, which truncates the file first.     *)
(***************************************************************************)
PostAs(s, id) ==
    /\ op = Free
    /\ posts < MaxPost
    /\ posts' = posts + 1
    /\ idOf' = [idOf EXCEPT ![posts + 1] = id]
    /\ from' = [from EXCEPT ![posts + 1] = s]
    /\ at' = [at EXCEPT ![posts + 1] = clock]
    /\ seq' = 0
    /\ op' = [Free EXCEPT !.kind = "number", !.by = s, !.post = posts + 1]
    /\ UNCHANGED <<store, board, clock, rcpt, done, gone>>

\* nextID: the number is one above .seq and above every id in the store.
NextId(id) ==
    /\ seq < id
    /\ \A i \in Ids : i < id
    /\ id = seq + 1 \/ id - 1 \in Ids

\* Variants named <operation>_<slip> are faulty on purpose and used nowhere.
PostBegin_NotFloored(s) == PostAs(s, seq + 1)

PostBegin(s) == \E id \in Id : NextId(id) /\ PostAs(s, id)

\* Recipients of a directive (one ship, known or not) or of a broadcast
\* (every known ship and the sender).
Recipients(r) ==
    \/ \E t \in Ship : r = {t}
    \/ r = KnownShips \cup {op.by}

WriteSeq(r) ==
    /\ op.kind = "number"
    /\ Recipients(r)
    /\ seq' = idOf[op.post]
    /\ rcpt' = [rcpt EXCEPT ![op.post] = r]
    /\ op' = [op EXCEPT !.kind = "write", !.rcpts = r]
    /\ UNCHANGED <<store, board, clock, posts, idOf, from, at, done, gone>>

\* One temp file per recipient; mfile creates the directory.
WriteTemp(s) ==
    /\ op.kind = "write"
    /\ s \in op.rcpts
    /\ tmp' = [tmp EXCEPT ![s] = @ \cup {op.post}]
    /\ dirs' = dirs \cup {s}
    /\ op' = IF op.rcpts = {s}
             THEN [op EXCEPT !.kind = "rename", !.rcpts = rcpt[op.post]]
             ELSE [op EXCEPT !.rcpts = @ \ {s}]
    /\ UNCHANGED <<unseen, seen, seq, board, clock, sent, done, gone>>

Rename_ReportsEarly(s) ==
    /\ op.kind = "rename"
    /\ s \in op.rcpts
    /\ tmp' = [tmp EXCEPT ![s] = @ \ {op.post}]
    /\ unseen' = [unseen EXCEPT ![s] = Put(op.post, @)]
    /\ done' = done \cup {op.post}
    /\ op' = IF op.rcpts = {s} THEN Free ELSE [op EXCEPT !.rcpts = @ \ {s}]
    /\ UNCHANGED <<seen, dirs, seq, board, clock, sent, gone>>

\* Then one rename per recipient; after the last, the id is returned.
Rename(s) ==
    /\ op.kind = "rename"
    /\ s \in op.rcpts
    /\ tmp' = [tmp EXCEPT ![s] = @ \ {op.post}]
    /\ unseen' = [unseen EXCEPT ![s] = Put(op.post, @)]
    /\ IF op.rcpts = {s}
       THEN op' = Free /\ done' = done \cup {op.post}
       ELSE op' = [op EXCEPT !.rcpts = @ \ {s}] /\ UNCHANGED done
    /\ UNCHANGED <<seen, dirs, seq, board, clock, sent, gone>>

\* A temp file cannot be written: those already complete are removed, the
\* one that failed may be left half written.
WriteTempFails(s, left) ==
    /\ IOErrors
    /\ op.kind = "write"
    /\ s \in op.rcpts
    /\ tmp' = [t \in Ship |-> IF t = s /\ left
                              THEN tmp[t] \cup {op.post}
                              ELSE tmp[t] \ {op.post}]
    /\ dirs' = dirs \cup {s}
    /\ op' = Free
    /\ UNCHANGED <<unseen, seen, seq, board, clock, sent, done, gone>>

\* A rename fails: the temp files are removed, what was renamed stays.
RenameFails ==
    /\ IOErrors
    /\ op.kind = "rename"
    /\ tmp' = [t \in Ship |-> tmp[t] \ {op.post}]
    /\ op' = Free
    /\ UNCHANGED <<unseen, seen, dirs, seq, board, clock, sent, done, gone>>

-----------------------------------------------------------------------------
(***************************************************************************)
(* ackMessage: one rename from unseen/ to seen/.  Under DoAck, DoReply     *)
(* and AskAndWait it is the whole change; DoInit repeats it.               *)
(***************************************************************************)
MoveToSeen_Deletes(s, p) ==
    /\ unseen' = [unseen EXCEPT ![s] = @ \ {p}]
    /\ UNCHANGED seen

MoveToSeen(s, p) ==
    /\ unseen' = [unseen EXCEPT ![s] = @ \ {p}]
    /\ seen' = [seen EXCEPT ![s] = Put(p, @)]

Ack(s, p) ==
    /\ op = Free
    /\ p \in unseen[s]
    /\ MoveToSeen(s, p)
    /\ UNCHANGED <<tmp, dirs, seq, board, clock, sent, done, gone, op>>

\* An ack of an id the ship has no copy of fails, but mfileSeen has made the
\* ship's directory, and a broadcast goes to every directory.
AckMissing(s) ==
    /\ op = Free
    /\ dirs' = dirs \cup {s}
    /\ UNCHANGED <<unseen, seen, tmp, seq, board, clock, sent, done, gone, op>>

(***************************************************************************)
(* DoPrune, DoInit and DoPurgeOld first drop or skip the stale heartbeats, *)
(* fix who is live, list the message files, newest id first, and go        *)
(* through the list: each file is removed or kept by what the code finds   *)
(* when it gets there.                                                     *)
(***************************************************************************)
DropStaleBeats ==
    /\ beat' = [s \in Ship |-> IF FreshBeat(s) THEN beat[s] ELSE None]
    /\ idle' = idle \cap Live

AllFiles == {x \in Ship \X Post : x[2] \in Files(x[1])}

Spent_TargetIgnored(x) ==
    CASE op.kind = "init" ->
            OldMessage(x[2]) /\ \A s \in op.live : Acked(x[2], s)
      [] op.kind = "prune" ->
            OldMessage(x[2]) /\ \E s \in op.live : Acked(x[2], s)
      [] OTHER -> TRUE

\* DoInit removes an old message when every live ship has an acked copy,
\* DoPrune keeps it only while its target is live and has not acked it, and
\* DoPurgeOld has made its choice.
Spent(x) ==
    CASE op.kind = "init" ->
            OldMessage(x[2]) /\ \A s \in op.live : Acked(x[2], s)
      [] op.kind = "prune" ->
            OldMessage(x[2]) /\ ~(x[1] \in op.live /\ ~Acked(x[2], x[1]))
      [] OTHER -> TRUE

\* The listing is sorted by id, newest first.
Newest(x) == x \in op.todo /\ \A y \in op.todo : idOf[y[2]] <= idOf[x[2]]

\* DoPurgeOld removes messages from dead ships or to dead ships, of any age
\* with --all or without --older-than (cutoff 0), and with each of them the
\* seen/ files of that id everywhere.
FromOrToDead(s, cutoff) ==
    LET dead(x) ==
            /\ x[2] \in Files(x[1])
            /\ x[1] \notin Live \/ from[x[2]] \notin Live \cup {s}
            /\ cutoff = 0 \/ at[x[2]] < cutoff
        chosen == {x \in Ship \X Post : dead(x)}
    IN  chosen \cup
        {y \in Ship \X Post :
            /\ y[2] \in seen[y[1]]
            /\ \E x \in chosen : idOf[x[2]] = idOf[y[2]]}

PruneBegin(s) ==
    /\ op = Free
    /\ DropStaleBeats
    /\ op' = [Free EXCEPT !.kind = "prune", !.by = s,
                          !.todo = AllFiles, !.live = Live]
    /\ UNCHANGED <<store, seq, clock, sent, done, gone>>

PurgeBegin(s, cutoff) ==
    /\ op = Free
    /\ op' = [Free EXCEPT !.kind = "purge", !.by = s,
                          !.todo = FromOrToDead(s, cutoff), !.live = Live]
    /\ UNCHANGED <<store, seq, board, clock, sent, done, gone>>

InitBegin(s) ==
    /\ op = Free
    /\ op' = [Free EXCEPT !.kind = "ack", !.by = s,
                          !.todo = {s} \X {p \in unseen[s] : ~Acked(p, s)}]
    /\ UNCHANGED <<store, seq, board, clock, sent, done, gone>>

InitAck(p) ==
    /\ op.kind = "ack"
    /\ Newest(<<op.by, p>>)
    /\ MoveToSeen(op.by, p)
    /\ op' = [op EXCEPT !.todo = @ \ {<<op.by, p>>}]
    /\ UNCHANGED <<tmp, dirs, seq, board, clock, sent, done, gone>>

InitPrune ==
    /\ op.kind = "ack"
    /\ op.todo = {}
    /\ DropStaleBeats
    /\ op' = [op EXCEPT !.kind = "init", !.todo = AllFiles, !.live = Live]
    /\ UNCHANGED <<store, seq, clock, sent, done, gone>>

\* removeMsgCopies, and the os.Remove calls of DoPurgeOld.
Remove(x) ==
    /\ op.kind \in {"init", "prune", "purge"}
    /\ Newest(x)
    /\ Spent(x)
    /\ unseen' = [unseen EXCEPT ![x[1]] = @ \ {x[2]}]
    /\ seen' = [seen EXCEPT ![x[1]] = @ \ {x[2]}]
    /\ gone' = gone \cup {x}
    /\ op' = [op EXCEPT !.todo = @ \ {x}]
    /\ UNCHANGED <<tmp, dirs, seq, board, clock, sent, done>>

Keep(x) ==
    /\ op.kind \in {"init", "prune", "purge"}
    /\ Newest(x)
    /\ ~Spent(x)
    /\ op' = [op EXCEPT !.todo = @ \ {x}]
    /\ UNCHANGED <<store, seq, board, clock, sent, done, gone>>

\* DoInit ends by reporting the ship as idle.
InitEnd ==
    /\ op.kind = "init"
    /\ op.todo = {}
    /\ beat' = [beat EXCEPT ![op.by] = clock]
    /\ idle' = idle \cup {op.by}
    /\ op' = Free
    /\ UNCHANGED <<store, seq, clock, sent, done, gone>>

RemoveEnd ==
    /\ op.kind \in {"prune", "purge"}
    /\ op.todo = {}
    /\ op' = Free
    /\ UNCHANGED <<store, seq, board, clock, sent, done, gone>>

-----------------------------------------------------------------------------
(* The board, as far as the store depends on it (module StatusFile has the *)
(* rest), the clock, and the death of the lock's holder.                   *)

\* DoStatus: a new state and a new epoch.
Status(s, isIdle) ==
    /\ op = Free
    /\ beat' = [beat EXCEPT ![s] = clock]
    /\ idle' = IF isIdle THEN idle \cup {s} ELSE idle \ {s}
    /\ UNCHANGED <<store, seq, clock, sent, done, gone, op>>

\* DoTouch: a new epoch for a status file that exists.
Touch(s) ==
    /\ op = Free
    /\ beat[s] # None
    /\ beat' = [beat EXCEPT ![s] = clock]
    /\ UNCHANGED <<store, seq, idle, clock, sent, done, gone, op>>

\* DoClear, DoExit, and health update --delete.
Clear(s) ==
    /\ op = Free
    /\ beat' = [beat EXCEPT ![s] = None]
    /\ idle' = idle \ {s}
    /\ UNCHANGED <<store, seq, clock, sent, done, gone, op>>

\* DoHealthUpdate takes no lock.  It keeps the epoch of a file that exists
\* and gives a new one the current time.
HealthUpdate(s, isIdle) ==
    /\ beat' = [beat EXCEPT ![s] = IF @ = None THEN clock ELSE @]
    /\ idle' = IF isIdle THEN idle \cup {s} ELSE idle \ {s}
    /\ UNCHANGED <<store, seq, clock, sent, done, gone, op>>

Tick ==
    /\ clock < MaxTime
    /\ clock' = clock + 1
    /\ UNCHANGED <<store, seq, board, sent, done, gone, op>>

\* "If it is lost or reset while the message files survive": the counter
\* file is untracked and can be deleted or restored empty.
LoseSeq ==
    /\ op = Free
    /\ seq # 0
    /\ seq' = 0
    /\ UNCHANGED <<store, board, clock, sent, done, gone, op>>

Crash ==
    /\ op # Free
    /\ op' = Free
    /\ UNCHANGED <<store, seq, board, clock, sent, done, gone>>

PostStep ==
    \/ \E r \in SUBSET Ship : WriteSeq(r)
    \/ \E s \in Ship : WriteTemp(s) \/ Rename(s)
    \/ \E s \in Ship, left \in BOOLEAN : WriteTempFails(s, left)
    \/ RenameFails

CleanStep ==
    \/ \E p \in Post : InitAck(p)
    \/ InitPrune
    \/ \E x \in Ship \X Post : Remove(x) \/ Keep(x)
    \/ InitEnd
    \/ RemoveEnd

BoardStep ==
    \E s \in Ship :
        \/ Touch(s) \/ Clear(s)
        \/ \E isIdle \in Idleness : Status(s, isIdle) \/ HealthUpdate(s, isIdle)

Begin ==
    \E s \in Ship :
        \/ PostBegin(s)
        \/ PruneBegin(s)
        \/ InitBegin(s)
        \/ AckMissing(s)
        \/ \E cutoff \in Time : PurgeBegin(s, cutoff)
        \/ \E p \in Post : Ack(s, p)

Next == Begin \/ PostStep \/ CleanStep \/ BoardStep \/ Tick \/ LoseSeq \/ Crash

Spec == Init /\ [][Next]_vars

-----------------------------------------------------------------------------
\* nextID: whatever crashed and whatever was pruned, two message files of
\* the same id anywhere in the store are copies of one message.
IdNamesOneMessage ==
    \A s, t \in Ship : \A p \in Files(s), q \in Files(t) :
        idOf[p] = idOf[q] => p = q

\* postAs: when the caller has its id, every recipient has its copy, read or
\* unread, unless a later operation has removed it.
PostReaches ==
    \A p \in done : \A s \in rcpt[p] : p \in Files(s) \/ <<s, p>> \in gone

\* DoPrune, DoInit and DoPurgeOld: what a ship has not read is removed only
\* if it was not live when the operation looked, or by a purge because the
\* sender was not.
UnreadIsKept ==
    [][\A s \in Ship : \A p \in unseen[s] :
           p \notin unseen'[s] \cup seen'[s] =>
               \/ s \notin op.live
               \/ op.kind = "purge" /\ from[p] \notin op.live]_vars

\* The store implements Mailbox.
box == [c \in Ship \X Post |->
            CASE c[2] \in unseen[c[1]] -> "unread"
              [] c[2] \in seen[c[1]] -> "read"
              [] c \in gone -> "removed"
              [] OTHER -> "none"]

Boxes == INSTANCE Mailbox

MailboxSpec == Boxes!Spec
=============================================================================
