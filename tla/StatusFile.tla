----------------------------- MODULE StatusFile -----------------------------
(***************************************************************************)
(* The status file of one ship, status/<ship>.json: its heartbeat, its     *)
(* state and its task.  It is rewritten by separate processes (the         *)
(* plugin's dispatch calls, commands the ship runs, a prune by another     *)
(* ship), each of which reads the whole record, changes some fields and    *)
(* writes all of it back with os.WriteFile, which truncates first.         *)
(*                                                                         *)
(* All take the bus lock (module Flock), except DoHealthUpdate.  Names are *)
(* such that a module can extend CommsBus and this one.                    *)
(***************************************************************************)
EXTENDS Integers

CONSTANTS
    Proc,       \* processes that work on the file
    NoProc,     \* the owner of a free lock
    Task,       \* task names
    NoTask,     \* an empty task field
    BusTTL,     \* in the clock's unit
    MaxNow      \* bound: how far the clock runs

StatusAssumption ==
    /\ NoProc \notin Proc
    /\ NoTask \notin Task
    /\ BusTTL \in Nat
    /\ MaxNow \in Nat

VARIABLES
    file,       \* the file's content
    writer,     \* ghost: whether its last change was made under the lock
    lock,       \* the process that holds the bus lock
    call,       \* what each process is doing
    unlinked,   \* processes that have a file open which was removed
    now

statusVars == <<file, writer, lock, call, unlinked, now>>

Epoch == 0 .. MaxNow
State == {"idle", "working", "blocked", "offline"}

Record == [epoch : Epoch, state : State, task : Task \cup {NoTask}]

\* What parseStatusFile finds: nothing, an empty file, or a record.
Absent == [epoch |-> -1, state |-> "absent", task |-> NoTask]
Torn == [epoch |-> -1, state |-> "torn", task |-> NoTask]
Content == Record \cup {Absent, Torn}

\* "exit" calls DoHealthUpdate under its lock; "health" is any other call.
Locked == {"status", "touch", "clear", "exit", "init", "prune"}
CallKind == Locked \cup {"health", "delete"}

\* The field of a record that a call leaves as it is.
Same == "same"

PC == {"idle", "lock", "read", "truncate", "write", "remove", "unlock"}

Idle == [pc |-> "idle", kind |-> "health", prev |-> Absent, state |-> Same,
         task |-> NoTask, touch |-> FALSE]

Op == [pc : PC, kind : CallKind, prev : Content, state : State \cup {Same},
       task : Task \cup {NoTask}, touch : BOOLEAN]

StatusTypeOK ==
    /\ file \in Content
    /\ writer \in {"locked", "unlocked"}
    /\ lock \in Proc \cup {NoProc}
    /\ call \in [Proc -> Op]
    /\ unlinked \subseteq Proc
    /\ now \in Epoch

StatusInit ==
    /\ file = Absent
    /\ writer = "locked"
    /\ lock = NoProc
    /\ call = [p \in Proc |-> Idle]
    /\ unlinked = {}
    /\ now = 0

\* stale: an idle ship never is.
Stale(r) == r.state # "idle" /\ now - r.epoch >= BusTTL

At(p, pc) == call[p].pc = pc
Goto(p, pc) == call' = [call EXCEPT ![p].pc = pc]

\* What is left to do needs nothing of what was read or asked for.
Finish(p, pc) ==
    call' = [call EXCEPT ![p] = [Idle EXCEPT !.pc = pc, !.kind = call[p].kind]]

\* The lock is given up by Unlock; the others are done.
End(p) ==
    IF call[p].kind \in Locked THEN Finish(p, "unlock")
                               ELSE call' = [call EXCEPT ![p] = Idle]

Change(p, content) ==
    /\ file' = content
    /\ writer' = IF lock = p THEN "locked" ELSE "unlocked"

-----------------------------------------------------------------------------
(* Calls.                                                                  *)

Enter(p, kind, pc, state, task, touch) ==
    /\ At(p, "idle")
    /\ call' = [call EXCEPT ![p] = [Idle EXCEPT !.pc = pc, !.kind = kind,
                                 !.state = state, !.task = task,
                                 !.touch = touch]]
    /\ UNCHANGED <<file, writer, lock, unlinked, now>>

\* DoStatus, with or without a task.
DoStatus(p) ==
    \E state \in {"idle", "working"}, task \in Task \cup {NoTask} :
        Enter(p, "status", "lock", state, task, FALSE)

\* Variants named <operation>_<slip> are faulty on purpose and used nowhere.
DoTouch_Unlocked(p) == Enter(p, "touch", "read", Same, NoTask, FALSE)

DoTouch(p) == Enter(p, "touch", "lock", Same, NoTask, FALSE)

DoPrune_Unlocked(p) == Enter(p, "prune", "read", Same, NoTask, FALSE)

\* DoClear, and one status file in the DoPrune of another ship.
DoClear(p) == Enter(p, "clear", "lock", Same, NoTask, FALSE)
DoPrune(p) == Enter(p, "prune", "lock", Same, NoTask, FALSE)

\* DoInit writes a new record and does not read the old one.
DoInit(p) == Enter(p, "init", "lock", "idle", NoTask, FALSE)

\* DoExit: DoHealthUpdate(--state offline) and the removal of the file.
DoExit(p) == Enter(p, "exit", "lock", "offline", NoTask, FALSE)

\* DoHealthUpdate, from dispatchHealth, dispatchError and the command line:
\* --reset removes the file before it is read.
DoHealthUpdate(p) ==
    \E state \in {Same, "working", "blocked"}, task \in Task \cup {NoTask},
       touch \in BOOLEAN, pc \in {"read", "remove"} :
        Enter(p, "health", pc, state, task, touch)

\* DoHealthUpdate --delete.
Delete(p) == Enter(p, "delete", "remove", Same, NoTask, FALSE)

-----------------------------------------------------------------------------
(* Their steps.                                                            *)

Lock(p) ==
    /\ At(p, "lock")
    /\ lock = NoProc
    /\ lock' = p
    /\ Goto(p, CASE call[p].kind = "init" -> "truncate"
                 [] call[p].kind = "clear" -> "remove"
                 [] OTHER -> "read")
    /\ UNCHANGED <<file, writer, unlinked, now>>

\* DoTouch leaves a file alone that it cannot parse, and DoPrune one that is
\* not stale.
Read(p) ==
    /\ At(p, "read")
    /\ CASE call[p].kind = "touch" /\ file \in {Absent, Torn} ->
               Finish(p, "unlock")
         [] call[p].kind = "prune" ->
               Finish(p, IF file \in Record /\ Stale(file)
                         THEN "remove" ELSE "unlock")
         [] OTHER ->
               call' = [call EXCEPT ![p].prev = file, ![p].pc = "truncate"]
    /\ UNCHANGED <<file, writer, lock, unlinked, now>>

Truncate(p) ==
    /\ At(p, "truncate")
    /\ Change(p, Torn)
    /\ Goto(p, "write")
    /\ UNCHANGED <<lock, unlinked, now>>

Beats == {"status", "touch", "init"}    \* those that give a new epoch

\* A record that could not be read counts as one with empty fields.
Merged(p) ==
    LET o == call[p]
        was == o.prev \in Record
    IN  [epoch |-> IF o.kind \in Beats \/ ~was THEN now ELSE o.prev.epoch,
         state |-> IF o.state # Same THEN o.state
                   ELSE IF was THEN o.prev.state ELSE "idle",
         task |-> IF o.task # NoTask THEN o.task ELSE o.prev.task]

\* What was truncated and written by others meanwhile may be longer and leave
\* its end behind; a file that was removed is written in vain.
Overwrite(p, record) ==
    IF p \in unlinked
    THEN UNCHANGED <<file, writer>>
    ELSE Change(p, record) \/ (file # Torn /\ Change(p, Torn))

\* --touch makes DoTouch follow, which waits for the lock.
Write(p) ==
    /\ At(p, "write")
    /\ Overwrite(p, Merged(p))
    /\ unlinked' = unlinked \ {p}
    /\ IF call[p].touch
       THEN call' = [call EXCEPT ![p] = [Idle EXCEPT !.pc = "lock",
                                                !.kind = "touch"]]
       ELSE IF call[p].kind = "exit" THEN Finish(p, "remove") ELSE End(p)
    /\ UNCHANGED <<lock, now>>

Unlink(p) ==
    /\ At(p, "remove")
    /\ Change(p, Absent)
    /\ unlinked' = unlinked \cup {q \in Proc : At(q, "write")}
    /\ IF call[p].kind = "health" THEN Goto(p, "read") ELSE End(p)
    /\ UNCHANGED <<lock, now>>

Unlock(p) ==
    /\ At(p, "unlock")
    /\ lock' = NoProc
    /\ call' = [call EXCEPT ![p] = Idle]
    /\ UNCHANGED <<file, writer, unlinked, now>>

Die(p) ==
    /\ ~At(p, "idle")
    /\ lock' = IF lock = p THEN NoProc ELSE lock
    /\ call' = [call EXCEPT ![p] = Idle]
    /\ unlinked' = unlinked \ {p}
    /\ UNCHANGED <<file, writer, now>>

PassTime ==
    /\ now < MaxNow
    /\ now' = now + 1
    /\ UNCHANGED <<file, writer, lock, call, unlinked>>

Call(p) ==
    \/ DoStatus(p) \/ DoTouch(p) \/ DoClear(p) \/ DoPrune(p)
    \/ DoInit(p) \/ DoExit(p) \/ DoHealthUpdate(p) \/ Delete(p)

Step(p) ==
    Lock(p) \/ Read(p) \/ Truncate(p) \/ Write(p) \/ Unlink(p) \/ Unlock(p)

StatusNext == PassTime \/ \E p \in Proc : Call(p) \/ Step(p) \/ Die(p)

StatusSpec == StatusInit /\ [][StatusNext]_statusVars

-----------------------------------------------------------------------------
\* DoTouch, "Race-safety": what an operation under the lock writes back is
\* what the file held, unless DoHealthUpdate has interfered.
LockedReadsLast ==
    \A p \in Proc :
        At(p, "truncate") /\ call[p].kind \in Locked \ {"init"} =>
            call[p].prev = file \/ writer = "unlocked"

\* DoTouch, DoPrune: a prune removes a heartbeat that is not stale only if
\* DoHealthUpdate has put it there after the prune had looked.
PruneIsRight ==
    \A p \in Proc :
        At(p, "remove") /\ call[p].kind = "prune" =>
            (file \in Record => Stale(file)) \/ writer = "unlocked"
=============================================================================
