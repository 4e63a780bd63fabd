------------------------------- MODULE Flock -------------------------------
(***************************************************************************)
(* One advisory lock file, as internal/flock and internal/withclonelock    *)
(* use it.  The kernel's exclusive flock(2) and the content of the file    *)
(* are two pieces of state with separate lives: the lock vanishes with the *)
(* process that holds it, the content stays until somebody truncates it.   *)
(*                                                                         *)
(* Three kinds of process share a lock file:                               *)
(*   Labelled   Lock(path, Options{HolderLabel: ...}) of flock.go, used by *)
(*              wscommit, sop and dashboard on <gitdir>/mpbt-clone.lock;   *)
(*   Wrapper    with-clone-lock, on the same file, with a loop of its own: *)
(*              it runs a child command and never clears the file;         *)
(*   the others Lock without a label (comms, prclaim, shipnames).          *)
(*                                                                         *)
(* A process that died stays dead: its successor is another pid, hence     *)
(* another member of Proc.                                                 *)
(***************************************************************************)
CONSTANTS
    Proc,       \* processes
    Labelled,   \* those that pass a HolderLabel to flock.Lock
    Wrapper,    \* those that are with-clone-lock
    Timed,      \* those with a positive timeout (the others poll for ever)
    Nobody      \* the owner of a free lock, the content of an empty file

ASSUME KindAssumption ==
    /\ Labelled \subseteq Proc
    /\ Wrapper \subseteq Proc
    /\ Labelled \cap Wrapper = {}
    /\ Timed \subseteq Proc
    /\ Nobody \notin Proc

VARIABLES
    pc,         \* where each process is in Lock / Close / Run
    owner,      \* the process the kernel has given LOCK_EX to
    file,       \* the process the content of the lock file names
    expired,    \* whether a waiter's deadline has passed
    report,     \* the holder a waiter that timed out has named
    child       \* wrappers whose command is running

vars == <<pc, owner, file, expired, report, child>>

\* A process in one of these holds the kernel lock.
Holding == {"locked", "labelling", "held"}

PC == {"idle", "trying", "givingup", "unlocked", "dead"} \cup Holding

\* What Lock writes into the file on behalf of the process.
Names(p) == p \in Labelled \cup Wrapper

TypeOK ==
    /\ pc \in [Proc -> PC]
    /\ owner \in Proc \cup {Nobody}
    /\ file \in Proc \cup {Nobody}
    /\ expired \in [Proc -> BOOLEAN]
    /\ report \in [Proc -> Proc \cup {Nobody}]
    /\ child \in SUBSET Wrapper

Init ==
    /\ pc = [p \in Proc |-> "idle"]
    /\ owner = Nobody
    /\ file = Nobody
    /\ expired = [p \in Proc |-> FALSE]
    /\ report = [p \in Proc |-> Nobody]
    /\ child = {}

Goto(p, from, to) == pc[p] = from /\ pc' = [pc EXCEPT ![p] = to]

(***************************************************************************)
(* Lock                                                                    *)
(***************************************************************************)
\* os.OpenFile(path, O_CREATE|O_RDWR) and the deadline.
Open(p) ==
    /\ Goto(p, "idle", "trying")
    /\ expired' = [expired EXCEPT ![p] = FALSE]
    /\ report' = [report EXCEPT ![p] = Nobody]
    /\ UNCHANGED <<owner, file, child>>

\* Variants named <action>_<slip> are faulty on purpose: the slip a change of
\* the code could make.  They occur in no specification.
Acquire_ErrorIgnored(p) ==
    /\ Goto(p, "trying", IF Names(p) THEN "locked" ELSE "held")
    /\ owner' = p
    /\ UNCHANGED <<file, expired, report, child>>

\* LOCK_EX|LOCK_NB succeeds.  It may do so after the deadline: each turn of
\* the loop tries before it looks at the clock.
Acquire(p) ==
    /\ owner = Nobody
    /\ Goto(p, "trying", IF Names(p) THEN "locked" ELSE "held")
    /\ owner' = p
    /\ UNCHANGED <<file, expired, report, child>>

\* Timeout elapses while the process polls.
Expire(p) ==
    /\ p \in Timed
    /\ pc[p] = "trying"
    /\ ~expired[p]
    /\ expired' = [expired EXCEPT ![p] = TRUE]
    /\ UNCHANGED <<pc, owner, file, report, child>>

\* An attempt fails and finds the deadline passed.
GiveUp(p) ==
    /\ owner # Nobody
    /\ expired[p]
    /\ Goto(p, "trying", "givingup")
    /\ UNCHANGED <<owner, file, expired, report, child>>

\* os.ReadFile(path): the error names whoever the file names.
ReportHolder(p) ==
    /\ Goto(p, "givingup", "idle")
    /\ report' = [report EXCEPT ![p] = file]
    /\ UNCHANGED <<owner, file, expired, child>>

\* f.Truncate(0) before the label is written.
TruncateForLabel(p) ==
    /\ Goto(p, "locked", "labelling")
    /\ file' = Nobody
    /\ UNCHANGED <<owner, expired, report, child>>

\* f.WriteAt(holder, 0); with-clone-lock then starts its command.
WriteLabel(p) ==
    /\ Goto(p, "labelling", "held")
    /\ file' = p
    /\ child' = IF p \in Wrapper THEN child \cup {p} ELSE child
    /\ UNCHANGED <<owner, expired, report>>

(***************************************************************************)
(* Close                                                                   *)
(***************************************************************************)
\* flock(LOCK_UN) comes first ...
Unlock(p) ==
    /\ p \notin Wrapper
    /\ Goto(p, "held", "unlocked")
    /\ owner' = Nobody
    /\ UNCHANGED <<file, expired, report, child>>

\* ... and f.Truncate(0) second, label or no label.
TruncateOnClose(p) ==
    /\ Goto(p, "unlocked", "idle")
    /\ file' = Nobody
    /\ UNCHANGED <<owner, expired, report, child>>

(***************************************************************************)
(* with-clone-lock: the command ends, then the process exits and the       *)
(* kernel drops the lock.  The label stays in the file.                    *)
(***************************************************************************)
ChildExit(p) ==
    /\ p \in child
    /\ child' = child \ {p}
    /\ UNCHANGED <<pc, owner, file, expired, report>>

WrapperExit(p) ==
    /\ p \in Wrapper
    /\ p \notin child
    /\ Goto(p, "held", "idle")
    /\ owner' = Nobody
    /\ UNCHANGED <<file, expired, report, child>>

(***************************************************************************)
(* The process is killed.  Its descriptors close, so a lock it held is     *)
(* free; the file keeps its content.  A wrapped command is another process *)
(* (exec.Cmd without Pdeathsig, its copy of the descriptor closed on exec) *)
(* and goes on running.                                                    *)
(***************************************************************************)
Crash(p) ==
    /\ pc[p] # "dead"
    /\ pc' = [pc EXCEPT ![p] = "dead"]
    /\ owner' = IF owner = p THEN Nobody ELSE owner
    /\ UNCHANGED <<file, expired, report, child>>

LockStep(p) ==
    \/ Acquire(p) \/ GiveUp(p) \/ ReportHolder(p)
    \/ TruncateForLabel(p) \/ WriteLabel(p)

CloseStep(p) ==
    Unlock(p) \/ TruncateOnClose(p) \/ ChildExit(p) \/ WrapperExit(p)

Next ==
    \E p \in Proc :
        Open(p) \/ LockStep(p) \/ Expire(p) \/ CloseStep(p) \/ Crash(p)

Spec == Init /\ [][Next]_vars

-----------------------------------------------------------------------------
\* flock.go, Lock: two processes are never past the loop at the same time,
\* whoever crashed, timed out or is still truncating the file.
MutualExclusion ==
    \A p, q \in Proc : pc[p] \in Holding /\ pc[q] \in Holding => p = q

\* flock.go, Lock / Close / a crash: the process the kernel has given the
\* lock to is the one past the loop (the inductive form of the above).
OwnerHolds ==
    \A p \in Proc : pc[p] \in Holding <=> owner = p

\* flock.go, Lock / Close: the label of a process inside its section may be
\* missing (the previous holder truncates late) but is never another's.
NoForeignLabel ==
    \A p \in Proc : pc[p] = "held" /\ Names(p) => file \in {p, Nobody}

\* The lock implements one-at-a-time critical sections.
Inside == {p \in Proc : pc[p] \in Holding}

Section == INSTANCE ExclusiveSection WITH inside <- Inside

SectionSpec == Section!Spec
=============================================================================
