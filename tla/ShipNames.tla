----------------------------- MODULE ShipNames ------------------------------
(***************************************************************************)
(* The registry of ship names.  A reservation is a file per name; only     *)
(* AssignName takes the lock of the registry, everybody else reads, writes *)
(* and removes the files as they like.  Whether a reserved name is in use  *)
(* the registry judges by the heartbeat of the ship on the board.          *)
(***************************************************************************)
EXTENDS Integers

CONSTANT Pool   \* number of names in the pool, which is tried in order

ASSUME PoolAssumption == Pool \in Nat \ {0}

VARIABLES
    resv,   \* "free", or who wrote the reservation: a daemon, which has no
            \* terminal, or a command of the terminal
    beat    \* the heartbeat of each name on the board, "stale" when it is
            \* older than its lifetime

registry == <<resv, beat>>

Name == 1..Pool

Writer == {"daemon", "terminal"}

Beat == {"none", "active", "idle", "crashed", "stale"}

\* "idle" never gets stale, whatever its age.
IsStale(b) == b = "stale"

Free_NoReclaim(n) == resv[n] = "free"

\* A name AssignName takes: not reserved, or its ship looks dead.
Free(n) == resv[n] = "free" \/ beat[n] = "none" \/ IsStale(beat[n])

\* ttyScan: what commands of this terminal have reserved and left; busy are
\* the names whose writer is still running.
Reclaimable(busy) == {n \in Name : resv[n] = "terminal" /\ n \notin busy}

WriteReservation(n, writer) == resv' = [resv EXCEPT ![n] = writer]

\* n is the name the registry gives to writer.
AssignName(n, writer, busy) ==
    LET mine == IF writer = "terminal" THEN Reclaimable(busy) ELSE {} IN
    IF mine # {} THEN n \in mine
    ELSE Free(n) /\ \A m \in 1..(n - 1) : ~Free(m)

\* An existing reservation is kept, whoever wrote it.
Reserve(n, writer) ==
    IF resv[n] = "free" THEN WriteReservation(n, writer) ELSE UNCHANGED resv

\* Anybody may release any name.
DoRelease(n) == resv' = [resv EXCEPT ![n] = "free"]

\* gc looks for heartbeats under a name nobody writes, and releases all.
DoGC == resv' = [n \in Name |-> "free"]

DoStatus(n, b) == beat' = [beat EXCEPT ![n] = b]

\* A heartbeat nobody renews outlives its time.
Age(n) ==
    /\ beat[n] \in {"active", "crashed"}
    /\ DoStatus(n, "stale")
    /\ UNCHANGED resv

RegistryInit == resv = [n \in Name |-> "free"] /\ beat = [n \in Name |-> "none"]

RegistryTypeOK ==
    /\ resv \in [Name -> Writer \cup {"free"}]
    /\ beat \in [Name -> Beat]
=============================================================================
