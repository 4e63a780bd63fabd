------------------------------ MODULE FileStore ------------------------------
(***************************************************************************)
(* The store of temporary files, var/files: under a base name there is a   *)
(* file and beside it, in <name>.meta, the time at which it expires.       *)
(* Commands and the web console put and remove files; "file prune" removes *)
(* those whose time is over.  Every file is written by os.WriteFile, which *)
(* truncates it first, and there is no lock.                               *)
(***************************************************************************)
EXTENDS Integers, FiniteSets

CONSTANTS
    Name,       \* base names
    Client,     \* commands, and requests of the web console
    Data,       \* contents
    Attached,   \* names that are attachments of messages
    Crews,      \* what the clients may do: sets of jobs
    MaxTTL,     \* the longest time to live that is asked for
    MaxTime,    \* bound: how far the clock runs
    Absent,     \* no such file
    Torn        \* truncated, or a mixture of two contents

\* An upload by the console has a name of its own: "stf-upload-" and the name.
Slot == [name : Name, upload : BOOLEAN]
Plain(n) == [name |-> n, upload |-> FALSE]

\* What stands in a meta file: the time and a newline.
Meta == [time : 0 .. MaxTime + MaxTTL, newline : {TRUE}]
Part == {"data", "meta", "temp"}

Verb == {"put", "upload", "remove", "prune"}
Job == [verb : Verb, name : Name, data : Data, ttl : 1 .. MaxTTL]

FileStoreAssumption ==
    /\ IsFiniteSet(Name) /\ Name # {} /\ Attached \subseteq Name
    /\ Crews \subseteq [Client -> SUBSET Job]
    /\ MaxTTL \in Nat \ {0} /\ MaxTime \in Nat
    /\ Absent \notin Data /\ Torn \notin Data

VARIABLES
    disk,       \* the three files of each slot; "temp" is that of an upload
    now,
    op,         \* what each client is doing
    left,       \* the jobs that each client has still to do
    kept,       \* ghost: what was stored last in each slot, if nobody got in between
    until       \* ghost: and its time

vars == <<disk, now, op, left, kept, until>>

Time == 0 .. MaxTime
Content == Data \cup {Absent, Torn}

PC == {"idle", "open", "write", "load", "check", "unlink", "discard", "done"}

\* todo: the entries that a prune has listed, at "seen"; gone: the file that it
\* has open was removed; alone (ghost): nobody else has worked on its slot.
Idle == [pc |-> "idle", verb |-> "prune", slot |-> Plain(CHOOSE n \in Name : TRUE),
         part |-> "data", data |-> Absent, ttl |-> 1, todo |-> {}, seen |-> 0,
         gone |-> FALSE, alone |-> TRUE]

TypeOK ==
    /\ disk \in [Slot -> [data : Content, temp : Content, meta : Meta \cup {Absent, Torn}]]
    /\ now \in Time
    /\ op \in [Client -> [pc : PC, verb : Verb, slot : Slot, part : Part, data : Content,
                          ttl : 1 .. MaxTTL, todo : SUBSET Slot, seen : Time,
                          gone : BOOLEAN, alone : BOOLEAN]]
    /\ left \in [Client -> SUBSET Job]
    /\ kept \in [Slot -> Content]
    /\ until \in [Slot -> 0 .. MaxTime + MaxTTL]

Init ==
    /\ disk = [s \in Slot |-> [data |-> Absent, temp |-> Absent, meta |-> Absent]]
    /\ now = 0
    /\ op = [c \in Client |-> Idle]
    /\ left \in Crews
    /\ kept = [s \in Slot |-> Absent]
    /\ until = [s \in Slot |-> 0]

At(c, pc) == op[c].pc = pc

\* writeMeta.
Stamp(t) == [time |-> t, newline |-> TRUE]

\* time.Parse takes no text behind the time, a newline neither.
Parsed(m) == IF m \in {Absent, Torn} \/ (m \notin {Absent, Torn} /\ m.newline) THEN Torn ELSE m.time

\* expired: without a time in the meta file a file never expires.
Expired(s, t) == LET m == Parsed(disk[s].meta) IN m # Torn /\ (m # Torn => t > m)

\* Exists.
Served(s) == disk[s].data # Absent /\ ~Expired(s, now)

\* Puts into a slot or removes from it.
Works(d, s) == ~At(d, "idle") /\ op[d].verb # "prune" /\ op[d].slot = s

Forget(s) == kept' = [kept EXCEPT ![s] = Absent] /\ UNCHANGED until

-----------------------------------------------------------------------------
\* file put, or a POST to /api/store/<name>: the console takes it only for a
\* name that is there, and writes it to a temporary file of a fixed name first.
Begin(c) ==
    \E j \in left[c] :
        LET s == [name |-> j.name, upload |-> j.verb = "upload"]
        Refused == j.verb = "upload" /\ ~Served(Plain(j.name)) /\ j.name \notin Attached
        start == CASE j.verb = "put" -> "open" [] j.verb = "upload" -> "open"
                   [] j.verb = "remove" -> "unlink" [] j.verb = "prune" -> "check"
        IN  /\ At(c, "idle")
            /\ left' = [left EXCEPT ![c] = @ \ {j}]
            /\ IF Refused
               THEN UNCHANGED <<op, kept, until>>
               ELSE /\ op' = [d \in Client |->
                        IF d # c THEN [op[d] EXCEPT !.alone = @ /\ (j.verb = "prune" \/ ~Works(d, s))]
                        ELSE [Idle EXCEPT
                                !.pc = start, !.verb = j.verb, !.slot = s, !.data = j.data,
                                !.part = IF j.verb = "upload" THEN "temp" ELSE "data",
                                !.ttl = j.ttl, !.seen = now,
                                !.alone = \A e \in Client \ {c} : ~Works(e, s),
                                !.todo = IF j.verb = "prune"
                                         THEN {x \in Slot : disk[x].data # Absent} ELSE {}]]
                    /\ IF j.verb = "prune" THEN UNCHANGED <<kept, until>> ELSE Forget(s)
            /\ UNCHANGED <<disk, now>>

\* os.WriteFile of the part at hand,
Open(c) ==
    /\ At(c, "open")
    /\ disk' = [disk EXCEPT ![op[c].slot][op[c].part] = Torn]
    /\ op' = [op EXCEPT ![c].pc = "write", ![c].gone = FALSE]
    /\ UNCHANGED <<now, left, kept, until>>

\* ... which another may have written or removed since.
Write(c) ==
    LET s == op[c].slot
        text == IF op[c].part = "meta" THEN Stamp(now + op[c].ttl) ELSE op[c].data
        next == CASE op[c].part = "temp" -> [pc |-> "load", part |-> "temp"]
                  [] op[c].part = "data" -> [pc |-> "open", part |-> "meta"]
                  [] op[c].part = "meta" -> [pc |-> IF op[c].verb = "upload" THEN "discard" ELSE "idle",
                                             part |-> "data"]
    IN  /\ At(c, "write")
        /\ IF op[c].gone THEN UNCHANGED disk
           ELSE \E x \in {text} \cup (IF disk[s][op[c].part] = Torn THEN {} ELSE {Torn}) :
                    disk' = [disk EXCEPT ![s][op[c].part] = x]
        /\ op' = [op EXCEPT ![c] = IF next.pc = "idle" THEN Idle
                                   ELSE [@ EXCEPT !.pc = next.pc, !.part = next.part]]
        /\ IF op[c].part = "meta" /\ op[c].alone
           THEN /\ kept' = [kept EXCEPT ![s] = op[c].data]
                /\ until' = [until EXCEPT ![s] = now + op[c].ttl]
           ELSE UNCHANGED <<kept, until>>
        /\ UNCHANGED <<now, left>>

\* Put reads the temporary file, which an upload of the same name may have
\* changed, and fails if it is gone.
Load(c) ==
    LET x == disk[op[c].slot].temp
    IN  /\ At(c, "load")
        /\ op' = [op EXCEPT ![c] = IF x = Absent THEN Idle
                                   ELSE [@ EXCEPT !.pc = "open", !.part = "data", !.data = x]]
        /\ UNCHANGED <<disk, now, left, kept, until>>

Unlink(c, s, part) ==
    /\ disk' = [disk EXCEPT ![s][part] = Absent]
    /\ op' = [d \in Client |->
                IF d # c THEN IF At(d, "write") /\ op[d].slot = s /\ op[d].part = part
                              THEN [op[d] EXCEPT !.gone = TRUE] ELSE op[d]
                ELSE IF part = "data" THEN [op[c] EXCEPT !.part = "meta", !.slot = s, !.pc = "unlink"]
                ELSE IF op[c].verb = "prune" THEN [op[c] EXCEPT !.part = "data", !.pc = "check"]
                ELSE Idle]

\* Remove, and what Prune does with an entry: the file, then its meta file.
Remove(c) ==
    /\ At(c, "unlink")
    /\ Unlink(c, op[c].slot, op[c].part)
    /\ UNCHANGED <<now, left, kept, until>>

\* The end of an upload (defer os.Remove).
Discard(c) ==
    /\ At(c, "discard")
    /\ Unlink(c, op[c].slot, "temp")
    /\ UNCHANGED <<now, left, kept, until>>

\* Prune, entry by entry: what had expired when it began goes.
Prune(c) ==
    /\ At(c, "check")
    /\ \/ /\ op[c].todo = {}
          /\ op' = [op EXCEPT ![c].pc = "done"]
          /\ UNCHANGED disk
       \/ \E s \in op[c].todo :
            /\ op' = [op EXCEPT ![c].todo = @ \ {s},
                                ![c].slot = IF Expired(s, op[c].seen) THEN s ELSE @,
                                ![c].pc = IF Expired(s, op[c].seen) THEN "unlink" ELSE "check"]
            /\ UNCHANGED disk
    /\ UNCHANGED <<now, left, kept, until>>

End(c) ==
    /\ At(c, "done")
    /\ op' = [op EXCEPT ![c] = Idle]
    /\ UNCHANGED <<disk, now, left, kept, until>>

Tick ==
    /\ now < MaxTime
    /\ now' = now + 1
    /\ UNCHANGED <<disk, op, left, kept, until>>

\* A killed command; what it had stored by then stays.
Die(c) ==
    /\ ~At(c, "idle")
    /\ op' = [op EXCEPT ![c] = Idle]
    /\ UNCHANGED <<disk, now, left, kept, until>>

Next ==
    \/ Tick
    \/ \E c \in Client :
        \/ Begin(c) \/ Open(c) \/ Write(c) \/ Load(c) \/ Remove(c) \/ Discard(c)
        \/ Prune(c) \/ End(c) \/ Die(c)

Spec == Init /\ [][Next]_vars

-----------------------------------------------------------------------------
\* filestore.go: "Prune removes all expired files": of those that had expired
\* when it began, and that nobody has touched, none is there when it ends.
ExpiredIsPruned ==
    \A c \in Client : \A s \in Slot :
        At(c, "done") /\ kept[s] # Absent /\ until[s] < op[c].seen => disk[s].data = Absent
=============================================================================
