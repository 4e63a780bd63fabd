------------------------------- MODULE Timers -------------------------------
(***************************************************************************)
(* The timers of a workspace: one JSON file each, in var/timers            *)
(* (ephemeral) or conf/timers (persistent).  The worker daemon lists both  *)
(* directories on every poll, fires what is due and then moves the timer   *)
(* on or deletes it; commands and the web console create, cancel, pause,   *)
(* resume and trigger timers meanwhile.  There is no lock: whoever changes *)
(* a timer writes back the whole record it has read before.                *)
(*                                                                         *)
(* There is one worker here: that two may be started is left out.          *)
(***************************************************************************)
EXTENDS Integers

CONSTANTS
    Client,     \* processes that change timers
    Worker,     \* the daemon
    Id,         \* timer names
    Plan,       \* what users ask for: schedules and targets
    Store,      \* the stores that users choose
    Interval,   \* the longest time to the next fire
    MaxTime,    \* bound: how far the clock runs
    MaxCommands \* bound: how many commands are given

Plans == [kind : {"once", "interval"}, fleet : BOOLEAN]

ASSUME TimersAssumption ==
    /\ Worker \notin Client
    /\ Id # {}
    /\ Plan \subseteq Plans
    /\ Store \subseteq {"var", "conf"}
    /\ Interval \in Nat
    /\ MaxTime \in Nat
    /\ MaxCommands \in Nat

VARIABLES
    file,       \* the content of each timer file
    op,         \* what each process is doing
    clock,
    commands,   \* how many commands were given
    asked,      \* ghost: what the last command done with a timer asked for
    disturbed,  \* ghost: somebody acted on an outdated content, or crashed
    fires       \* ghost: how often a one-time timer has fired (2 is many)

vars == <<file, op, clock, commands, asked, disturbed, fires>>

Actor == Client \cup {Worker}
Dir == {"var", "conf"}      \* TimerDirs; "var" comes first
File == Dir \X Id
Time == 0 .. MaxTime

\* A timer's Owner is the ship that has set it; a cron schedule is like an
\* interval.
Record == [plan : Plans, owner : Client, enabled : BOOLEAN,
           next : 0 .. MaxTime + Interval]

\* What Get finds: no file, one that cannot be parsed, or a record.
Zero(n) == [plan |-> [kind |-> "once", fleet |-> FALSE], owner |-> Worker,
            enabled |-> FALSE, next |-> n]
Absent == Zero(-1)
Torn == Zero(-2)
Content == Record \cup {Absent, Torn}

Change == {"pause", "resume", "run"}
Kind == Change \cup {"set", "cancel", "clear", "pass"}

\* "each": about to take the next timer of its list; "off": not running.
PC == {"off", "wait", "list", "each", "get", "delete", "truncate", "write"}

Entry == [id : Id, rec : Record]

\* gone: the file it has open was unlinked.
Op == [pc : PC, kind : Kind, dir : Dir, id : Id, rec : Content,
       todo : SUBSET Entry, now : Time, gone : BOOLEAN]

TypeOK ==
    /\ file \in [File -> Content]
    /\ op \in [Actor -> Op]
    /\ clock \in Time
    /\ commands \in 0 .. MaxCommands
    /\ asked \in [File -> {"nothing", "set", "pause", "resume", "cancel"}]
    /\ disturbed \in [File -> BOOLEAN]
    /\ fires \in [File -> 0 .. 2]

AnId == CHOOSE i \in Id : TRUE

Idle == [pc |-> "off", kind |-> "pass", dir |-> "var", id |-> AnId,
         rec |-> Absent, todo |-> {}, now |-> 0, gone |-> FALSE]

Init ==
    /\ file = [f \in File |-> Absent]
    /\ op = [a \in Actor |-> Idle]
    /\ clock = 0
    /\ commands = 0
    /\ asked = [f \in File |-> "nothing"]
    /\ disturbed = [f \in File |-> FALSE]
    /\ fires = [f \in File |-> 0]

At(a, pc) == op[a].pc = pc

\* The file that a is working on.
Its(a) == <<op[a].dir, op[a].id>>

Disturb(f, bad) == disturbed' = [disturbed EXCEPT ![f] = @ \/ bad]

Readable_Lenient(c) == c # Absent

Readable(c) == c \in Record

IsDue_Late(r, now) == r.enabled /\ r.next < now

IsDue(r, now) == r.enabled /\ r.next <= now

-----------------------------------------------------------------------------
(* Commands.                                                               *)

Begin(p, o) ==
    /\ At(p, "off")
    /\ commands < MaxCommands
    /\ commands' = commands + 1
    /\ op' = [op EXCEPT ![p] = o]
    /\ UNCHANGED <<file, clock, asked, disturbed, fires>>

\* runSet: the fire time is not in the past, and the store is given.
Set(p) ==
    \E dir \in Store, id \in Id, plan \in Plan, delay \in 0 .. Interval :
        Begin(p, [Idle EXCEPT !.pc = "get", !.kind = "set", !.dir = dir,
                    !.id = id,
                    !.rec = [plan |-> plan, owner |-> p, enabled |-> TRUE,
                             next |-> clock + delay]])

\* runCancel, runPause and timerRunNow look for the timer in both stores.
Find(p) ==
    \E kind \in Change \cup {"cancel"}, id \in Id :
        Begin(p, [Idle EXCEPT !.pc = "get", !.kind = kind, !.id = id])

Clear(p) == Begin(p, [Idle EXCEPT !.pc = "list", !.kind = "clear"])

\* Start begins with a pass; a tick or a SIGHUP lets another one follow.
Poll(w) ==
    /\ At(w, "off") \/ At(w, "wait")
    /\ op' = [op EXCEPT ![w] = [Idle EXCEPT !.pc = "list", !.now = clock]]
    /\ UNCHANGED <<file, clock, commands, asked, disturbed, fires>>

\* SIGTERM, which the worker looks at between two passes.
Stop(w) ==
    /\ At(w, "wait")
    /\ op' = [op EXCEPT ![w] = Idle]
    /\ UNCHANGED <<file, clock, commands, asked, disturbed, fires>>

-----------------------------------------------------------------------------
(* The steps of both.                                                      *)

\* After a timer: the next of the list, then the other store.
Proceed(a, todo) ==
    [Idle EXCEPT !.kind = op[a].kind, !.now = op[a].now,
        !.dir = IF todo # {} THEN op[a].dir ELSE "conf",
        !.todo = todo,
        !.pc = IF todo # {} THEN "each"
               ELSE IF op[a].dir = "var" THEN "list"
               ELSE IF op[a].kind = "pass" THEN "wait" ELSE "off"]

Done(a) ==
    IF op[a].kind \in {"pass", "clear"} THEN Proceed(a, op[a].todo) ELSE Idle

\* processTimers passes over what is not due, runClear what is another's.
Selected(a, r) ==
    IF op[a].kind = "pass" THEN IsDue(r, op[a].now) ELSE r.owner = a

List(a) ==
    /\ At(a, "list")
    /\ LET here == [i \in Id |-> file[<<op[a].dir, i>>]]
           found == {i \in Id : Readable(here[i]) /\ Selected(a, here[i])}
           o == Proceed(a, {[id |-> i, rec |-> here[i]] : i \in found})
       IN  op' = [op EXCEPT ![a] =
                    IF o.pc = "off" THEN Idle ELSE o]
    /\ UNCHANGED <<file, clock, commands, asked, disturbed, fires>>

\* resolveTargets finds no idle ship: the timer stays due.
Skip(w, e) ==
    /\ op[w].kind = "pass"
    /\ e.rec.plan.fleet
    /\ op' = [op EXCEPT ![w] = Proceed(w, op[w].todo \ {e})]
    /\ UNCHANGED <<file, clock, commands, asked, disturbed, fires>>

Advance_KeepsOnce(r) == "truncate"

\* advanceOrDelete
Advance(r) == IF r.plan.kind = "once" THEN "delete" ELSE "truncate"

\* The directive is posted, or the command started; a failure is logged.
Fire(w, e) ==
    LET f == <<op[w].dir, e.id>>
    IN  /\ op[w].kind = "pass"
        /\ op' = [op EXCEPT ![w].pc = Advance(e.rec), ![w].id = e.id,
                            ![w].rec = e.rec, ![w].todo = @ \ {e}]
        /\ fires' = [fires EXCEPT ![f] =
                        IF e.rec.plan.kind = "once" /\ @ < 2 THEN @ + 1 ELSE @]
        /\ Disturb(f, file[f] # e.rec)
        /\ UNCHANGED <<file, clock, commands, asked>>

\* Whoever has the file open goes on writing to nothing.
Unlink(a, f, o) ==
    /\ file' = [file EXCEPT ![f] = Absent]
    /\ op' = [b \in Actor |->
                IF b = a THEN o
                ELSE [op[b] EXCEPT !.gone = @ \/ (At(b, "write") /\ Its(b) = f)]]

Remove(p, e) ==
    LET f == <<op[p].dir, e.id>>
    IN  /\ op[p].kind = "clear"
        /\ Unlink(p, f, Proceed(p, op[p].todo \ {e}))
        /\ asked' = [asked EXCEPT ![f] = "cancel"]
        /\ Disturb(f, file[f] # e.rec)
        /\ UNCHANGED <<clock, commands, fires>>

Each(a) ==
    /\ At(a, "each")
    /\ \E e \in op[a].todo : Skip(a, e) \/ Fire(a, e) \/ Remove(a, e)

\* Store.Create: an ID that is taken is an error.
Create(p) ==
    /\ At(p, "get")
    /\ op[p].kind = "set"
    /\ op' = [op EXCEPT ![p] = IF Readable(file[Its(p)]) THEN Idle
                               ELSE [@ EXCEPT !.pc = "truncate"]]
    /\ UNCHANGED <<file, clock, commands, asked, disturbed, fires>>

\* Store.Get fails: on to the second store, or "not found".
Miss(p) ==
    /\ At(p, "get")
    /\ op[p].kind # "set"
    /\ ~Readable(file[Its(p)])
    /\ op' = [op EXCEPT ![p] = IF @.dir = "var" THEN [@ EXCEPT !.dir = "conf"]
                               ELSE Idle]
    /\ UNCHANGED <<file, clock, commands, asked, disturbed, fires>>

\* timerRunNow refuses a paused timer.
Hit(p) ==
    LET r == file[Its(p)]
        kind == op[p].kind
    IN  /\ At(p, "get")
        /\ kind # "set"
        /\ Readable(r)
        /\ op' = [op EXCEPT ![p] =
                    IF kind = "run" /\ ~r.enabled THEN Idle
                    ELSE [@ EXCEPT !.rec = r,
                              !.pc = IF kind = "cancel" THEN "delete"
                                     ELSE "truncate"]]
        /\ UNCHANGED <<file, clock, commands, asked, disturbed, fires>>

\* The end of runCancel, and of a one-time timer.
Delete(a) ==
    /\ At(a, "delete")
    /\ Unlink(a, Its(a), Done(a))
    /\ asked' = [asked EXCEPT ![Its(a)] =
                    IF op[a].kind = "cancel" THEN "cancel" ELSE @]
    /\ Disturb(Its(a), file[Its(a)] # op[a].rec)
    /\ UNCHANGED <<clock, commands, fires>>

Updated_Swapped(a) ==
    CASE op[a].kind = "pause" -> [op[a].rec EXCEPT !.enabled = TRUE]
      [] op[a].kind = "resume" -> [op[a].rec EXCEPT !.enabled = FALSE]
      [] op[a].kind = "run" -> [op[a].rec EXCEPT !.next = clock]
      [] op[a].kind = "pass" -> [op[a].rec EXCEPT !.next = clock + Interval]
      [] OTHER -> op[a].rec

Updated(a) ==
    CASE op[a].kind = "pause" -> [op[a].rec EXCEPT !.enabled = FALSE]
      [] op[a].kind = "resume" -> [op[a].rec EXCEPT !.enabled = TRUE]
      [] op[a].kind = "run" -> [op[a].rec EXCEPT !.next = clock]
      [] op[a].kind = "pass" -> [op[a].rec EXCEPT !.next = clock + Interval]
      [] OTHER -> op[a].rec

\* Update and Create: os.WriteFile truncates the file, or creates it, ...
Truncate(a) ==
    /\ At(a, "truncate")
    /\ file' = [file EXCEPT ![Its(a)] = Torn]
    /\ op' = [op EXCEPT ![a].pc = "write", ![a].rec = Updated(a)]
    /\ Disturb(Its(a), file[Its(a)] # IF op[a].kind = "set" THEN Absent
                                      ELSE op[a].rec)
    /\ UNCHANGED <<clock, commands, asked, fires>>

\* ... and then writes; a shorter record leaves the rest of a longer one.
Write(a) ==
    LET f == Its(a)
        old == file[f]
        kind == op[a].kind
    IN  /\ At(a, "write")
        /\ op' = [op EXCEPT ![a] = Done(a)]
        /\ IF op[a].gone
           THEN /\ Disturb(f, TRUE)
                /\ UNCHANGED file
           ELSE /\ \E c \in {op[a].rec} \cup
                            (IF old \in {Torn, op[a].rec} THEN {} ELSE {Torn}) :
                       file' = [file EXCEPT ![f] = c]
                /\ Disturb(f, old # Torn)
        /\ asked' = [asked EXCEPT ![f] =
                        IF kind \in {"set", "pause", "resume"} THEN kind ELSE @]
        /\ fires' = [fires EXCEPT ![f] = IF kind = "set" THEN 0 ELSE @]
        /\ UNCHANGED <<clock, commands>>

Crash(a) ==
    /\ ~At(a, "off")
    /\ op' = [op EXCEPT ![a] = Idle]
    /\ Disturb(Its(a), At(a, "delete") \/ At(a, "truncate") \/ At(a, "write"))
    /\ UNCHANGED <<file, clock, commands, asked, fires>>

Tick ==
    /\ clock < MaxTime
    /\ clock' = clock + 1
    /\ UNCHANGED <<file, op, commands, asked, disturbed, fires>>

Command(p) == Set(p) \/ Find(p) \/ Clear(p)

Step(a) ==
    \/ List(a) \/ Each(a) \/ Create(a) \/ Miss(a) \/ Hit(a)
    \/ Delete(a) \/ Truncate(a) \/ Write(a)

Next ==
    \/ Tick
    \/ \E p \in Client : Command(p)
    \/ \E a \in Actor : Step(a) \/ Crash(a)
    \/ Poll(Worker) \/ Stop(Worker)

Spec == Init /\ [][Next]_vars

\* A running worker goes on: it polls every two seconds.
FairSpec ==
    /\ Spec
    /\ WF_vars(Step(Worker))
    /\ WF_vars(At(Worker, "wait") /\ Poll(Worker))

-----------------------------------------------------------------------------
\* runPause, runCancel and the rest: a timer is as its last command left it,
\* unless something was done with an outdated content of its file.
UserWins ==
    \A f \in File :
        disturbed[f] \/ file[f] \notin Record \/
            CASE asked[f] \in {"set", "resume"} -> file[f].enabled
              [] asked[f] = "pause" -> ~file[f].enabled
              [] OTHER -> FALSE

\* Fire and advanceOrDelete: a one-time timer fires once, unless its file was
\* changed under the pass or the worker died.
OnceFiresOnce == \A f \in File : disturbed[f] \/ fires[f] <= 1

\* processTimers: what is due gets fired as long as there is a worker and a
\* ship to tell, or is changed before.
DueFires ==
    \A f \in File :
        LET Due == /\ file[f] \in Record
                   /\ ~file[f].plan.fleet
                   /\ file[f].enabled /\ file[f].next <= clock
            Fired == At(Worker, "delete") \/ At(Worker, "truncate")
        IN  Due ~> ~Due \/ At(Worker, "off") \/ (Its(Worker) = f /\ Fired)
=============================================================================
