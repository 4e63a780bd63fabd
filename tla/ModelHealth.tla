----------------------------- MODULE ModelHealth -----------------------------
(***************************************************************************)
(* The health check of models: which models a provider lists, whether they *)
(* answer, and the file model-health.json that keeps the verdicts.  The    *)
(* proxy checks in a loop of its own; the web console, a timer and the     *)
(* command line check when they are told to.  All of them end in           *)
(* WriteHealthState, which writes a temporary file of one fixed name and   *)
(* renames it, without a lock.                                             *)
(*                                                                         *)
(* There is one provider here, and it may change under a check.  A writer  *)
(* keeps its file open: "fd" is the file, "tmp" and "path" are the names.  *)
(***************************************************************************)
EXTENDS Integers, FiniteSets

CONSTANTS
    Model,
    Loop,       \* the proxy's background loop
    Checker,    \* who else runs a check
    Probing,    \* those whose checks send requests, the loop among them
    Worlds,     \* what the provider may be like
    MaxTries,   \* Provider.MaxRetries + 1
    MaxChecks,  \* bound: how many checks others than the loop make
    MaxChanges, \* bound: how often the provider changes
    None,       \* no verdict, no file, an empty file, an outdated catalogue
    Torn        \* the content of a file that cannot be parsed

Status == {"ok", "not-served", "failed", "degraded", "unknown"}
Verdict == [status : Status, tools : {"unasked", "yes", "no"}]
Report == [Model -> Verdict \cup {None}]
Answer == {"fine", "toolless", "busy", "hard"}
World == [up : BOOLEAN, listed : SUBSET Model, answer : [Model -> Answer]]

ModelHealthAssumption ==
    /\ IsFiniteSet(Checker) /\ Loop \notin Checker
    /\ Loop \in Probing /\ Probing \subseteq Checker \cup {Loop}
    /\ Worlds \subseteq World
    /\ MaxTries \in Nat \ {0} /\ MaxChecks \in Nat /\ MaxChanges \in Nat

VARIABLES
    world,
    changes,
    checks,
    cache,      \* the proxy's catalogue, kept for a minute
    check,      \* what each checker is doing
    content,    \* of each file
    tmp, path   \* the files that have the two names

vars == <<world, changes, checks, cache, check, content, tmp, path>>

Actor == Checker \cup {Loop}
File == 0 .. Cardinality(Actor) + 1
NoReport == [m \in Model |-> None]

\* "due": its ticker has fired.
Idle == [pc |-> "idle", known |-> {}, todo |-> {}, tries |-> [m \in Model |-> 0],
         report |-> NoReport, fd |-> None]

PC == {"idle", "due", "catalogue", "cache", "listing", "probe", "open", "write", "rename"}

TypeOK ==
    /\ world \in World
    /\ changes \in 0 .. MaxChanges /\ checks \in 0 .. MaxChecks
    /\ cache \in (SUBSET Model) \cup {None}
    /\ check \in [Actor -> [pc : PC, known : SUBSET Model, todo : SUBSET Model,
                            tries : [Model -> 0 .. MaxTries], report : Report,
                            fd : File \cup {None}]]
    /\ content \in [File -> Report \cup {None, Torn}]
    /\ tmp \in File \cup {None} /\ path \in File \cup {None}

Init ==
    /\ world \in Worlds
    /\ changes = 0 /\ checks = 0
    /\ cache = None
    /\ check = [a \in Actor |-> IF a = Loop THEN [Idle EXCEPT !.pc = "due"] ELSE Idle]
    /\ content = [f \in File |-> None]
    /\ tmp = None /\ path = None

At(a, pc) == check[a].pc = pc
Goto(a, pc) == check' = [check EXCEPT ![a].pc = pc]

\* fetchModels: what the provider lists, or an error, which the callers take
\* for an empty list.
Listed == IF world.up THEN world.listed ELSE {}

files == <<content, tmp, path>>
outside == <<world, changes, checks>>

-----------------------------------------------------------------------------
\* RunHealthBackground: at the start, and at each tick.
Tick ==
    /\ At(Loop, "idle")
    /\ Goto(Loop, "due")
    /\ UNCHANGED <<outside, cache, files>>

\* apiModelCheck, runHealthCheck, runModelCheck.
Begin(a) ==
    /\ a # Loop /\ At(a, "idle") /\ checks < MaxChecks
    /\ checks' = checks + 1
    /\ Goto(a, "due")
    /\ UNCHANGED <<world, changes, cache, files>>

\* ProxyModelInfos: without models there is nothing to ask for.
Knows(a, models) ==
    check' = [check EXCEPT ![a].known = models,
                           ![a].pc = IF models = {} THEN "open" ELSE "listing"]

\* ... from the proxy, which has asked within the last minute,
FromCache(a) ==
    /\ At(a, "due") /\ cache # None
    /\ Knows(a, cache)
    /\ UNCHANGED <<outside, cache, files>>

\* ... or asks the provider and keeps the answer, an error too,
Fetch(a) ==
    /\ At(a, "due") /\ cache = None
    /\ check' = [check EXCEPT ![a].pc = "cache", ![a].known = Listed]
    /\ UNCHANGED <<outside, cache, files>>

Keep(a) ==
    /\ At(a, "cache")
    /\ cache' = check[a].known
    /\ Knows(a, check[a].known)
    /\ UNCHANGED <<outside, files>>

\* ... or, when no proxy answers, from the provider.
Directly(a) ==
    /\ a # Loop /\ At(a, "due")
    /\ Knows(a, Listed)
    /\ UNCHANGED <<outside, cache, files>>

Said(status) == [status |-> status, tools |-> "unasked"]

\* The first phase of runCheckWithConfig, for the models of one provider.
Listing(a) ==
    LET known == check[a].known
        Partition(m) ==
            IF m \notin known THEN None
            ELSE IF ~world.up THEN Said("unknown")
            ELSE IF m \notin world.listed THEN Said("not-served")
            ELSE IF a \notin Probing THEN Said("ok") ELSE None
        todo == IF a \in Probing /\ world.up THEN known \cap world.listed ELSE {}
    IN  /\ At(a, "listing")
        /\ check' = [check EXCEPT ![a].report = [m \in Model |-> Partition(m)],
                                  ![a].todo = todo,
                                  ![a].pc = IF todo = {} THEN "open" ELSE "probe"]
        /\ UNCHANGED <<outside, cache, files>>

\* The second phase: the probes run side by side, and wg.Wait for the last.
Judged(a, m, verdict) ==
    check' = [check EXCEPT ![a].report[m] = verdict,
                           ![a].todo = @ \ {m},
                           ![a].tries[m] = 0,
                           ![a].pc = IF check[a].todo = {m} THEN "open" ELSE @]

\* What probeModel makes of an answer; a provider that is down times out.
Heard(m) == IF world.up /\ m \in world.listed THEN world.answer[m]
            ELSE IF world.up THEN "hard" ELSE "busy"

Retried(a, m) == check[a].tries[m] < MaxTries - 1

\* A transient fault is tried again; the last one is "degraded".
Attempt(a, m) ==
    /\ At(a, "probe") /\ m \in check[a].todo /\ check[a].tries[m] < MaxTries
    /\ CASE Heard(m) = "hard" -> Judged(a, m, Said("failed"))
         [] Heard(m) = "busy" ->
                IF Retried(a, m) THEN check' = [check EXCEPT ![a].tries[m] = @ + 1]
                                 ELSE Judged(a, m, Said("degraded"))
         [] OTHER -> check' = [check EXCEPT ![a].tries[m] = MaxTries]
    /\ UNCHANGED <<outside, cache, files>>

\* probeAgentCapability, after an answer; it tries once, and any fault is a no.
Capability(a, m) ==
    /\ At(a, "probe") /\ m \in check[a].todo /\ check[a].tries[m] = MaxTries
    /\ Judged(a, m, [status |-> "ok", tools |-> IF Heard(m) = "fine" THEN "yes" ELSE "no"])
    /\ UNCHANGED <<outside, cache, files>>

-----------------------------------------------------------------------------
(* WriteHealthState.                                                       *)

\* LoadHealthState: what is no record counts as an empty one.
Seen == IF path = None \/ (path # None /\ content[path] \in {None, Torn})
        THEN NoReport ELSE content[path]

Merged_KeepsOld(a) ==
    [m \in Model |-> IF check[a].report[m] = None THEN Seen[m] ELSE check[a].report[m]]

\* Merge keeps nothing of what was there.
Merged(a) == check[a].report

NewFile == CHOOSE f \in File : f # path /\ \A a \in Actor : check[a].fd # f

\* os.WriteFile: the file under the temporary name is emptied if there is one,
Open(a) ==
    LET f == IF tmp = None THEN NewFile ELSE tmp
    IN  /\ At(a, "open")
        /\ tmp' = f
        /\ content' = [content EXCEPT ![f] = None]
        /\ check' = [check EXCEPT ![a].pc = "write", ![a].fd = f, ![a].report = Merged(a)]
        /\ UNCHANGED <<outside, cache, path>>

\* ... and written from its start: a longer text shows behind a shorter one.
Write(a) ==
    LET f == check[a].fd
        old == content[f]
    IN  /\ At(a, "write")
        /\ \E c \in {check[a].report} \cup
                    (IF old \in {None, check[a].report} THEN {} ELSE {Torn}) :
               content' = [content EXCEPT ![f] = c]
        /\ Goto(a, "rename")
        /\ UNCHANGED <<outside, cache, tmp, path>>

\* The files that have a name or are open; the rest is free.
Used == {tmp, path} \cup {check[b].fd : b \in Actor}

\* os.Rename gives the name to whatever has the temporary one; it fails when
\* another has just done so.
Rename(a) ==
    /\ At(a, "rename")
    /\ IF tmp = None THEN UNCHANGED <<tmp, path>> ELSE path' = tmp /\ tmp' = None
    /\ check' = [check EXCEPT ![a] = Idle]
    /\ content' = [f \in File |-> IF f \in Used' THEN content[f] ELSE None]
    /\ UNCHANGED <<outside, cache>>

-----------------------------------------------------------------------------
Change ==
    /\ changes < MaxChanges
    /\ changes' = changes + 1
    /\ world' \in Worlds \ {world}
    /\ UNCHANGED <<checks, cache, check, files>>

\* A minute after the proxy has asked.
Outdate ==
    /\ cache # None
    /\ cache' = None
    /\ UNCHANGED <<outside, check, files>>

\* A checker dies; the proxy is started again, and its loop checks at once.
Die(a) ==
    /\ ~At(a, "idle") /\ checks < MaxChecks
    /\ checks' = checks + 1
    /\ check' = [check EXCEPT ![a] = IF a = Loop THEN [Idle EXCEPT !.pc = "due"] ELSE Idle]
    /\ cache' = IF a = Loop THEN None ELSE cache
    /\ UNCHANGED <<world, changes, files>>

Step(a) ==
    \/ FromCache(a) \/ Fetch(a) \/ Keep(a) \/ Directly(a) \/ Listing(a)
    \/ \E m \in Model : Attempt(a, m) \/ Capability(a, m)
    \/ Open(a) \/ Write(a) \/ Rename(a)

Next ==
    \/ Tick \/ Change \/ Outdate
    \/ \E a \in Actor : Begin(a) \/ Step(a) \/ Die(a)

Spec == Init /\ [][Next]_vars

\* Requests have timeouts, the ticker goes on, the minute passes.
FairSpec == Spec /\ WF_vars(Tick) /\ WF_vars(Outdate) /\ \A a \in Actor : WF_vars(Step(a))

-----------------------------------------------------------------------------
\* What a check of the provider as it is now finds.
Truth ==
    [m \in Model |->
        IF m \notin Listed THEN None
        ELSE CASE world.answer[m] = "hard" -> Said("failed")
               [] world.answer[m] = "busy" -> Said("degraded")
               [] OTHER -> [status |-> "ok",
                            tools |-> IF world.answer[m] = "fine" THEN "yes" ELSE "no"]]

\* RunHealthBackground: when the provider stays as it is and nobody else
\* checks, the file comes to say what the provider does, removed models
\* included, whatever overlapping writers have left behind.
FileCatchesUp == <>[](Seen = Truth)
=============================================================================
