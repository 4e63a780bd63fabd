------------------------------ MODULE Recovery ------------------------------
(***************************************************************************)
(* What a ship does when its model fails: detectors in the plugin          *)
(* (starfleet-dispatch.ts: the poll of opencode's retry status, the watch  *)
(* on its log, session.error events) report the error to "comms dispatch", *)
(* whose policy (error.go, dispatch.go) classifies it and answers with an  *)
(* action that the plugin executes.  The plugin is one thread that gives   *)
(* up control at each await; its call of the program blocks it.  Heartbeat *)
(* and health records are in StatusFile, messages in CommsBus.             *)
(***************************************************************************)
EXTENDS Naturals

CONSTANTS
    Err,            \* errors there may be: sets of marks
    Poller,         \* polls of the retry status that may overlap
    Fallback,       \* is a fallback model configured?
    IsFlagship,     \* is this ship the flagship?
    None            \* no error

(* An error is the set of the marks that its text bears: those that the    *)
(* expressions of error.go find, and those that the plugin looks for: a    *)
(* limit in so many words (capped), a broken stream (broken).              *)
Mark == {"abort", "overload", "exhausted", "limit", "stream", "noprovider", "transient",
         "capped", "broken"}

RecoveryAssumption == \A d \in Err : d \subseteq Mark /\ d # None

VARIABLES
    sess,       \* opencode: is the session busy, idle or parked by an error?
    tail,       \* opencode: the last error in the tail of the log
    wire,       \* requests to opencode under way
    chain,      \* stages that switches of the model, each a chain of requests, have reached
    poll,       \* what each poll of the status has been answered
    lastRetryDetail, retryCooldown, logCooldown, hasSwitched,
    buffer,     \* errors of events that wait for the timer
    silent      \* has a report come to nothing, with nothing else under way?

vars == <<sess, tail, wire, chain, poll, lastRetryDetail, retryCooldown, logCooldown,
          hasSwitched, buffer, silent>>

Idle == [at |-> "idle", err |-> None]

Busy == [at |-> "busy", err |-> None]

Parked(d) == [at |-> "retry", err |-> d]

-----------------------------------------------------------------------------
(* error.go, dispatch.go: the policy. *)

IsUserAbort(d) == "abort" \in d

\* What is looked for, in this order, and the tag it gives.
Tags == <<<<"overload", "nim-overload">>, <<"exhausted", "resource-exhausted">>,
          <<"limit", "zen-ratelimit">>, <<"stream", "streaming-response-failed">>,
          <<"noprovider", "no-provider">>, <<"transient", "transient">>>>

ClassifyModelError(d) ==
    LET found == {i \in DOMAIN Tags : Tags[i][1] \in d}
        tag == Tags[CHOOSE i \in found : \A j \in found : i <= j][2] IN
    CASE found = {} -> "none"
      [] found # {} /\ tag = "zen-ratelimit" /\ "transient" \in d -> "nim-overload"
      [] OTHER -> tag

isAutoRestartTag(t) ==
    t \in {"streaming-response-failed", "nim-overload", "resource-exhausted", "no-provider", "transient"}

decideAction(t, source) ==
    CASE t \in {"nim-overload", "streaming-response-failed", "resource-exhausted", "no-provider"} -> "retry"
      [] t = "zen-ratelimit" -> IF Fallback THEN "switch-model" ELSE "retry"
      [] OTHER -> IF source = "log-monitor" THEN "retry" ELSE "ignore"

\* dispatchErrorHandle.
Action(d, source) ==
    IF IsUserAbort(d) THEN "ignore" ELSE decideAction(ClassifyModelError(d), source)

NotifiesFlagship(d) == ~IsUserAbort(d) /\ ~isAutoRestartTag(ClassifyModelError(d)) /\ ~IsFlagship

\* The report of d comes to nothing but a line in the log of events: neither
\* is there an action nor does the flagship hear of it.
Swallowed(d, action) == ~IsUserAbort(d) /\ ~NotifiesFlagship(d) /\ ~IsFlagship /\ action = "ignore"

-----------------------------------------------------------------------------
(* starfleet-dispatch.ts: executeAction. *)

\* Errors for which the session is cleared; the clear is not awaited.
IsStreamError(d) == "broken" \in d

Execute(action, d) ==
    CASE action = "ignore" -> UNCHANGED <<wire, chain, hasSwitched>>
      [] action = "retry" ->
            /\ wire' = wire \cup {"prompt"} \cup (IF IsStreamError(d) THEN {"clear"} ELSE {})
            /\ UNCHANGED <<chain, hasSwitched>>
      [] action = "switch-model" ->
            IF hasSwitched
            THEN wire' = wire \cup {"prompt"} /\ UNCHANGED <<chain, hasSwitched>>
            ELSE hasSwitched' = TRUE /\ chain' = chain \cup {"clear"} /\ UNCHANGED wire

\* A request of the chain is answered; after an error another switch may come.
Chain(s) ==
    /\ s \in chain
    /\ LET next == CASE s = "clear" -> {"switch"} [] s = "switch" -> {"prompt"} [] s = "prompt" -> {} IN
       \/ /\ chain' = (chain \ {s}) \cup next
          /\ sess' = CASE s = "clear" -> Idle [] s = "switch" -> sess [] s = "prompt" -> Busy
          /\ hasSwitched' = (hasSwitched /\ s # "clear")    \* by the event of the clear
       \/ /\ chain' = chain \ {s}
          /\ hasSwitched' = FALSE
          /\ UNCHANGED sess
    /\ UNCHANGED <<tail, wire, poll, lastRetryDetail, retryCooldown, logCooldown, buffer, silent>>

\* opencode serves a request of a retry, in any order, or refuses it.  A
\* clear emits session.cleared.
Serve(r) ==
    /\ r \in wire
    /\ wire' = wire \ {r}
    /\ \/ UNCHANGED <<sess, hasSwitched>>
       \/ r = "prompt" /\ sess' = Busy /\ UNCHANGED hasSwitched
       \/ r = "clear" /\ sess' = Idle /\ hasSwitched' = FALSE
    /\ UNCHANGED <<tail, chain, poll, lastRetryDetail, retryCooldown, logCooldown, buffer, silent>>

-----------------------------------------------------------------------------
(* The detectors. *)

\* pollRetryStatus awaits the session's status ...
Ask(p) ==
    /\ poll[p] = None
    /\ poll' = [poll EXCEPT ![p] = sess]
    /\ UNCHANGED <<sess, tail, wire, chain, lastRetryDetail, retryCooldown, logCooldown,
                   hasSwitched, buffer, silent>>

\* ... which may throw ...
Throws(p) ==
    /\ poll[p] # None
    /\ poll' = [poll EXCEPT ![p] = None]
    /\ UNCHANGED <<sess, tail, wire, chain, lastRetryDetail, retryCooldown, logCooldown,
                   hasSwitched, buffer, silent>>

Repeats_ForGood(d) == d = lastRetryDetail

Repeats(d) == d = lastRetryDetail /\ retryCooldown

\* ... and reports what has changed, or has lasted for the cooldown.
Answered(p) ==
    /\ poll[p] # None
    /\ poll' = [poll EXCEPT ![p] = None]
    /\ LET d == poll[p].err IN
       CASE d = None -> /\ lastRetryDetail' = None
                        /\ UNCHANGED <<wire, chain, hasSwitched, retryCooldown, silent>>
         [] d # None /\ Repeats(d) ->
                UNCHANGED <<lastRetryDetail, wire, chain, hasSwitched, retryCooldown, silent>>
         [] d # None /\ ~Repeats(d) ->
                /\ lastRetryDetail' = d
                /\ retryCooldown' = TRUE
                /\ Execute(Action(d, "retry-status"), d)
                /\ silent' = (Swallowed(d, Action(d, "retry-status")) /\ wire = {} /\ chain = {})
    /\ UNCHANGED <<sess, tail, logCooldown, buffer>>

\* checkLogForErrors: the text found gets a mark, the one remembered has it
\* already, so that the two never are the same and an error is new as long as
\* it is in the tail.  The mark "|quota" has the word of a limit in it.
FromLog(d) == d \cup {IF "capped" \in d THEN "limit" ELSE "transient"}

\* The log monitor, which has no await before it is done.
LogPoll ==
    LET d == FromLog(tail)
        action == Action(d, "log-monitor") IN
    /\ tail # None /\ ~logCooldown
    /\ logCooldown' = (action = "retry")
    /\ Execute(action, d)
    /\ silent' = FALSE          \* an error in the log always has its action
    /\ UNCHANGED <<sess, tail, poll, lastRetryDetail, retryCooldown, buffer>>

\* The timer of session.error: one report of all, whose answer is not used.
Aggregated ==
    LET d == UNION buffer IN
    /\ buffer # {}
    /\ buffer' = {}
    /\ silent' = (Swallowed(d, "ignore") /\ sess # Busy /\ tail = None /\ wire = {} /\ chain = {})
    /\ UNCHANGED <<sess, tail, wire, chain, poll, lastRetryDetail, retryCooldown, logCooldown, hasSwitched>>

RetryCooldownEnds ==
    /\ retryCooldown' = FALSE /\ retryCooldown
    /\ UNCHANGED <<sess, tail, wire, chain, poll, lastRetryDetail, logCooldown, hasSwitched, buffer, silent>>

LogCooldownEnds ==
    /\ logCooldown' = FALSE /\ logCooldown
    /\ UNCHANGED <<sess, tail, wire, chain, poll, lastRetryDetail, retryCooldown, hasSwitched, buffer, silent>>

-----------------------------------------------------------------------------
(* opencode. *)

\* A turn begins, or opencode itself tries again.
Turns ==
    /\ sess # Busy /\ sess' = Busy
    /\ UNCHANGED <<tail, wire, chain, poll, lastRetryDetail, retryCooldown, logCooldown,
                   hasSwitched, buffer, silent>>

\* The model answers: message.updated.
Answers ==
    /\ sess = Busy /\ sess' \in {Busy, Idle}
    /\ hasSwitched' = FALSE
    /\ UNCHANGED <<tail, wire, chain, poll, lastRetryDetail, retryCooldown, logCooldown, buffer, silent>>

\* The model fails: the session is parked, or it ends, with an event, a line
\* in the log or both.
Fails(d) ==
    /\ sess = Busy
    /\ \/ sess' = Parked(d) /\ UNCHANGED <<tail, buffer>>
       \/ sess' = Idle /\ buffer' = buffer \cup {d} /\ tail' \in {tail, d}
       \/ sess' = Idle /\ tail' = d /\ UNCHANGED buffer
    /\ UNCHANGED <<wire, chain, poll, lastRetryDetail, retryCooldown, logCooldown, hasSwitched, silent>>

\* Other lines push the error out of the tail.
LogGrows ==
    /\ tail # None /\ tail' = None
    /\ UNCHANGED <<sess, wire, chain, poll, lastRetryDetail, retryCooldown, logCooldown,
                   hasSwitched, buffer, silent>>

Init ==
    /\ sess = Idle /\ tail = None
    /\ wire = {} /\ chain = {}
    /\ poll = [p \in Poller |-> None]
    /\ lastRetryDetail = None
    /\ retryCooldown = FALSE /\ logCooldown = FALSE /\ hasSwitched = FALSE
    /\ buffer = {} /\ silent = FALSE

Next ==
    \/ \E p \in Poller : Ask(p) \/ Throws(p) \/ Answered(p)
    \/ \E s \in {"clear", "switch", "prompt"} : Chain(s)
    \/ \E r \in {"clear", "prompt"} : Serve(r)
    \/ LogPoll \/ Aggregated \/ RetryCooldownEnds \/ LogCooldownEnds
    \/ Turns \/ Answers \/ LogGrows
    \/ \E d \in Err : Fails(d)

Spec == Init /\ [][Next]_vars

-----------------------------------------------------------------------------
\* starfleet-dispatch.ts: session, requests and the plugin's variables keep to
\* their types.
TypeOK ==
    /\ sess \in {Idle, Busy} \cup {Parked(d) : d \in Err}
    /\ tail \in Err \cup {None} /\ lastRetryDetail \in Err \cup {None}
    /\ wire \subseteq {"clear", "prompt"} /\ chain \subseteq {"clear", "switch", "prompt"}
    /\ {retryCooldown, logCooldown, hasSwitched, silent} \subseteq BOOLEAN
    /\ buffer \subseteq Err
    /\ \A p \in Poller : poll[p] = None \/ poll[p] \in {Idle, Busy} \cup {Parked(d) : d \in Err}

\* pollRetryStatus, executeAction: as long as a session is parked by an error
\* for which there is an action, requests for it go out, whatever polls
\* overlap or throw, requests are refused and switches fail.
NotLeftParked ==
    (<>[](sess.at = "retry" /\ Action(sess.err, "retry-status") # "ignore"))
        => []<>(wire # {} \/ chain # {})

\* dispatch.go:394: "Transient model errors that auto-restart: do NOT notify the
\* flagship.  The ship will simply resume its last prompt": of an error that
\* is no user's abort, the ship makes a new attempt or the flagship hears.
NoErrorIsSwallowed == ~silent
=============================================================================
