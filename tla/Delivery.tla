------------------------------ MODULE Delivery ------------------------------
(***************************************************************************)
(* How a message on the bus reaches the model of a ship: the dispatch      *)
(* plugin that runs inside the ship's opencode process, and the copy of    *)
(* each message in the ship's mailbox.                                     *)
(*                                                                         *)
(* The plugin is single-threaded; it calls the bus synchronously and other *)
(* handlers run only where it awaits.  Two of its handlers look for        *)
(* messages: the poll timer, which hands them over as a prompt, and the    *)
(* hook at the start of each turn, which adds them to the system prompt.   *)
(* What it has taken care of it remembers in submitted, which dies with    *)
(* the process; the bus remembers what was marked as seen.                 *)
(***************************************************************************)
EXTENDS Integers, FiniteSets

CONSTANTS
    Message,    \* messages to this ship
    Poller,     \* runs of the poll timer that may overlap
    Turn,       \* turns of sessions in one process that may overlap
    NoMessage,  \* no message
    MaxDeaths,  \* bound: how often the process dies
    MaxLapses,  \* bound: bus calls that are killed by their five seconds
    MaxRejects  \* bound: prompts that opencode rejects

\* "model" is the one verb that is executed whatever the type of the message.
Verb == {"directive", "command", "model"}

ASSUME DeliveryAssumption ==
    /\ IsFiniteSet(Message)
    /\ NoMessage \notin Message
    /\ MaxDeaths \in Nat
    /\ MaxLapses \in Nat
    /\ MaxRejects \in Nat

VARIABLES
    copy,       \* the ship's copy of each message
    kind,       \* what the message asks for
    up,         \* the plugin is loaded
    ready,      \* tuiReady
    session,    \* currentSessionID is known
    submitted,
    backlog,    \* bootBacklog
    pollRunning,
    poll,       \* what each run of the poll is doing
    turn,       \* what the hook of each turn is doing
    handed,     \* ghost: how often the model was given the message
    executed,   \* ghost: how often the message was executed as a command
    lost,       \* ghost: marked as seen, then forgotten with the process
    again,      \* ghost: raced for, or done but never marked before a death
    deaths,
    lapses,
    rejects

bus == <<copy, kind>>
memory == <<up, ready, session, submitted, backlog, pollRunning>>
ghosts == <<handed, executed, lost, again>>
bounds == <<deaths, lapses, rejects>>
deliveryVars == <<bus, memory, poll, turn, ghosts, bounds>>

-----------------------------------------------------------------------------
NoPoll == [at |-> "idle", todo |-> {}, now |-> NoMessage, inject |-> {}, sid |-> FALSE]

Quiet == [at |-> "idle", todo |-> {}, now |-> NoMessage, lines |-> {}]

PollState ==
    [at : {"idle", "resolving", "handling", "prompting", "accepted"},
     todo : SUBSET Message, now : Message \cup {NoMessage},
     inject : SUBSET Message, sid : BOOLEAN]

TurnState ==
    [at : {"idle", "handling"}, todo : SUBSET Message,
     now : Message \cup {NoMessage}, lines : SUBSET Message]

Unread == {m \in Message : copy[m] = "unread"}

Dealt(m) == handed[m] + executed[m] > 0

\* What the two handlers look at; submitted is taken off where they do.
Pending == backlog \cup Unread

\* handleMessage executes m instead of leaving it to the model.  What comes
\* from the backlog has lost its type and counts as type ship.
Runs(m) == kind[m] = "model" \/ (kind[m] = "command" /\ m \notin backlog)

Handle(m) == executed' = [executed EXCEPT ![m] = IF Runs(m) THEN @ + 1 ELSE @]

HandOver(S) == handed' = [m \in Message |-> IF m \in S THEN handed[m] + 1 ELSE handed[m]]

Seen(S) == [m \in Message |-> IF m \in S \cap Unread THEN "seen" ELSE copy[m]]

\* seen_mark for each of S; the answer of the bus is not looked at.
Mark(S) ==
    \E failed \in SUBSET (S \cap Unread) :
        /\ lapses' = lapses + Cardinality(failed)
        /\ lapses' <= MaxLapses
        /\ copy' = Seen(S \ failed)

\* What some run of the poll has listed and not claimed.
Listed == UNION {poll[p].todo \cup poll[p].inject \cup {poll[p].now} : p \in Poller}

-----------------------------------------------------------------------------
\* Another ship posts a message.
Post(m) ==
    /\ copy[m] = "none"
    /\ copy' = [copy EXCEPT ![m] = "unread"]
    /\ \E k \in Verb : kind' = [kind EXCEPT ![m] = k]
    /\ UNCHANGED <<memory, poll, turn, ghosts, bounds>>

\* The plugin is loaded: init marks everything as seen and returns it.  The
\* call may be killed half way, and then nothing is returned.
Load ==
    /\ ~up
    /\ up' = TRUE
    /\ \/ /\ copy' = Seen(Unread)
          /\ backlog' = Unread
          /\ UNCHANGED <<lapses, lost>>
       \/ \E S \in SUBSET Unread :
              /\ lapses < MaxLapses
              /\ lapses' = lapses + 1
              /\ copy' = Seen(S)
              /\ lost' = lost \cup {m \in S : ~Dealt(m)}
              /\ UNCHANGED backlog
    /\ UNCHANGED <<kind, ready, session, submitted, pollRunning, poll, turn,
                   handed, executed, again, deaths, rejects>>

\* A session is created, or three seconds have passed since the start.
BecomeReady ==
    /\ up /\ ~ready
    /\ ready' = TRUE
    /\ session' \in {session, TRUE}
    /\ UNCHANGED <<bus, up, submitted, backlog, pollRunning, poll, turn, ghosts, bounds>>

-----------------------------------------------------------------------------
StartPoll_Unguarded(p) ==
    /\ up /\ ready
    /\ poll[p] = NoPoll
    /\ pollRunning' = TRUE
    /\ poll' = [poll EXCEPT ![p] = [NoPoll EXCEPT !.at = "resolving"]]
    /\ UNCHANGED <<bus, up, ready, session, submitted, backlog, turn, ghosts, bounds>>

StartPoll(p) ==
    /\ up /\ ready /\ ~pollRunning
    /\ poll[p] = NoPoll
    /\ pollRunning' = TRUE
    /\ poll' = [poll EXCEPT ![p] = [NoPoll EXCEPT !.at = "resolving"]]
    /\ UNCHANGED <<bus, up, ready, session, submitted, backlog, turn, ghosts, bounds>>

\* The poll ends, whatever came of it (finally).
Finish(p) == poll' = [poll EXCEPT ![p] = NoPoll] /\ pollRunning' = FALSE

\* The loop up to the next await: the next message is handled, or what is to
\* be injected is sent as a prompt, or there is nothing left to do.
PollLoop(p, todo, inject, sid) ==
    \/ \E m \in todo :
          /\ poll' = [poll EXCEPT ![p] = [at |-> "handling", todo |-> todo \ {m},
                                          now |-> m, inject |-> inject, sid |-> FALSE]]
          /\ Handle(m)
          /\ UNCHANGED pollRunning
    \/ /\ todo = {} /\ inject # {}
       /\ poll' = [poll EXCEPT ![p] = [NoPoll EXCEPT !.at = "prompting",
                                                     !.inject = inject, !.sid = sid]]
       /\ UNCHANGED <<executed, pollRunning>>
    \/ /\ todo = {} /\ inject = {}
       /\ Finish(p)
       /\ UNCHANGED executed

ListInbox_NoBacklog(p) ==
    /\ poll[p].at = "resolving"
    /\ session' \in {session, TRUE}
    /\ PollLoop(p, Unread \ submitted, {}, session')
    /\ UNCHANGED <<bus, up, ready, submitted, backlog, turn, handed, lost, again, bounds>>

\* resolveSessionId has answered: the inbox is read.
ListInbox(p) ==
    /\ poll[p].at = "resolving"
    /\ session' \in {session, TRUE}
    /\ PollLoop(p, Pending \ submitted, {}, session')
    /\ UNCHANGED <<bus, up, ready, submitted, backlog, turn, handed, lost, again, bounds>>

Handled_Eager(p) ==
    LET m == poll[p].now IN
    /\ poll[p].at = "handling"
    /\ submitted' = submitted \cup {m}
    /\ PollLoop(p, poll[p].todo, IF Runs(m) THEN poll[p].inject ELSE poll[p].inject \cup {m}, session)
    /\ UNCHANGED <<bus, up, ready, session, backlog, turn, handed, lost, again, bounds>>

\* handleMessage has returned; only what it executed is claimed.  To execute
\* it, it may have looked for the session.
Handled(p) ==
    LET m == poll[p].now IN
    /\ poll[p].at = "handling"
    /\ \/ /\ Runs(m)
          /\ submitted' = submitted \cup {m}
          /\ session' \in {session, TRUE}
          /\ PollLoop(p, poll[p].todo, poll[p].inject, session')
       \/ /\ ~Runs(m)
          /\ UNCHANGED <<submitted, session>>
          /\ PollLoop(p, poll[p].todo, poll[p].inject \cup {m}, session)
    /\ UNCHANGED <<bus, up, ready, backlog, turn, handed, lost, again, bounds>>

\* opencode takes the prompt, ...
Accept(p) ==
    /\ poll[p].at = "prompting" /\ poll[p].sid
    /\ HandOver(poll[p].inject)
    /\ poll' = [poll EXCEPT ![p].at = "accepted"]
    /\ UNCHANGED <<bus, memory, turn, executed, lost, again, bounds>>

\* ... and the poll learns of it and claims the messages.
ClaimInjected(p) ==
    /\ poll[p].at = "accepted"
    /\ submitted' = submitted \cup poll[p].inject
    /\ Mark(poll[p].inject)
    /\ Finish(p)
    /\ UNCHANGED <<kind, up, ready, session, backlog, turn, ghosts, deaths, rejects>>

\* opencode rejects the prompt, as it does when there is no session.
Reject(p) ==
    /\ poll[p].at = "prompting"
    /\ rejects' = IF poll[p].sid THEN rejects + 1 ELSE rejects
    /\ rejects' <= MaxRejects
    /\ session' = FALSE
    /\ Finish(p)
    /\ UNCHANGED <<bus, up, ready, submitted, backlog, turn, ghosts, deaths, lapses>>

-----------------------------------------------------------------------------
\* The hook marks and claims m, then waits for handleMessage.
Take(t, m, todo, lines) ==
    /\ Mark({m})
    /\ submitted' = submitted \cup {m}
    /\ again' = again \cup ({m} \cap Listed)
    /\ Handle(m)
    /\ turn' = [turn EXCEPT ![t] = [at |-> "handling", todo |-> todo \ {m},
                                    now |-> m, lines |-> lines]]
    /\ UNCHANGED handed

\* The hook returns with S in the system prompt.
PushLines(t, S) == HandOver(S) /\ turn' = [turn EXCEPT ![t] = Quiet]

\* A turn starts; opencode says in which session.
BeginTurn(t) ==
    LET todo == Pending \ submitted IN
    /\ up /\ turn[t] = Quiet
    /\ session' = TRUE
    /\ \/ \E m \in todo : Take(t, m, todo, {})
       \/ /\ todo = {}
          /\ UNCHANGED <<copy, submitted, turn, handed, executed, again, lapses>>
    /\ UNCHANGED <<kind, up, ready, backlog, pollRunning, poll, lost, deaths, rejects>>

\* handleMessage has returned to the hook.  Without a session the rest is
\* pushed as it is.
GoOn(t) ==
    LET now == turn[t].now
        lines == turn[t].lines \cup (IF Runs(now) THEN {} ELSE {now})
        todo == turn[t].todo \ submitted IN
    /\ turn[t].at = "handling"
    /\ \/ session /\ \E m \in todo : Take(t, m, todo, lines)
       \/ /\ session => todo = {}
          /\ Mark(todo)
          /\ submitted' = submitted \cup todo
          /\ again' = again \cup (todo \cap Listed)
          /\ PushLines(t, lines \cup todo)
          /\ UNCHANGED executed
    /\ UNCHANGED <<kind, up, ready, session, backlog, pollRunning, poll, lost, deaths, rejects>>

-----------------------------------------------------------------------------
\* The process dies, or is told to quit: its memory is gone.
ProcessDies ==
    /\ up /\ deaths < MaxDeaths
    /\ deaths' = deaths + 1
    /\ up' = FALSE /\ ready' = FALSE /\ session' = FALSE /\ pollRunning' = FALSE
    /\ submitted' = {} /\ backlog' = {}
    /\ poll' = [p \in Poller |-> NoPoll]
    /\ turn' = [t \in Turn |-> Quiet]
    /\ lost' = lost \cup {m \in Message : copy[m] = "seen" /\ ~Dealt(m)}
    /\ again' = again \cup {m \in Unread : Dealt(m)}
    /\ UNCHANGED <<bus, handed, executed, lapses, rejects>>

DeliveryInit ==
    /\ copy = [m \in Message |-> "none"]
    /\ kind = [m \in Message |-> "directive"]
    /\ up = FALSE /\ ready = FALSE /\ session = FALSE /\ pollRunning = FALSE
    /\ submitted = {} /\ backlog = {}
    /\ poll = [p \in Poller |-> NoPoll]
    /\ turn = [t \in Turn |-> Quiet]
    /\ handed = [m \in Message |-> 0]
    /\ executed = [m \in Message |-> 0]
    /\ lost = {} /\ again = {}
    /\ deaths = 0 /\ lapses = 0 /\ rejects = 0

DeliveryNext ==
    \/ \E m \in Message : Post(m)
    \/ Load \/ BecomeReady \/ ProcessDies
    \/ \E p \in Poller :
          StartPoll(p) \/ ListInbox(p) \/ Handled(p) \/ Accept(p) \/ ClaimInjected(p) \/ Reject(p)
    \/ \E t \in Turn : BeginTurn(t) \/ GoOn(t)

DeliverySpec == DeliveryInit /\ [][DeliveryNext]_deliveryVars

\* The ship is started again, the timers of a running plugin fire, and what
\* was awaited arrives.  The session is found sooner or later.  Nothing makes
\* a turn begin: users do that.
DeliveryFairness ==
    /\ WF_deliveryVars(Load) /\ WF_deliveryVars(BecomeReady)
    /\ WF_deliveryVars(\E p \in Poller : StartPoll(p))
    /\ \A p \in Poller :
          /\ SF_deliveryVars(ListInbox(p) /\ session')
          /\ WF_deliveryVars(Handled(p))
          /\ WF_deliveryVars(Accept(p) \/ Reject(p))
          /\ WF_deliveryVars(ClaimInjected(p))
    /\ \A t \in Turn : WF_deliveryVars(GoOn(t))

DeliveryFairSpec == DeliverySpec /\ DeliveryFairness

-----------------------------------------------------------------------------
DeliveryTypeOK ==
    /\ copy \in [Message -> {"none", "unread", "seen"}]
    /\ kind \in [Message -> Verb]
    /\ {up, ready, session, pollRunning} \subseteq BOOLEAN
    /\ submitted \subseteq Message
    /\ backlog \subseteq Message
    /\ poll \in [Poller -> PollState]
    /\ turn \in [Turn -> TurnState]
    /\ handed \in [Message -> Nat]
    /\ executed \in [Message -> Nat]
    /\ lost \subseteq Message
    /\ again \subseteq Message
    /\ deaths \in 0..MaxDeaths
    /\ lapses \in 0..MaxLapses
    /\ rejects \in 0..MaxRejects

\* What the plugin will not look at again.
Claimed(m) == m \in submitted \/ (copy[m] = "seen" /\ m \notin backlog)

InHand(m) == \E t \in Turn : m \in turn[t].lines \cup {turn[t].now}

\* Whatever the plugin or the bus regards as dealt with was given to the
\* model or executed, or is in the hands of a turn that will do so; only the
\* death of the process, or an init that was killed, strands a message.
NotStranded == \A m \in Message : Claimed(m) => Dealt(m) \/ InHand(m) \/ m \in lost

\* No message is given to the model or executed twice, unless a turn began
\* while a poll had the message in hand, or the process died after the deed
\* and before the mark.
OnceOnly == \A m \in Message : handed[m] + executed[m] > 1 => m \in again

\* In the end every message that was posted has been given to the model or
\* executed, also if it came while the ship was down, and whatever prompts
\* are rejected; users need not start a turn for it.
EachReaches ==
    <>[](\A m \in Message : copy[m] # "none" => Dealt(m) \/ m \in lost)

\* The plugin's comment on commands: "execute locally, never inject".
CommandsAreNotInjected == \A m \in Message : kind[m] = "command" => handed[m] = 0
=============================================================================
