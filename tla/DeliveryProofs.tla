--------------------------- MODULE DeliveryProofs ---------------------------
(***************************************************************************)
(* Proofs about Delivery for any finite set of messages, any number of     *)
(* polls and turns that overlap, and any number of deaths, killed calls    *)
(* and rejected prompts.                                                   *)
(***************************************************************************)
EXTENDS Delivery, FiniteSetTheorems, TLAPS

Posted == {m \in Message : copy[m] # "none"}

\* A process that is not running has no memory and does nothing.
DownIsEmpty ==
    ~up => /\ submitted = {} /\ backlog = {}
           /\ \A p \in Poller : poll[p] = NoPoll
           /\ \A t \in Turn : turn[t] = Quiet

\* What the handlers work on was posted, so its kind is settled.
WorkIsPosted ==
    /\ backlog \subseteq Posted
    /\ \A p \in Poller :
          /\ poll[p].todo \cup poll[p].inject \subseteq Posted
          /\ poll[p].at = "handling" => poll[p].now \in Posted
    /\ \A t \in Turn :
          /\ turn[t].todo \cup turn[t].lines \subseteq Posted
          /\ turn[t].at = "handling" => turn[t].now \in Posted
          /\ turn[t].at = "idle" => turn[t] = Quiet

\* A handler that waits for handleMessage has executed what is executed, and
\* a poll whose prompt was taken has handed over what it sent.
DeedsAreDone ==
    \A m \in Message :
        /\ \A p \in Poller :
              /\ poll[p].at = "handling" /\ poll[p].now = m /\ Runs(m) => Dealt(m)
              /\ poll[p].at = "accepted" /\ m \in poll[p].inject => Dealt(m)
        /\ \A t \in Turn :
              turn[t].at = "handling" /\ turn[t].now = m /\ Runs(m) => Dealt(m)

IInv ==
    /\ DeliveryTypeOK
    /\ DownIsEmpty
    /\ WorkIsPosted
    /\ DeedsAreDone
    /\ NotStranded

-----------------------------------------------------------------------------
(* Types.                                                                  *)

MessagesOK ==
    /\ copy \in [Message -> {"none", "unread", "seen"}]
    /\ kind \in [Message -> Verb]
    /\ submitted \subseteq Message
    /\ backlog \subseteq Message
    /\ lost \subseteq Message
    /\ again \subseteq Message

FlagsOK == {up, ready, session, pollRunning} \subseteq BOOLEAN

PollOK == poll \in [Poller -> PollState]

TurnOK == turn \in [Turn -> TurnState]

CountsOK == handed \in [Message -> Nat] /\ executed \in [Message -> Nat]

BoundsOK ==
    /\ deaths \in 0..MaxDeaths
    /\ lapses \in 0..MaxLapses
    /\ rejects \in 0..MaxRejects

LEMMA TypeParts ==
    DeliveryTypeOK <=> MessagesOK /\ FlagsOK /\ PollOK /\ TurnOK /\ CountsOK /\ BoundsOK
BY DEF DeliveryTypeOK, MessagesOK, FlagsOK, PollOK, TurnOK, CountsOK, BoundsOK

LEMMA TypeJoin ==
    MessagesOK' /\ FlagsOK' /\ PollOK' /\ TurnOK' /\ CountsOK' /\ BoundsOK' => DeliveryTypeOK'
BY DEF DeliveryTypeOK, MessagesOK, FlagsOK, PollOK, TurnOK, CountsOK, BoundsOK

LEMMA SeenType ==
    ASSUME copy \in [Message -> {"none", "unread", "seen"}], NEW S
    PROVE  /\ Seen(S) \in [Message -> {"none", "unread", "seen"}]
           /\ \A m \in Message : copy[m] = "none" => Seen(S)[m] = "none"
           /\ \A m \in Message : copy[m] = "seen" => Seen(S)[m] = "seen"
           /\ \A m \in Message :
                 copy[m] = "unread" => Seen(S)[m] = IF m \in S THEN "seen" ELSE "unread"
BY DEF Seen, Unread

\* seen_mark: nothing but the unread copies of S changes.
LEMMA MarkFacts ==
    ASSUME MessagesOK, BoundsOK, NEW S, Mark(S)
    PROVE  /\ copy' \in [Message -> {"none", "unread", "seen"}]
           /\ lapses' \in 0..MaxLapses
           /\ \A m \in Message : (copy[m] = "none") <=> (copy'[m] = "none")
           /\ \A m \in Message : copy[m] = "seen" => copy'[m] = "seen"
           /\ \A m \in Message : m \notin S => copy'[m] = copy[m]
<1>1. PICK failed \in SUBSET (S \cap Unread) :
          /\ lapses' = lapses + Cardinality(failed)
          /\ lapses' <= MaxLapses
          /\ copy' = Seen(S \ failed)
  BY DEF Mark
<1>2. Cardinality(failed) \in Nat
  <2>1. failed \subseteq Message BY <1>1 DEF Unread
  <2>2. IsFiniteSet(failed) BY <2>1, DeliveryAssumption, FS_Subset
  <2>3. QED BY <2>2, FS_CardinalityType
<1>3. lapses' \in 0..MaxLapses
  BY <1>1, <1>2, DeliveryAssumption DEF BoundsOK
<1>4. /\ copy' \in [Message -> {"none", "unread", "seen"}]
      /\ \A m \in Message : copy[m] = "none" => copy'[m] = "none"
      /\ \A m \in Message : copy[m] = "seen" => copy'[m] = "seen"
      /\ \A m \in Message :
            copy[m] = "unread" => copy'[m] = IF m \in S \ failed THEN "seen" ELSE "unread"
  BY <1>1, SeenType DEF MessagesOK
<1>5. QED BY <1>3, <1>4 DEF MessagesOK

\* The loop of the poll: the states it can end in.
LEMMA LoopFacts ==
    ASSUME PollOK, CountsOK, NEW p \in Poller,
           NEW todo \in SUBSET Message, NEW inject \in SUBSET Message,
           NEW sid \in BOOLEAN, PollLoop(p, todo, inject, sid)
    PROVE  /\ poll'[p] \in PollState
           /\ \A q \in Poller \ {p} : poll'[q] = poll[q]
           /\ poll'[p].todo \subseteq todo /\ poll'[p].inject \subseteq inject
           /\ poll'[p].at = "handling" =>
                 /\ poll'[p].now \in todo
                 /\ Handle(poll'[p].now)
           /\ poll'[p].at # "handling" => executed' = executed
           /\ poll'[p].at # "accepted"
<1>1. CASE \E m \in todo :
          /\ poll' = [poll EXCEPT ![p] = [at |-> "handling", todo |-> todo \ {m},
                                          now |-> m, inject |-> inject, sid |-> FALSE]]
          /\ Handle(m)
  BY <1>1 DEF PollOK, PollState
<1>2. CASE /\ poll' = [poll EXCEPT ![p] = [NoPoll EXCEPT !.at = "prompting",
                                                      !.inject = inject, !.sid = sid]]
           /\ executed' = executed
  BY <1>2 DEF PollOK, PollState, NoPoll
<1>3. CASE Finish(p) /\ executed' = executed
  BY <1>3 DEF PollOK, PollState, NoPoll, Finish
<1>4. QED BY <1>1, <1>2, <1>3 DEF PollLoop

LEMMA HandleFacts ==
    ASSUME CountsOK, NEW m \in Message, Handle(m)
    PROVE  /\ executed' \in [Message -> Nat]
           /\ \A n \in Message : executed'[n] >= executed[n]
           /\ \A n \in Message : n # m => executed'[n] = executed[n]
           /\ executed'[m] = IF Runs(m) THEN executed[m] + 1 ELSE executed[m]
BY DEF Handle, CountsOK

LEMMA HandOverFacts ==
    ASSUME CountsOK, NEW S, HandOver(S)
    PROVE  /\ handed' \in [Message -> Nat]
           /\ \A m \in Message : handed'[m] = IF m \in S THEN handed[m] + 1 ELSE handed[m]
BY DEF HandOver, CountsOK

LEMMA InitTypes == DeliveryInit => DeliveryTypeOK
<1> SUFFICES ASSUME DeliveryInit PROVE DeliveryTypeOK
  OBVIOUS
<1> USE DeliveryAssumption DEF DeliveryInit
<1>1. MessagesOK BY DEF MessagesOK, Verb
<1>2. FlagsOK BY DEF FlagsOK
<1>3. PollOK BY DEF PollOK, PollState, NoPoll
<1>4. TurnOK BY DEF TurnOK, TurnState, Quiet
<1>5. CountsOK BY DEF CountsOK
<1>6. BoundsOK BY DEF BoundsOK
<1>7. QED BY <1>1, <1>2, <1>3, <1>4, <1>5, <1>6, TypeParts

\* What the loop leaves is well typed.
LEMMA LoopTypes ==
    ASSUME DeliveryTypeOK, NEW p \in Poller,
           NEW todo \in SUBSET Message, NEW inject \in SUBSET Message,
           NEW sid \in BOOLEAN, PollLoop(p, todo, inject, sid)
    PROVE  /\ PollOK'
           /\ executed' \in [Message -> Nat]
           /\ pollRunning' \in BOOLEAN
<1>0. PollOK /\ CountsOK /\ FlagsOK BY TypeParts
<1>1. PollOK'
  <2>1. poll' = [q \in Poller |-> poll'[q]]
    BY <1>0 DEF PollLoop, Finish, PollOK
  <2>2. \A q \in Poller : poll'[q] \in PollState
    BY <1>0, LoopFacts DEF PollOK
  <2>3. QED BY <2>1, <2>2 DEF PollOK
<1>2. executed' \in [Message -> Nat]
  <2>1. CASE executed' = executed BY <2>1, <1>0 DEF CountsOK
  <2>2. CASE \E m \in todo : Handle(m) BY <2>2, <1>0, HandleFacts
  <2>3. QED BY <2>1, <2>2 DEF PollLoop
<1>3. pollRunning' \in BOOLEAN
  BY <1>0 DEF PollLoop, Finish, FlagsOK
<1>4. QED BY <1>1, <1>2, <1>3

LEMMA TakeTypes ==
    ASSUME DeliveryTypeOK, NEW t \in Turn, NEW m \in Message,
           NEW todo \in SUBSET Message, NEW lines \in SUBSET Message,
           Take(t, m, todo, lines)
    PROVE  /\ copy' \in [Message -> {"none", "unread", "seen"}]
           /\ submitted' \subseteq Message /\ again' \subseteq Message
           /\ TurnOK' /\ CountsOK' /\ lapses' \in 0..MaxLapses
<1>0. MessagesOK /\ TurnOK /\ CountsOK /\ BoundsOK BY TypeParts
<1> USE DEF Take
<1>1. copy' \in [Message -> {"none", "unread", "seen"}] /\ lapses' \in 0..MaxLapses
  BY <1>0, MarkFacts
<1>2. submitted' \subseteq Message /\ again' \subseteq Message
  BY <1>0 DEF MessagesOK
<1>3. TurnOK' BY <1>0 DEF TurnOK, TurnState
<1>4. CountsOK' BY <1>0, HandleFacts DEF CountsOK
<1>5. QED BY <1>1, <1>2, <1>3, <1>4

LEMMA PollTypes ==
    ASSUME DeliveryTypeOK, WorkIsPosted, NEW p \in Poller,
           StartPoll(p) \/ ListInbox(p) \/ Handled(p) \/ Accept(p) \/ ClaimInjected(p) \/ Reject(p)
    PROVE  DeliveryTypeOK'
<1>0. MessagesOK /\ FlagsOK /\ PollOK /\ TurnOK /\ CountsOK /\ BoundsOK BY TypeParts
<1>t. /\ poll[p] \in PollState
      /\ poll[p].todo \subseteq Message /\ poll[p].inject \subseteq Message
      /\ poll[p].at = "handling" => poll[p].now \in Message
  BY <1>0 DEF PollOK, PollState, WorkIsPosted, Posted
<1>1. CASE StartPoll(p)
  <2> USE <1>0, <1>1 DEF StartPoll
  <2>1. MessagesOK' BY DEF MessagesOK, bus, ghosts
  <2>2. FlagsOK' BY DEF FlagsOK
  <2>3. PollOK' BY DEF PollOK, PollState, NoPoll
  <2>4. TurnOK' /\ CountsOK' /\ BoundsOK'
    BY DEF TurnOK, CountsOK, BoundsOK, ghosts, bounds
  <2>5. QED BY <2>1, <2>2, <2>3, <2>4, TypeJoin
<1>2. CASE ListInbox(p)
  <2> USE <1>0, <1>2 DEF ListInbox
  <2>1. session' \in BOOLEAN BY DEF FlagsOK
  <2>2. Pending \ submitted \in SUBSET Message
    BY DEF MessagesOK, Pending, Unread
  <2>3. PollOK' /\ executed' \in [Message -> Nat] /\ pollRunning' \in BOOLEAN
    BY <2>1, <2>2, LoopTypes
  <2>4. MessagesOK' BY DEF MessagesOK, bus
  <2>5. FlagsOK' BY <2>1, <2>3 DEF FlagsOK
  <2>6. TurnOK' /\ CountsOK' /\ BoundsOK'
    BY <2>3 DEF TurnOK, CountsOK, BoundsOK, bounds
  <2>7. QED BY <2>3, <2>4, <2>5, <2>6, TypeJoin
<1>3. CASE Handled(p)
  <2> USE <1>0, <1>3 DEF Handled
  <2>1. session' \in BOOLEAN BY DEF FlagsOK
  <2>2. PollOK' /\ executed' \in [Message -> Nat] /\ pollRunning' \in BOOLEAN
    BY <2>1, <1>t, LoopTypes
  <2>3. MessagesOK' BY <1>t DEF MessagesOK, bus
  <2>4. FlagsOK' BY <2>1, <2>2 DEF FlagsOK
  <2>5. TurnOK' /\ CountsOK' /\ BoundsOK'
    BY <2>2 DEF TurnOK, CountsOK, BoundsOK, bounds
  <2>6. QED BY <2>2, <2>3, <2>4, <2>5, TypeJoin
<1>4. CASE Accept(p)
  <2> USE <1>0, <1>4 DEF Accept
  <2>1. MessagesOK' BY DEF MessagesOK, bus, memory
  <2>2. FlagsOK' BY DEF FlagsOK, memory
  <2>3. PollOK' BY DEF PollOK, PollState
  <2>4. CountsOK' BY HandOverFacts DEF CountsOK
  <2>5. TurnOK' /\ BoundsOK' BY DEF TurnOK, BoundsOK, bounds
  <2>6. QED BY <2>1, <2>2, <2>3, <2>4, <2>5, TypeJoin
<1>5. CASE ClaimInjected(p)
  <2> USE <1>0, <1>5 DEF ClaimInjected, Finish
  <2>1. MessagesOK' BY <1>t, MarkFacts DEF MessagesOK, ghosts
  <2>2. FlagsOK' BY DEF FlagsOK
  <2>3. PollOK' BY DEF PollOK, PollState, NoPoll
  <2>4. BoundsOK' BY MarkFacts DEF BoundsOK
  <2>5. TurnOK' /\ CountsOK' BY DEF TurnOK, CountsOK, ghosts
  <2>6. QED BY <2>1, <2>2, <2>3, <2>4, <2>5, TypeJoin
<1>6. CASE Reject(p)
  <2> USE <1>0, <1>6 DEF Reject, Finish
  <2>1. MessagesOK' BY DEF MessagesOK, bus, ghosts
  <2>2. FlagsOK' BY DEF FlagsOK
  <2>3. PollOK' BY DEF PollOK, PollState, NoPoll
  <2>4. BoundsOK' BY DeliveryAssumption DEF BoundsOK
  <2>5. TurnOK' /\ CountsOK' BY DEF TurnOK, CountsOK, ghosts
  <2>6. QED BY <2>1, <2>2, <2>3, <2>4, <2>5, TypeJoin
<1>7. QED BY <1>1, <1>2, <1>3, <1>4, <1>5, <1>6

LEMMA TurnTypes ==
    ASSUME DeliveryTypeOK, WorkIsPosted, NEW t \in Turn, BeginTurn(t) \/ GoOn(t)
    PROVE  DeliveryTypeOK'
<1>0. MessagesOK /\ FlagsOK /\ PollOK /\ TurnOK /\ CountsOK /\ BoundsOK BY TypeParts
<1>t. /\ turn[t].todo \subseteq Message /\ turn[t].lines \subseteq Message
      /\ turn[t].at = "handling" => turn[t].now \in Message
  BY <1>0 DEF TurnOK, TurnState, WorkIsPosted, Posted
<1>1. CASE BeginTurn(t)
  <2> DEFINE todo == Pending \ submitted
  <2> USE <1>0, <1>1 DEF BeginTurn
  <2>1. todo \in SUBSET Message BY DEF MessagesOK, Pending, Unread
  <2>2. FlagsOK' BY DEF FlagsOK
  <2>3. CASE \E m \in todo : Take(t, m, todo, {})
    <3>1. PICK m \in todo : Take(t, m, todo, {}) BY <2>3
    <3>2. /\ copy' \in [Message -> {"none", "unread", "seen"}]
          /\ submitted' \subseteq Message /\ again' \subseteq Message
          /\ TurnOK' /\ CountsOK' /\ lapses' \in 0..MaxLapses
      BY <3>1, <2>1, TakeTypes
    <3>3. MessagesOK' BY <3>2 DEF MessagesOK
    <3>4. PollOK' /\ BoundsOK' BY <3>2 DEF PollOK, BoundsOK
    <3>5. QED BY <2>2, <3>2, <3>3, <3>4, TypeJoin
  <2>4. CASE UNCHANGED <<copy, submitted, turn, handed, executed, again, lapses>>
    <3>1. MessagesOK' /\ PollOK' /\ TurnOK' /\ CountsOK' /\ BoundsOK'
      BY <2>4 DEF MessagesOK, PollOK, TurnOK, CountsOK, BoundsOK
    <3>2. QED BY <2>2, <3>1, TypeJoin
  <2>5. QED BY <2>3, <2>4
<1>2. CASE GoOn(t)
  <2> DEFINE now == turn[t].now
             lines == turn[t].lines \cup (IF Runs(now) THEN {} ELSE {now})
             todo == turn[t].todo \ submitted
  <2> USE <1>0, <1>2 DEF GoOn
  <2>1. now \in Message /\ lines \in SUBSET Message /\ todo \in SUBSET Message
    BY <1>t
  <2>2. FlagsOK' /\ PollOK' BY DEF FlagsOK, PollOK
  <2>3. CASE \E m \in todo : Take(t, m, todo, lines)
    <3>1. PICK m \in todo : Take(t, m, todo, lines) BY <2>3
    <3>2. /\ copy' \in [Message -> {"none", "unread", "seen"}]
          /\ submitted' \subseteq Message /\ again' \subseteq Message
          /\ TurnOK' /\ CountsOK' /\ lapses' \in 0..MaxLapses
      BY <3>1, <2>1, TakeTypes
    <3>3. MessagesOK' /\ BoundsOK' BY <3>2 DEF MessagesOK, BoundsOK
    <3>4. QED BY <2>2, <3>2, <3>3, TypeJoin
  <2>4. CASE /\ Mark(todo)
             /\ submitted' = submitted \cup todo
             /\ again' = again \cup (todo \cap Listed)
             /\ PushLines(t, lines \cup todo)
             /\ UNCHANGED executed
    <3>1. MessagesOK' /\ BoundsOK'
      BY <2>1, <2>4, MarkFacts DEF MessagesOK, BoundsOK
    <3>2. CountsOK' BY <2>4, HandOverFacts DEF CountsOK, PushLines
    <3>3. TurnOK' BY <2>4 DEF TurnOK, TurnState, PushLines, Quiet
    <3>4. QED BY <2>2, <3>1, <3>2, <3>3, TypeJoin
  <2>5. QED BY <2>3, <2>4
<1>3. QED BY <1>1, <1>2

\* init: nothing but the files, the backlog and what is lost changes.
LEMMA StartFacts ==
    ASSUME MessagesOK, BoundsOK, Load
    PROVE  /\ copy' \in [Message -> {"none", "unread", "seen"}]
           /\ backlog' \subseteq Message /\ lost' \subseteq Message
           /\ lapses' \in 0..MaxLapses
           /\ \A m \in Message : (copy[m] = "none") <=> (copy'[m] = "none")
           /\ \A m \in Message : copy[m] = "seen" => copy'[m] = "seen"
           /\ backlog' \in {backlog, Unread}
           /\ \A m \in Message :
                 copy[m] # "seen" /\ copy'[m] = "seen"
                    => m \in backlog' \/ Dealt(m) \/ m \in lost'
           /\ lost \subseteq lost'
<1>1. CASE copy' = Seen(Unread) /\ backlog' = Unread /\ UNCHANGED <<lapses, lost>>
  BY <1>1, SeenType DEF MessagesOK, BoundsOK, Unread
<1>2. ASSUME NEW S \in SUBSET Unread,
             lapses < MaxLapses, lapses' = lapses + 1, copy' = Seen(S),
             lost' = lost \cup {m \in S : ~Dealt(m)}, UNCHANGED backlog
      PROVE  /\ copy' \in [Message -> {"none", "unread", "seen"}]
             /\ backlog' \subseteq Message /\ lost' \subseteq Message
             /\ lapses' \in 0..MaxLapses
             /\ \A m \in Message : (copy[m] = "none") <=> (copy'[m] = "none")
             /\ \A m \in Message : copy[m] = "seen" => copy'[m] = "seen"
             /\ backlog' \in {backlog, Unread}
             /\ \A m \in Message :
                   copy[m] # "seen" /\ copy'[m] = "seen"
                      => m \in backlog' \/ Dealt(m) \/ m \in lost'
             /\ lost \subseteq lost'
  <2>1. /\ copy' \in [Message -> {"none", "unread", "seen"}]
        /\ \A m \in Message : copy[m] = "none" => copy'[m] = "none"
        /\ \A m \in Message : copy[m] = "seen" => copy'[m] = "seen"
        /\ \A m \in Message :
              copy[m] = "unread" => copy'[m] = IF m \in S THEN "seen" ELSE "unread"
    BY <1>2, SeenType DEF MessagesOK
  <2>2. lapses' \in 0..MaxLapses BY <1>2, DeliveryAssumption DEF BoundsOK
  <2>3. S \subseteq Message BY <1>2 DEF Unread
  <2>4. QED BY <1>2, <2>1, <2>2, <2>3 DEF MessagesOK
<1>3. QED BY <1>1, <1>2 DEF Load

LEMMA TypeStep == ASSUME DeliveryTypeOK, WorkIsPosted, [DeliveryNext]_deliveryVars PROVE DeliveryTypeOK'
<1>0. MessagesOK /\ FlagsOK /\ PollOK /\ TurnOK /\ CountsOK /\ BoundsOK BY TypeParts
<1>1. ASSUME NEW m \in Message, Post(m) PROVE DeliveryTypeOK'
  <2> USE <1>0, <1>1 DEF Post
  <2>1. MessagesOK' BY DEF MessagesOK, memory, ghosts
  <2>2. FlagsOK' /\ PollOK' /\ TurnOK' /\ CountsOK' /\ BoundsOK'
    BY DEF FlagsOK, PollOK, TurnOK, CountsOK, BoundsOK, memory, ghosts, bounds
  <2>3. QED BY <2>1, <2>2, TypeJoin
<1>2. CASE Load
  <2> USE <1>0, <1>2
  <2>1. MessagesOK' BY StartFacts DEF MessagesOK, Load
  <2>2. BoundsOK' BY StartFacts DEF BoundsOK, Load
  <2>3. FlagsOK' /\ PollOK' /\ TurnOK' /\ CountsOK'
    BY DEF FlagsOK, PollOK, TurnOK, CountsOK, Load
  <2>4. QED BY <2>1, <2>2, <2>3, TypeJoin
<1>3. CASE BecomeReady
  <2> USE <1>0, <1>3 DEF BecomeReady
  <2>1. FlagsOK' BY DEF FlagsOK
  <2>2. MessagesOK' /\ PollOK' /\ TurnOK' /\ CountsOK' /\ BoundsOK'
    BY DEF MessagesOK, PollOK, TurnOK, CountsOK, BoundsOK, bus, ghosts, bounds
  <2>3. QED BY <2>1, <2>2, TypeJoin
<1>4. CASE ProcessDies
  <2> USE <1>0, <1>4 DEF ProcessDies
  <2>1. MessagesOK' BY DEF MessagesOK, bus, Unread
  <2>2. FlagsOK' BY DEF FlagsOK
  <2>3. PollOK' BY DEF PollOK, PollState, NoPoll
  <2>4. TurnOK' BY DEF TurnOK, TurnState, Quiet
  <2>5. CountsOK' BY DEF CountsOK
  <2>6. BoundsOK' BY DeliveryAssumption DEF BoundsOK
  <2>7. QED BY <2>1, <2>2, <2>3, <2>4, <2>5, <2>6, TypeJoin
<1>5. CASE UNCHANGED deliveryVars
  BY <1>5 DEF DeliveryTypeOK, deliveryVars, bus, memory, ghosts, bounds, PollState, TurnState
<1>6. QED BY <1>1, <1>2, <1>3, <1>4, <1>5, PollTypes, TurnTypes DEF DeliveryNext

-----------------------------------------------------------------------------
(* Nothing is stranded.                                                    *)

PollStep(p) ==
    StartPoll(p) \/ ListInbox(p) \/ Handled(p) \/ Accept(p) \/ ClaimInjected(p) \/ Reject(p)

TurnStep(t) == BeginTurn(t) \/ GoOn(t)

\* What no step of a running process undoes.
Keeps ==
    /\ up' = up /\ backlog' = backlog /\ lost' = lost
    /\ \A m \in Posted : m \in Posted' /\ kind'[m] = kind[m]
    /\ \A m \in Message : Dealt(m) => Dealt(m)'
    /\ \A m \in Message : copy[m] = "seen" => copy'[m] = "seen"
    /\ submitted \subseteq submitted'

LEMMA DoneGrows ==
    ASSUME CountsOK,
           \A m \in Message : handed'[m] >= handed[m] /\ executed'[m] >= executed[m],
           CountsOK'
    PROVE  \A m \in Message : Dealt(m) => Dealt(m)'
BY DEF Dealt, CountsOK

LEMMA PollKeeps ==
    ASSUME DeliveryTypeOK, WorkIsPosted, NEW p \in Poller, PollStep(p)
    PROVE  Keeps /\ turn' = turn
<1>0. MessagesOK /\ PollOK /\ CountsOK /\ BoundsOK BY TypeParts
<1>1. DeliveryTypeOK' BY PollTypes DEF PollStep
<1>2. CountsOK' BY <1>1 DEF DeliveryTypeOK, CountsOK
<1>3. \A m \in Message : executed'[m] >= executed[m]
  <2>1. ASSUME executed' = executed PROVE \A m \in Message : executed'[m] >= executed[m]
    BY <2>1, <1>0 DEF CountsOK
  <2>2. ASSUME \E m \in Message : Handle(m)
        PROVE  \A m \in Message : executed'[m] >= executed[m]
    BY <2>2, <1>0, HandleFacts
  <2>3. CASE StartPoll(p) \/ Accept(p) \/ ClaimInjected(p) \/ Reject(p)
    BY <2>1, <2>3 DEF StartPoll, Accept, ClaimInjected, Reject, ghosts
  <2>4. CASE ListInbox(p)
    BY <2>1, <2>2, <2>4, <1>0 DEF ListInbox, PollLoop, Pending, Unread, MessagesOK
  <2>5. CASE Handled(p)
    BY <2>1, <2>2, <2>5, <1>0 DEF Handled, PollLoop, PollOK, PollState
  <2>6. QED BY <2>3, <2>4, <2>5 DEF PollStep
<1>4. \A m \in Message : handed'[m] >= handed[m]
  <2>1. CASE Accept(p) BY <2>1, <1>0, HandOverFacts DEF Accept, CountsOK
  <2>2. CASE handed' = handed BY <2>2, <1>0 DEF CountsOK
  <2>3. QED
    BY <2>1, <2>2 DEF PollStep, StartPoll, ListInbox, Handled, ClaimInjected, Reject, ghosts
<1>5. \A m \in Message : Dealt(m) => Dealt(m)' BY <1>0, <1>2, <1>3, <1>4, DoneGrows
<1>6. /\ \A m \in Posted : m \in Posted' /\ kind'[m] = kind[m]
      /\ \A m \in Message : copy[m] = "seen" => copy'[m] = "seen"
      /\ submitted \subseteq submitted'
  <2>1. CASE ClaimInjected(p)
    BY <2>1, <1>0, MarkFacts DEF ClaimInjected, Posted
  <2>2. CASE StartPoll(p) \/ Accept(p) \/ Reject(p)
    BY <2>2 DEF StartPoll, Accept, Reject, Posted, bus, memory
  <2>3. CASE ListInbox(p) BY <2>3 DEF ListInbox, Posted, bus
  <2>4. CASE Handled(p) BY <2>4 DEF Handled, Posted, bus
  <2>5. QED BY <2>1, <2>2, <2>3, <2>4 DEF PollStep
<1>7. up' = up /\ backlog' = backlog /\ lost' = lost /\ turn' = turn
  <2>1. CASE StartPoll(p) \/ Accept(p) \/ ClaimInjected(p) \/ Reject(p)
    BY <2>1 DEF StartPoll, Accept, ClaimInjected, Reject, ghosts, memory
  <2>2. CASE ListInbox(p) \/ Handled(p) BY <2>2 DEF ListInbox, Handled
  <2>3. QED BY <2>1, <2>2 DEF PollStep
<1>8. QED BY <1>5, <1>6, <1>7 DEF Keeps

LEMMA TakeKeeps ==
    ASSUME DeliveryTypeOK, CountsOK', NEW t \in Turn, NEW m \in Message,
           NEW todo \in SUBSET Message, NEW lines \in SUBSET Message,
           Take(t, m, todo, lines),
           up' = up, backlog' = backlog, lost' = lost, kind' = kind
    PROVE  Keeps
<1>0. MessagesOK /\ CountsOK /\ BoundsOK BY TypeParts
<1>1. handed' = handed BY DEF Take
<1>2. \A n \in Message : handed'[n] >= handed[n] /\ executed'[n] >= executed[n]
  BY <1>0, <1>1, HandleFacts DEF Take, CountsOK
<1>3. /\ \A n \in Posted : n \in Posted'
      /\ \A n \in Message : copy[n] = "seen" => copy'[n] = "seen"
  BY <1>0, MarkFacts DEF Take, Posted
<1>4. submitted \subseteq submitted' BY DEF Take
<1>5. \A n \in Message : Dealt(n) => Dealt(n)' BY <1>0, <1>2, DoneGrows
<1>6. QED BY <1>3, <1>4, <1>5 DEF Keeps

LEMMA TurnKeeps ==
    ASSUME DeliveryTypeOK, WorkIsPosted, NEW t \in Turn, TurnStep(t)
    PROVE  Keeps /\ poll' = poll
<1>0. MessagesOK /\ TurnOK /\ CountsOK /\ BoundsOK BY TypeParts
<1>1. DeliveryTypeOK' BY TurnTypes DEF TurnStep
<1>2. CountsOK' BY <1>1 DEF DeliveryTypeOK, CountsOK
<1>3. up' = up /\ backlog' = backlog /\ lost' = lost /\ poll' = poll /\ kind' = kind
  BY DEF TurnStep, BeginTurn, GoOn
<1>4. CASE BeginTurn(t)
  <2>1. CASE \E m \in Pending \ submitted : Take(t, m, Pending \ submitted, {})
    <3>1. PICK m \in Pending \ submitted : Take(t, m, Pending \ submitted, {})
      BY <2>1
    <3>2. m \in Message BY <1>0 DEF Pending, Unread, MessagesOK
    <3>3. Pending \ submitted \in SUBSET Message
      BY <1>0 DEF Pending, Unread, MessagesOK
    <3>4. QED BY <1>2, <1>3, <3>1, <3>2, <3>3, TakeKeeps
  <2>2. CASE UNCHANGED <<copy, submitted, turn, handed, executed, again, lapses>>
    BY <1>3, <2>2 DEF Keeps, Posted, Dealt
  <2>3. QED BY <1>4, <2>1, <2>2 DEF BeginTurn
<1>5. CASE GoOn(t)
  <2> DEFINE now == turn[t].now
             lines == turn[t].lines \cup (IF Runs(now) THEN {} ELSE {now})
             todo == turn[t].todo \ submitted
  <2>0. todo \in SUBSET Message BY <1>0 DEF TurnOK, TurnState
  <2>1. CASE \E m \in todo : Take(t, m, todo, lines)
    <3>1. PICK m \in todo : Take(t, m, todo, lines) BY <2>1
    <3>2. m \in Message BY <2>0
    <3>3. lines \in SUBSET Message
      BY <1>0, <1>5 DEF GoOn, TurnOK, TurnState, WorkIsPosted, Posted
    <3>4. QED BY <1>2, <1>3, <2>0, <3>1, <3>2, <3>3, TakeKeeps
  <2>2. CASE /\ Mark(todo)
             /\ submitted' = submitted \cup todo
             /\ PushLines(t, lines \cup todo)
             /\ UNCHANGED executed
    <3>1. \A n \in Message : handed'[n] >= handed[n] /\ executed'[n] >= executed[n]
      BY <1>0, <2>2, HandOverFacts DEF PushLines, CountsOK
    <3>2. \A n \in Message : Dealt(n) => Dealt(n)' BY <1>0, <1>2, <3>1, DoneGrows
    <3>3. /\ \A n \in Posted : n \in Posted'
          /\ \A n \in Message : copy[n] = "seen" => copy'[n] = "seen"
      BY <1>0, <2>2, MarkFacts DEF Posted
    <3>4. QED BY <1>3, <2>2, <3>2, <3>3 DEF Keeps
  <2>3. QED BY <1>5, <2>1, <2>2 DEF GoOn
<1>6. QED BY <1>3, <1>4, <1>5 DEF TurnStep

\* While Keeps holds, what is executed stays decided.
LEMMA RunsStays ==
    ASSUME Keeps, NEW m \in Posted PROVE Runs(m)' <=> Runs(m)
BY DEF Keeps, Runs

LEMMA LoopPosted ==
    ASSUME DeliveryTypeOK, WorkIsPosted, DeedsAreDone, Keeps, DeliveryTypeOK', turn' = turn,
           NEW p \in Poller, NEW todo \in SUBSET Posted, NEW inject \in SUBSET Posted,
           NEW sid \in BOOLEAN, PollLoop(p, todo, inject, sid), handed' = handed
    PROVE  WorkIsPosted' /\ DeedsAreDone'
<1>0. PollOK /\ CountsOK /\ Posted \subseteq Message /\ Posted \subseteq Posted'
  BY TypeParts DEF Posted, Keeps
<1>1. /\ \A q \in Poller \ {p} : poll'[q] = poll[q]
      /\ poll'[p].todo \subseteq todo /\ poll'[p].inject \subseteq inject
      /\ poll'[p].at = "handling" => poll'[p].now \in todo /\ Handle(poll'[p].now)
      /\ poll'[p].at # "accepted"
  <2>1. todo \in SUBSET Message /\ inject \in SUBSET Message BY <1>0
  <2>2. QED BY <1>0, <2>1, LoopFacts
<1>2. WorkIsPosted'
  BY <1>0, <1>1 DEF WorkIsPosted, Keeps
<1>3. ASSUME NEW m \in Message, poll'[p].at = "handling", poll'[p].now = m, Runs(m)'
      PROVE  Dealt(m)'
  <2>1. m \in Posted /\ Handle(m) BY <1>0, <1>1, <1>3
  <2>2. Runs(m) BY <1>3, <2>1, RunsStays
  <2>3. executed'[m] = executed[m] + 1 BY <1>0, <2>1, <2>2, HandleFacts
  <2>4. QED BY <1>0, <2>3 DEF Dealt, CountsOK
<1>4. ASSUME NEW m \in Message, NEW q \in Poller,
             poll'[q].at = "handling", poll'[q].now = m, Runs(m)'
      PROVE  Dealt(m)'
  <2>1. CASE q = p BY <1>3, <1>4, <2>1
  <2>2. CASE q # p
    <3>1. poll'[q] = poll[q] BY <1>1, <2>2
    <3>2. m \in Posted BY <1>0, <1>4, <3>1 DEF WorkIsPosted
    <3>3. Runs(m) BY <1>4, <3>2, RunsStays
    <3>4. Dealt(m) BY <1>4, <3>1, <3>3 DEF DeedsAreDone
    <3>5. QED BY <3>4 DEF Keeps
  <2>3. QED BY <2>1, <2>2
<1>5. ASSUME NEW m \in Message, NEW q \in Poller,
             poll'[q].at = "accepted", m \in poll'[q].inject
      PROVE  Dealt(m)'
  <2>1. poll'[q] = poll[q] BY <1>1, <1>5
  <2>2. Dealt(m) BY <1>5, <2>1 DEF DeedsAreDone
  <2>3. QED BY <2>2 DEF Keeps
<1>6. ASSUME NEW m \in Message, NEW t \in Turn,
             turn'[t].at = "handling", turn'[t].now = m, Runs(m)'
      PROVE  Dealt(m)'
  <2>1. m \in Posted BY <1>0, <1>6 DEF WorkIsPosted
  <2>2. Runs(m) BY <1>6, <2>1, RunsStays
  <2>3. Dealt(m) BY <1>6, <2>2 DEF DeedsAreDone
  <2>4. QED BY <2>3 DEF Keeps
<1>7. DeedsAreDone' BY <1>4, <1>5, <1>6 DEF DeedsAreDone
<1>8. QED BY <1>2, <1>7

\* A step of a poll that leaves its own work within what was posted keeps the
\* two invariants about work, whatever became of the poll.
LEMMA PollWork ==
    ASSUME DeliveryTypeOK, WorkIsPosted, DeedsAreDone, NEW p \in Poller, PollStep(p)
    PROVE  WorkIsPosted' /\ DeedsAreDone'
<1>0. /\ MessagesOK /\ PollOK /\ CountsOK /\ Posted \subseteq Message
      /\ DeliveryTypeOK' /\ Keeps /\ turn' = turn
  BY TypeParts, PollKeeps, PollTypes DEF Posted, PollStep
<1>1. ASSUME poll' = [poll EXCEPT ![p] = NoPoll] \/
             poll' = [poll EXCEPT ![p] = [NoPoll EXCEPT !.at = "resolving"]]
      PROVE  WorkIsPosted' /\ DeedsAreDone'
  <2>1. /\ \A q \in Poller \ {p} : poll'[q] = poll[q]
        /\ poll'[p].todo = {} /\ poll'[p].inject = {}
        /\ poll'[p].at \notin {"handling", "accepted"}
    BY <1>0, <1>1 DEF PollOK, NoPoll
  <2>2. WorkIsPosted' BY <1>0, <2>1 DEF WorkIsPosted, Keeps
  <2>3. DeedsAreDone'
    BY <1>0, <2>1, RunsStays DEF DeedsAreDone, Keeps, WorkIsPosted
  <2>4. QED BY <2>2, <2>3
<1>2. CASE StartPoll(p) \/ ClaimInjected(p) \/ Reject(p)
  BY <1>1, <1>2 DEF StartPoll, ClaimInjected, Reject, Finish
<1>3. CASE ListInbox(p)
  <2>1. Pending \ submitted \in SUBSET Posted /\ session' \in BOOLEAN
    BY <1>0, <1>3 DEF ListInbox, Pending, Unread, WorkIsPosted, Posted, DeliveryTypeOK
  <2>2. PollLoop(p, Pending \ submitted, {}, session') /\ handed' = handed
    BY <1>3 DEF ListInbox
  <2>3. QED BY <1>0, <2>1, <2>2, LoopPosted
<1>4. CASE Handled(p)
  <2>1. /\ poll[p].todo \in SUBSET Posted /\ poll[p].inject \in SUBSET Posted
        /\ poll[p].inject \cup {poll[p].now} \in SUBSET Posted
        /\ session \in BOOLEAN /\ session' \in BOOLEAN /\ handed' = handed
    BY <1>0, <1>4 DEF Handled, WorkIsPosted, DeliveryTypeOK
  <2>2. \/ PollLoop(p, poll[p].todo, poll[p].inject, session')
        \/ PollLoop(p, poll[p].todo, poll[p].inject \cup {poll[p].now}, session)
    BY <1>4 DEF Handled
  <2>3. QED BY <1>0, <2>1, <2>2, LoopPosted
<1>5. CASE Accept(p)
  <2>1. /\ \A q \in Poller \ {p} : poll'[q] = poll[q]
        /\ poll'[p].todo = poll[p].todo /\ poll'[p].inject = poll[p].inject
        /\ poll'[p].at = "accepted"
    BY <1>0, <1>5 DEF Accept, PollOK, PollState
  <2>2. WorkIsPosted' BY <1>0, <2>1 DEF WorkIsPosted, Keeps
  <2>3. ASSUME NEW m \in Message, m \in poll[p].inject PROVE Dealt(m)'
    <3>1. handed'[m] = handed[m] + 1 BY <1>0, <1>5, <2>3, HandOverFacts DEF Accept
    <3>2. QED BY <1>0, <3>1 DEF Dealt, CountsOK, DeliveryTypeOK
  <2>4. DeedsAreDone'
    BY <1>0, <2>1, <2>3, RunsStays DEF DeedsAreDone, Keeps, WorkIsPosted
  <2>5. QED BY <2>2, <2>4
<1>6. QED BY <1>2, <1>3, <1>4, <1>5 DEF PollStep

LEMMA TurnWork ==
    ASSUME DeliveryTypeOK, WorkIsPosted, DeedsAreDone, NEW t \in Turn, TurnStep(t)
    PROVE  WorkIsPosted' /\ DeedsAreDone'
<1>0. /\ MessagesOK /\ TurnOK /\ CountsOK /\ Posted \subseteq Message
      /\ DeliveryTypeOK' /\ Keeps /\ poll' = poll
  BY TypeParts, TurnKeeps, TurnTypes DEF Posted, TurnStep
<1>p. \A m \in Message, q \in Poller :
        /\ poll'[q].at = "handling" /\ poll'[q].now = m /\ Runs(m)' => Dealt(m)'
        /\ poll'[q].at = "accepted" /\ m \in poll'[q].inject => Dealt(m)'
  BY <1>0, RunsStays DEF DeedsAreDone, Keeps, WorkIsPosted
<1>t. ASSUME NEW s \in Turn, turn'[s] = turn[s], NEW m \in Message,
             turn'[s].at = "handling", turn'[s].now = m, Runs(m)'
      PROVE  Dealt(m)'
  BY <1>0, <1>t, RunsStays DEF DeedsAreDone, Keeps, WorkIsPosted
<1>1. ASSUME NEW m \in Posted, NEW todo \in SUBSET Posted, NEW lines \in SUBSET Posted,
             Take(t, m, todo, lines)
      PROVE  WorkIsPosted' /\ DeedsAreDone'
  <2>1. /\ \A s \in Turn \ {t} : turn'[s] = turn[s]
        /\ turn'[t].todo \subseteq todo /\ turn'[t].lines = lines
        /\ turn'[t].now = m /\ turn'[t].at = "handling"
    BY <1>0, <1>1 DEF Take, TurnOK
  <2>2. WorkIsPosted' BY <1>0, <2>1 DEF WorkIsPosted, Keeps
  <2>3. Runs(m)' => Dealt(m)'
    <3>1. Runs(m) => executed'[m] = executed[m] + 1
      BY <1>0, <1>1, HandleFacts DEF Take
    <3>2. Runs(m)' => Runs(m) BY <1>0, RunsStays
    <3>3. QED BY <1>0, <3>1, <3>2 DEF Dealt, CountsOK, DeliveryTypeOK
  <2>4. DeedsAreDone' BY <1>0, <1>p, <1>t, <2>1, <2>3 DEF DeedsAreDone
  <2>5. QED BY <2>2, <2>4
<1>2. ASSUME turn' = turn \/ turn' = [turn EXCEPT ![t] = Quiet]
      PROVE  WorkIsPosted' /\ DeedsAreDone'
  <2>1. \A s \in Turn : turn'[s] \in {turn[s], Quiet}
    BY <1>0, <1>2 DEF TurnOK
  <2>2. WorkIsPosted'
    <3>1. Quiet.todo = {} /\ Quiet.lines = {} /\ Quiet.at = "idle" BY DEF Quiet
    <3>2. ASSUME NEW s \in Turn
          PROVE  /\ turn'[s].todo \cup turn'[s].lines \subseteq Posted'
                 /\ turn'[s].at = "handling" => turn'[s].now \in Posted'
                 /\ turn'[s].at = "idle" => turn'[s] = Quiet
      BY <1>0, <2>1, <3>1 DEF WorkIsPosted, Keeps
    <3>3. QED BY <1>0, <3>2 DEF WorkIsPosted, Keeps
  <2>3. DeedsAreDone' BY <1>0, <1>p, <1>t, <2>1 DEF DeedsAreDone, Quiet
  <2>4. QED BY <2>2, <2>3
<1>3. CASE BeginTurn(t)
  <2> DEFINE todo == Pending \ submitted
  <2>1. todo \in SUBSET Posted
    BY <1>0 DEF Pending, Unread, WorkIsPosted, Posted
  <2>2. CASE \E m \in todo : Take(t, m, todo, {})
    <3>1. PICK m \in todo : Take(t, m, todo, {}) BY <2>2
    <3>2. m \in Posted BY <2>1
    <3>3. QED BY <1>1, <2>1, <3>1, <3>2
  <2>3. CASE turn' = turn BY <1>2, <2>3
  <2>4. QED BY <1>3, <2>2, <2>3 DEF BeginTurn
<1>4. CASE GoOn(t)
  <2> DEFINE now == turn[t].now
             lines == turn[t].lines \cup (IF Runs(now) THEN {} ELSE {now})
             todo == turn[t].todo \ submitted
  <2>1. todo \in SUBSET Posted /\ lines \in SUBSET Posted
    BY <1>4 DEF GoOn, WorkIsPosted
  <2>2. CASE \E m \in todo : Take(t, m, todo, lines)
    <3>1. PICK m \in todo : Take(t, m, todo, lines) BY <2>2
    <3>2. m \in Posted BY <2>1
    <3>3. QED BY <1>1, <2>1, <3>1, <3>2
  <2>3. CASE PushLines(t, lines \cup todo) BY <1>2, <2>3 DEF PushLines
  <2>4. QED BY <1>4, <2>2, <2>3 DEF GoOn
<1>5. QED BY <1>3, <1>4 DEF TurnStep

LEMMA PollStrandsNone ==
    ASSUME IInv, NEW p \in Poller, PollStep(p)
    PROVE  NotStranded'
<1>0. /\ DeliveryTypeOK /\ MessagesOK /\ PollOK /\ BoundsOK /\ Keeps /\ turn' = turn
      /\ WorkIsPosted /\ DeedsAreDone
  BY PollKeeps, TypeParts DEF IInv
<1>1. ASSUME NEW m \in Message, Claimed(m)', ~Claimed(m) PROVE Dealt(m)'
  <2>1. CASE ClaimInjected(p)
    <3>1. m \in poll[p].inject /\ poll[p].at = "accepted"
      BY <1>0, <1>1, <2>1, MarkFacts DEF ClaimInjected, Claimed, Keeps
    <3>2. QED BY <1>0, <3>1 DEF DeedsAreDone, Keeps
  <2>2. CASE Handled(p)
    <3>1. m = poll[p].now /\ Runs(m) /\ poll[p].at = "handling"
      BY <1>1, <2>2 DEF Handled, Claimed, bus
    <3>2. QED BY <1>0, <3>1 DEF DeedsAreDone, Keeps
  <2>3. CASE StartPoll(p) \/ ListInbox(p) \/ Accept(p) \/ Reject(p)
    BY <1>1, <2>3 DEF StartPoll, ListInbox, Accept, Reject, Claimed, bus, memory
  <2>4. QED BY <2>1, <2>2, <2>3 DEF PollStep
<1>2. ASSUME NEW m \in Message, Claimed(m)' PROVE Dealt(m)' \/ InHand(m)' \/ m \in lost'
  <2>1. CASE Claimed(m)
    <3>1. Dealt(m) \/ InHand(m) \/ m \in lost BY <2>1 DEF IInv, NotStranded
    <3>2. InHand(m)' <=> InHand(m) BY <1>0 DEF InHand
    <3>3. QED BY <1>0, <3>1, <3>2 DEF Keeps
  <2>2. QED BY <1>1, <1>2, <2>1
<1>3. QED BY <1>2 DEF NotStranded

LEMMA TurnStrandsNone ==
    ASSUME IInv, NEW t \in Turn, TurnStep(t)
    PROVE  NotStranded'
<1>0. /\ DeliveryTypeOK /\ MessagesOK /\ TurnOK /\ CountsOK /\ BoundsOK /\ Keeps
      /\ DeliveryTypeOK' /\ WorkIsPosted /\ DeedsAreDone
  BY TurnKeeps, TurnTypes, TypeParts DEF IInv, TurnStep
\* What this turn has in hand stays there or is dealt with.
<1>1. ASSUME NEW S \in SUBSET Message,
             \A m \in Message : Claimed(m)' => Claimed(m) \/ m \in S,
             \A m \in S : Dealt(m)' \/ InHand(m)',
             \A m \in turn[t].lines \cup {turn[t].now} :
                 m \in Message => Dealt(m)' \/ InHand(m)',
             \A s \in Turn \ {t} : turn'[s] = turn[s]
      PROVE  NotStranded'
  <2>1. ASSUME NEW m \in Message, Claimed(m)'
        PROVE  Dealt(m)' \/ InHand(m)' \/ m \in lost'
    <3>1. CASE m \in S BY <1>1, <3>1
    <3>2. CASE Claimed(m)
      <4>1. Dealt(m) \/ InHand(m) \/ m \in lost BY <3>2 DEF IInv, NotStranded
      <4>2. CASE Dealt(m) \/ m \in lost BY <1>0, <4>2 DEF Keeps
      <4>3. ASSUME NEW s \in Turn, m \in turn[s].lines \cup {turn[s].now}
            PROVE  Dealt(m)' \/ InHand(m)'
        <5>1. CASE s = t BY <1>1, <4>3, <5>1
        <5>2. CASE s # t
          <6>1. turn'[s] = turn[s] BY <1>1, <5>2
          <6>2. QED BY <4>3, <6>1 DEF InHand
        <5>3. QED BY <5>1, <5>2
      <4>4. QED BY <4>1, <4>2, <4>3 DEF InHand
    <3>3. QED BY <1>1, <2>1, <3>1, <3>2
  <2>2. QED BY <2>1 DEF NotStranded
<1>2. ASSUME NEW m \in Message, NEW todo \in SUBSET Message, NEW lines \in SUBSET Message,
             Take(t, m, todo, lines), backlog' = backlog,
             \A n \in turn[t].lines \cup {turn[t].now} :
                 n \in Message => Dealt(n) \/ n \in lines
      PROVE  NotStranded'
  <2>1. /\ turn'[t].lines = lines /\ turn'[t].now = m
        /\ \A s \in Turn \ {t} : turn'[s] = turn[s]
    BY <1>0, <1>2 DEF Take, TurnOK
  <2>2. \A n \in Message : Claimed(n)' => Claimed(n) \/ n \in {m}
    BY <1>0, <1>2, MarkFacts DEF Take, Claimed
  <2>3. \A n \in {m} : Dealt(n)' \/ InHand(n)' BY <2>1 DEF InHand
  <2>4. \A n \in lines : InHand(n)' BY <2>1 DEF InHand
  <2>5. \A n \in turn[t].lines \cup {turn[t].now} :
            n \in Message => Dealt(n)' \/ InHand(n)'
    BY <1>0, <1>2, <2>4 DEF Keeps
  <2>6. {m} \in SUBSET Message BY <1>2
  <2>7. QED BY <1>1, <2>1, <2>2, <2>3, <2>5, <2>6
<1>3. CASE BeginTurn(t)
  <2> DEFINE todo == Pending \ submitted
  <2>0. todo \in SUBSET Message BY <1>0 DEF Pending, Unread, MessagesOK
  <2>1. turn[t].lines = {} /\ turn[t].now \notin Message
    BY <1>3, DeliveryAssumption DEF BeginTurn, Quiet
  <2>2. CASE \E m \in todo : Take(t, m, todo, {})
    <3>1. PICK m \in todo : Take(t, m, todo, {}) BY <2>2
    <3>2. m \in Message /\ backlog' = backlog BY <2>0, <1>3 DEF BeginTurn
    <3>3. QED BY <1>2, <2>0, <2>1, <3>1, <3>2
  <2>3. CASE UNCHANGED <<copy, submitted, turn, handed, executed, again, lapses>>
    <3>1. \A m \in Message : Claimed(m)' <=> Claimed(m)
      BY <1>3, <2>3 DEF Claimed, BeginTurn
    <3>2. \A m \in Message : InHand(m) => InHand(m)' BY <2>3 DEF InHand
    <3>3. QED BY <1>0, <3>1, <3>2 DEF IInv, NotStranded, Keeps
  <2>4. QED BY <1>3, <2>2, <2>3 DEF BeginTurn
<1>4. CASE GoOn(t)
  <2> DEFINE now == turn[t].now
             lines == turn[t].lines \cup (IF Runs(now) THEN {} ELSE {now})
             todo == turn[t].todo \ submitted
  <2>0. /\ todo \in SUBSET Message /\ lines \in SUBSET Message /\ now \in Message
        /\ backlog' = backlog
    BY <1>0, <1>4 DEF GoOn, WorkIsPosted, Posted, TurnOK, TurnState
  <2>1. \A n \in turn[t].lines \cup {now} : n \in Message => Dealt(n) \/ n \in lines
    BY <1>0, <1>4, <2>0 DEF GoOn, DeedsAreDone
  <2>2. CASE \E m \in todo : Take(t, m, todo, lines)
    <3>1. PICK m \in todo : Take(t, m, todo, lines) BY <2>2
    <3>2. QED BY <1>2, <2>0, <2>1, <3>1
  <2>3. CASE /\ Mark(todo)
             /\ submitted' = submitted \cup todo
             /\ PushLines(t, lines \cup todo)
             /\ UNCHANGED executed
    <3>1. \A s \in Turn \ {t} : turn'[s] = turn[s]
      BY <1>0, <2>3 DEF PushLines, TurnOK
    <3>2. \A n \in Message : Claimed(n)' => Claimed(n) \/ n \in todo
      BY <1>0, <2>0, <2>3, MarkFacts DEF Claimed
    <3>3. \A n \in lines \cup todo : Dealt(n)'
      <4>1. \A n \in lines \cup todo : handed'[n] = handed[n] + 1
        BY <1>0, <2>0, <2>3, HandOverFacts DEF PushLines
      <4>2. QED BY <1>0, <2>0, <4>1 DEF Dealt, CountsOK, DeliveryTypeOK
    <3>4. \A n \in turn[t].lines \cup {turn[t].now} :
              n \in Message => Dealt(n)' \/ InHand(n)'
      BY <1>0, <2>1, <3>3 DEF Keeps
    <3>5. QED BY <1>1, <2>0, <3>1, <3>2, <3>3, <3>4
  <2>4. QED BY <1>4, <2>2, <2>3 DEF GoOn
<1>5. QED BY <1>3, <1>4 DEF TurnStep

-----------------------------------------------------------------------------
(* The invariant.                                                          *)

LEMMA InitInv == DeliveryInit => IInv
<1> SUFFICES ASSUME DeliveryInit PROVE IInv
  OBVIOUS
<1>1. DeliveryTypeOK BY InitTypes
<1>2. DownIsEmpty BY DEF DeliveryInit, DownIsEmpty
<1>3. WorkIsPosted BY DEF DeliveryInit, WorkIsPosted, NoPoll, Quiet
<1>4. DeedsAreDone BY DEF DeliveryInit, DeedsAreDone, NoPoll, Quiet
<1>5. NotStranded BY DEF DeliveryInit, NotStranded, Claimed
<1>6. QED BY <1>1, <1>2, <1>3, <1>4, <1>5 DEF IInv

LEMMA DownStep == ASSUME IInv, [DeliveryNext]_deliveryVars PROVE DownIsEmpty'
<1> USE DEF DownIsEmpty
<1>1. ASSUME NEW m \in Message, Post(m) PROVE DownIsEmpty'
  BY <1>1 DEF Post, memory, IInv
<1>2. CASE Load \/ BecomeReady BY <1>2 DEF Load, BecomeReady, IInv
<1>3. CASE ProcessDies BY <1>3 DEF ProcessDies
<1>4. ASSUME NEW p \in Poller, PollStep(p) PROVE DownIsEmpty'
  <2>1. up' = up BY <1>4, PollKeeps DEF Keeps, IInv
  <2>2. up
    <3>1. CASE StartPoll(p) BY <3>1 DEF StartPoll
    <3>2. ASSUME poll[p].at # "idle" PROVE up BY <3>2 DEF NoPoll, IInv
    <3>3. QED
      BY <1>4, <3>1, <3>2 DEF PollStep, ListInbox, Handled, Accept, ClaimInjected, Reject
  <2>3. QED BY <2>1, <2>2
<1>5. ASSUME NEW t \in Turn, TurnStep(t) PROVE DownIsEmpty'
  <2>1. up' = up BY <1>5, TurnKeeps DEF Keeps, IInv
  <2>2. up BY <1>5 DEF TurnStep, BeginTurn, GoOn, Quiet, IInv
  <2>3. QED BY <2>1, <2>2
<1>6. CASE UNCHANGED deliveryVars BY <1>6 DEF deliveryVars, memory, IInv
<1>7. QED
  BY <1>1, <1>2, <1>3, <1>4, <1>5, <1>6 DEF DeliveryNext, PollStep, TurnStep

LEMMA InvStep == ASSUME IInv, [DeliveryNext]_deliveryVars PROVE IInv'
<1>0. /\ DeliveryTypeOK /\ DeliveryTypeOK' /\ DownIsEmpty /\ WorkIsPosted /\ DeedsAreDone /\ NotStranded
      /\ MessagesOK /\ BoundsOK /\ CountsOK
  BY TypeStep, TypeParts DEF IInv
<1>1. DownIsEmpty' BY DownStep
<1>2. SUFFICES WorkIsPosted' /\ DeedsAreDone' /\ NotStranded'
  BY <1>0, <1>1 DEF IInv
<1>3. ASSUME NEW m \in Message, Post(m)
      PROVE  WorkIsPosted' /\ DeedsAreDone' /\ NotStranded'
  <2> USE <1>3 DEF Post
  <2>1. Posted \subseteq Posted' /\ \A n \in Message \ {m} : kind'[n] = kind[n] /\ copy'[n] = copy[n]
    BY <1>0 DEF Posted, MessagesOK
  <2>2. m \notin Posted BY DEF Posted
  <2>3. WorkIsPosted' BY <1>0, <2>1 DEF WorkIsPosted, memory
  <2>4. \A n \in Message : Dealt(n)' <=> Dealt(n) BY DEF Dealt, ghosts
  <2>5. \A n \in Posted : Runs(n)' <=> Runs(n)
    BY <2>1, <2>2 DEF Runs, memory, Posted
  <2>6. DeedsAreDone'
    BY <1>0, <2>4, <2>5 DEF DeedsAreDone, WorkIsPosted
  <2>7. \A n \in Message : Claimed(n)' => Claimed(n)
    BY <1>0 DEF Claimed, memory, MessagesOK
  <2>8. NotStranded'
    BY <1>0, <2>4, <2>7 DEF NotStranded, InHand, ghosts
  <2>9. QED BY <2>3, <2>6, <2>8
<1>4. CASE Load
  <2>1. ~up /\ poll' = poll /\ turn' = turn /\ submitted' = submitted
        /\ handed' = handed /\ executed' = executed
    BY <1>4 DEF Load
  <2>2. /\ \A p \in Poller : poll'[p] = NoPoll
        /\ \A t \in Turn : turn'[t] = Quiet
        /\ submitted = {} /\ backlog = {}
    BY <1>0, <2>1 DEF DownIsEmpty
  <2>3. WorkIsPosted'
    <3>1. backlog' \subseteq Posted' BY <1>0, <1>4, <2>2, StartFacts DEF Posted, Unread, MessagesOK
    <3>2. QED BY <2>2, <3>1 DEF WorkIsPosted, NoPoll, Quiet
  <2>4. DeedsAreDone' BY <2>2 DEF DeedsAreDone, NoPoll, Quiet
  <2>5. \A n \in Message : Claimed(n)' => Claimed(n) \/ Dealt(n) \/ n \in lost'
    BY <1>0, <1>4, <2>1, <2>2, StartFacts DEF Claimed
  <2>6. \A n \in Message : ~InHand(n)
    BY <2>1, <2>2, DeliveryAssumption DEF InHand, Quiet
  <2>7. \A n \in Message : Claimed(n) => Dealt(n) \/ n \in lost
    BY <1>0, <2>6 DEF NotStranded
  <2>8. \A n \in Message : Dealt(n)' <=> Dealt(n) BY <2>1 DEF Dealt
  <2>9. lost \subseteq lost' BY <1>0, <1>4, StartFacts
  <2>10. NotStranded' BY <2>5, <2>7, <2>8, <2>9 DEF NotStranded
  <2>11. QED BY <2>3, <2>4, <2>10
<1>5. CASE BecomeReady \/ UNCHANGED deliveryVars
  <2>1. UNCHANGED <<bus, up, submitted, backlog, poll, turn, ghosts>>
    BY <1>5 DEF BecomeReady, deliveryVars, memory
  <2>2. QED
    BY <1>0, <2>1 DEF WorkIsPosted, DeedsAreDone, NotStranded, Posted, Runs,
                      Claimed, InHand, Dealt, bus, ghosts
<1>6. CASE ProcessDies
  <2>1. /\ \A p \in Poller : poll'[p] = NoPoll
        /\ \A t \in Turn : turn'[t] = Quiet
    BY <1>6 DEF ProcessDies
  <2>2. WorkIsPosted' BY <1>6, <2>1 DEF WorkIsPosted, NoPoll, Quiet, ProcessDies
  <2>3. DeedsAreDone' BY <2>1 DEF DeedsAreDone, NoPoll, Quiet
  <2>4. NotStranded'
    BY <1>6 DEF NotStranded, ProcessDies, Claimed, Dealt, bus
  <2>5. QED BY <2>2, <2>3, <2>4
<1>7. ASSUME NEW p \in Poller, PollStep(p)
      PROVE  WorkIsPosted' /\ DeedsAreDone' /\ NotStranded'
  BY <1>0, <1>7, PollWork, PollStrandsNone
<1>8. ASSUME NEW t \in Turn, TurnStep(t)
      PROVE  WorkIsPosted' /\ DeedsAreDone' /\ NotStranded'
  BY <1>0, <1>8, TurnWork, TurnStrandsNone
<1>9. QED
  BY <1>3, <1>4, <1>5, <1>6, <1>7, <1>8 DEF DeliveryNext, PollStep, TurnStep

LEMMA Invariant == DeliverySpec => []IInv
<1>1. IInv /\ [DeliveryNext]_deliveryVars => IInv' BY InvStep
<1>2. QED BY <1>1, InitInv, PTL DEF DeliverySpec

-----------------------------------------------------------------------------
\* The plugin's and the bus's state stay well typed through polls, turns,
\* killed calls and deaths.
THEOREM TypeCorrect == DeliverySpec => []DeliveryTypeOK
<1>1. IInv => DeliveryTypeOK BY DEF IInv
<1>2. QED BY <1>1, Invariant, PTL

\* poll and the hook at the start of a turn: what is claimed was given to the
\* model or executed, or a turn has it in hand, or the process died with it.
THEOREM NoneStranded == DeliverySpec => []NotStranded
<1>1. IInv => NotStranded BY DEF IInv
<1>2. QED BY <1>1, Invariant, PTL

-----------------------------------------------------------------------------
(* Nothing is done twice.                                                  *)

\* One poll runs at a time, and it knows where it is.
OnePoll ==
    /\ \A p \in Poller :
          /\ poll[p].at = "idle" => poll[p] = NoPoll
          /\ poll[p].at # "idle" => pollRunning
          /\ poll[p].at = "resolving" => poll[p].inject = {}
          /\ poll[p].at \notin {"idle", "handling"} => poll[p].todo = {}
          /\ poll[p].todo \cap poll[p].inject = {}
          /\ poll[p].at = "handling" =>
                poll[p].now \notin poll[p].todo \cup poll[p].inject
    /\ \A p, q \in Poller : poll[p].at # "idle" /\ poll[q].at # "idle" => p = q

\* A turn has still to do what is pending or was claimed meanwhile.
TurnsKnow ==
    /\ \A t \in Turn : turn[t].todo \subseteq Pending \cup submitted
    /\ \A m \in Message : Dealt(m) => m \in Posted

\* The poll p has done its part with m and has not claimed it yet.
Doing(p, m) ==
    \/ poll[p].at = "handling" /\ poll[p].now = m /\ Runs(m)
    \/ poll[p].at = "accepted" /\ m \in poll[p].inject

Waits(p, m) ==
    m \in poll[p].todo \cup poll[p].inject \/ (poll[p].at = "handling" /\ poll[p].now = m)

Holds(t, m) ==
    m \in turn[t].lines \/ (turn[t].at = "handling" /\ turn[t].now = m)

\* Whoever has m in hand is alone with it, and m was not done before.
Once(m) ==
    /\ handed[m] + executed[m] <= 1
    /\ Dealt(m) /\ m \in Pending => m \in submitted \/ \E p \in Poller : Doing(p, m)
    /\ \A p \in Poller : Waits(p, m) => m \notin submitted /\ (Dealt(m) => Doing(p, m))
    /\ \A t \in Turn :
          /\ Holds(t, m) => m \in submitted
          /\ m \in turn[t].lines => ~Dealt(m) /\ turn[t].now # m
          /\ turn[t].at = "handling" /\ turn[t].now = m /\ Dealt(m) => Runs(m)
    /\ \A s, t \in Turn : Holds(s, m) /\ Holds(t, m) => s = t

OnceInv ==
    /\ OnePoll
    /\ TurnsKnow
    /\ \A m \in Message \ again : Once(m)

\* The loop of the poll again, and what becomes of its lists.
LEMMA LoopShape ==
    ASSUME PollOK, NEW p \in Poller,
           NEW todo \in SUBSET Message, NEW inject \in SUBSET Message,
           NEW sid \in BOOLEAN, PollLoop(p, todo, inject, sid)
    PROVE  /\ \A q \in Poller \ {p} : poll'[q] = poll[q]
           /\ \/ /\ poll'[p].at = "handling"
                 /\ poll'[p].now \in todo
                 /\ poll'[p].todo = todo \ {poll'[p].now}
                 /\ poll'[p].inject = inject
                 /\ Handle(poll'[p].now)
                 /\ pollRunning' = pollRunning
              \/ /\ poll'[p].at = "prompting"
                 /\ todo = {} /\ poll'[p].todo = {} /\ poll'[p].inject = inject
                 /\ executed' = executed
                 /\ pollRunning' = pollRunning
              \/ poll'[p] = NoPoll /\ todo = {} /\ inject = {} /\ executed' = executed
<1>1. CASE \E m \in todo :
          /\ poll' = [poll EXCEPT ![p] = [at |-> "handling", todo |-> todo \ {m},
                                          now |-> m, inject |-> inject, sid |-> FALSE]]
          /\ Handle(m)
          /\ UNCHANGED pollRunning
  BY <1>1 DEF PollOK, PollState
<1>2. CASE /\ todo = {}
           /\ poll' = [poll EXCEPT ![p] = [NoPoll EXCEPT !.at = "prompting",
                                                      !.inject = inject, !.sid = sid]]
           /\ UNCHANGED <<executed, pollRunning>>
  BY <1>2 DEF PollOK, PollState, NoPoll
<1>3. CASE todo = {} /\ inject = {} /\ Finish(p) /\ executed' = executed
  BY <1>3 DEF PollOK, PollState, Finish
<1>4. QED BY <1>1, <1>2, <1>3 DEF PollLoop

LEMMA IdlePoll == /\ NoPoll.at = "idle" /\ NoPoll.todo = {} /\ NoPoll.inject = {}
BY DEF NoPoll

LEMMA QuietTurn == Quiet.at = "idle" /\ Quiet.todo = {} /\ Quiet.lines = {}
BY DEF Quiet

LEMMA OnePollLoop ==
    ASSUME PollOK, OnePoll, NEW p \in Poller, poll[p].at # "idle",
           NEW todo \in SUBSET Message, NEW inject \in SUBSET Message,
           todo \cap inject = {},
           NEW sid \in BOOLEAN, PollLoop(p, todo, inject, sid)
    PROVE  OnePoll'
<1>0. pollRunning BY DEF OnePoll
<1>1. /\ \A q \in Poller \ {p} : poll'[q] = poll[q]
      /\ \/ /\ poll'[p].at = "handling"
            /\ poll'[p].now \in todo
            /\ poll'[p].todo = todo \ {poll'[p].now}
            /\ poll'[p].inject = inject
            /\ Handle(poll'[p].now)
            /\ pollRunning' = pollRunning
         \/ /\ poll'[p].at = "prompting"
            /\ todo = {} /\ poll'[p].todo = {} /\ poll'[p].inject = inject
            /\ executed' = executed
            /\ pollRunning' = pollRunning
         \/ poll'[p] = NoPoll /\ todo = {} /\ inject = {} /\ executed' = executed
  BY LoopShape, Zenon
<1>2. \A q \in Poller \ {p} : poll'[q] = NoPoll /\ poll'[q].at = "idle"
  <2>1. \A q \in Poller \ {p} : poll[q].at = "idle" BY DEF OnePoll
  <2>2. QED BY <1>1, <2>1 DEF OnePoll
<1>3. \A q, r \in Poller : poll'[q].at # "idle" /\ poll'[r].at # "idle" => q = r
  BY <1>2
<1>4. /\ poll'[p].at = "idle" => poll'[p] = NoPoll
      /\ poll'[p].at # "idle" => pollRunning'
      /\ poll'[p].at = "resolving" => poll'[p].inject = {}
      /\ poll'[p].at \notin {"idle", "handling"} => poll'[p].todo = {}
      /\ poll'[p].todo \cap poll'[p].inject = {}
      /\ poll'[p].at = "handling" =>
            poll'[p].now \notin poll'[p].todo \cup poll'[p].inject
  BY <1>0, <1>1, IdlePoll
<1>5. QED BY <1>2, <1>3, <1>4, IdlePoll DEF OnePoll

LEMMA OnePollStep == ASSUME IInv, OnePoll, [DeliveryNext]_deliveryVars PROVE OnePoll'
<1>0. MessagesOK /\ FlagsOK /\ PollOK /\ CountsOK BY TypeParts DEF IInv
<1>1. ASSUME UNCHANGED <<poll, pollRunning>> PROVE OnePoll'
  BY <1>1 DEF OnePoll
<1>2. CASE (\E m \in Message : Post(m)) \/ Load \/ BecomeReady \/ UNCHANGED deliveryVars
  BY <1>1, <1>2 DEF Post, Load, BecomeReady, deliveryVars, memory
<1>3. CASE ProcessDies BY <1>3, IdlePoll DEF ProcessDies, OnePoll
<1>4. ASSUME NEW t \in Turn, TurnStep(t) PROVE OnePoll'
  BY <1>1, <1>4 DEF TurnStep, BeginTurn, GoOn
<1>5. ASSUME NEW p \in Poller, PollStep(p) PROVE OnePoll'
  <2>1. CASE StartPoll(p)
    <3>1. \A q \in Poller : poll[q] = NoPoll BY <2>1 DEF StartPoll, OnePoll
    <3>2. /\ pollRunning' /\ \A q \in Poller \ {p} : poll'[q] = NoPoll
          /\ poll'[p].at = "resolving" /\ poll'[p].inject = {} /\ poll'[p].todo = {}
      BY <2>1, <3>1, <1>0 DEF StartPoll, PollOK, NoPoll
    <3>3. QED BY <3>2, IdlePoll DEF OnePoll
  <2>2. CASE ListInbox(p)
    <3>1. Pending \ submitted \in SUBSET Message /\ session' \in BOOLEAN
      BY <1>0, <2>2 DEF ListInbox, Pending, Unread, MessagesOK, FlagsOK
    <3>2. poll[p].at # "idle" BY <2>2 DEF ListInbox
    <3>3. QED BY <1>0, <2>2, <3>1, <3>2, OnePollLoop DEF ListInbox
  <2>3. CASE Handled(p)
    <3>1. /\ poll[p].todo \in SUBSET Message /\ poll[p].inject \in SUBSET Message
          /\ poll[p].now \in Message /\ poll[p].at # "idle"
          /\ session \in BOOLEAN /\ session' \in BOOLEAN
      BY <1>0, <2>3 DEF Handled, PollOK, PollState, IInv, WorkIsPosted, Posted, FlagsOK
    <3>2. /\ poll[p].todo \cap poll[p].inject = {}
          /\ poll[p].todo \cap (poll[p].inject \cup {poll[p].now}) = {}
      BY <2>3 DEF Handled, OnePoll
    <3>3. \/ PollLoop(p, poll[p].todo, poll[p].inject, session')
          \/ PollLoop(p, poll[p].todo, poll[p].inject \cup {poll[p].now}, session)
      BY <2>3 DEF Handled
    <3>4. poll[p].inject \cup {poll[p].now} \in SUBSET Message BY <3>1
    <3>5. QED BY <1>0, <3>1, <3>2, <3>3, <3>4, OnePollLoop
  <2>4. CASE Accept(p)
    <3>1. /\ \A q \in Poller \ {p} : poll'[q] = poll[q]
          /\ poll'[p].at = "accepted" /\ poll'[p].todo = poll[p].todo
          /\ poll'[p].inject = poll[p].inject /\ poll[p].at = "prompting"
          /\ pollRunning' = pollRunning
      BY <2>4, <1>0 DEF Accept, PollOK, PollState, memory
    <3>2. QED BY <3>1 DEF OnePoll
  <2>5. CASE ClaimInjected(p) \/ Reject(p)
    <3>1. \A q \in Poller \ {p} : poll'[q] = poll[q] /\ poll[q] = NoPoll
      BY <2>5, <1>0 DEF ClaimInjected, Reject, Finish, PollOK, OnePoll
    <3>2. poll'[p] = NoPoll BY <2>5, <1>0 DEF ClaimInjected, Reject, Finish, PollOK
    <3>3. QED BY <3>1, <3>2, IdlePoll DEF OnePoll
  <2>6. QED BY <1>5, <2>1, <2>2, <2>3, <2>4, <2>5 DEF PollStep
<1>6. QED BY <1>2, <1>3, <1>4, <1>5 DEF DeliveryNext, PollStep, TurnStep

\* Once(m), cut in the parts that a step may disturb.
LEMMA OnceParts ==
    ASSUME NEW m \in Message,
           handed'[m] + executed'[m] <= 1,
           Dealt(m)' /\ m \in Pending' =>
               m \in submitted' \/ \E p \in Poller : Doing(p, m)',
           \A p \in Poller : Waits(p, m)' =>
               m \notin submitted' /\ (Dealt(m)' => Doing(p, m)'),
           \A t \in Turn :
               /\ Holds(t, m)' => m \in submitted'
               /\ m \in turn'[t].lines => ~Dealt(m)' /\ turn'[t].now # m
               /\ turn'[t].at = "handling" /\ turn'[t].now = m /\ Dealt(m)' => Runs(m)',
           \A s, t \in Turn : Holds(s, m)' /\ Holds(t, m)' => s = t
    PROVE  Once(m)'
BY DEF Once

\* Turns that stand still, while m is not done now that was not done before.
LEMMA TurnsStand ==
    ASSUME NEW m \in Message, Once(m), turn' = turn,
           submitted \subseteq submitted',
           Dealt(m)' => Dealt(m) \/ m \notin submitted,
           Runs(m)' <=> Runs(m)
    PROVE  /\ \A t \in Turn :
                /\ Holds(t, m)' => m \in submitted'
                /\ m \in turn'[t].lines => ~Dealt(m)' /\ turn'[t].now # m
                /\ turn'[t].at = "handling" /\ turn'[t].now = m /\ Dealt(m)' => Runs(m)'
           /\ \A s, t \in Turn : Holds(s, m)' /\ Holds(t, m)' => s = t
<1>1. \A t \in Turn : Holds(t, m)' <=> Holds(t, m) BY DEF Holds
<1>2. \A t \in Turn : m \in turn[t].lines => Holds(t, m) BY DEF Holds
<1>3. \A t \in Turn : turn[t].at = "handling" /\ turn[t].now = m => Holds(t, m)
  BY DEF Holds
<1>4. QED BY <1>1, <1>2, <1>3 DEF Once

LEMMA NotDone ==
    ASSUME CountsOK, NEW m \in Message
    PROVE  Dealt(m) <=> handed[m] + executed[m] >= 1
BY DEF Dealt, CountsOK

LEMMA OnceLoop ==
    ASSUME IInv, OnceInv, CountsOK', NEW p \in Poller, poll[p].at # "idle",
           NEW todo \in SUBSET Message, NEW inject \in SUBSET Message,
           NEW sid \in BOOLEAN, PollLoop(p, todo, inject, sid),
           UNCHANGED <<copy, kind, backlog, turn, handed>>,
           submitted \subseteq submitted',
           NEW m \in Message, Once(m),
           m \in todo \cup inject => ~Dealt(m) /\ m \notin submitted',
           todo \cap inject = {},
           Dealt(m) /\ m \in Pending => m \in submitted'
    PROVE  Once(m)'
<1>0. PollOK /\ CountsOK /\ OnePoll BY TypeParts DEF IInv, OnceInv
<1>1. /\ \A q \in Poller \ {p} : poll'[q] = poll[q]
      /\ \/ /\ poll'[p].at = "handling"
            /\ poll'[p].now \in todo
            /\ poll'[p].todo = todo \ {poll'[p].now}
            /\ poll'[p].inject = inject
            /\ Handle(poll'[p].now)
            /\ pollRunning' = pollRunning
         \/ /\ poll'[p].at = "prompting"
            /\ todo = {} /\ poll'[p].todo = {} /\ poll'[p].inject = inject
            /\ executed' = executed
            /\ pollRunning' = pollRunning
         \/ poll'[p] = NoPoll /\ todo = {} /\ inject = {} /\ executed' = executed
  BY <1>0, LoopShape, Zenon
<1>2. (Runs(m)' <=> Runs(m)) /\ Pending' = Pending
  BY DEF Runs, Pending, Unread
<1>3. ASSUME NEW q \in Poller, q # p PROVE ~Waits(q, m)'
  <2>1. poll'[q] = NoPoll BY <1>0, <1>1, <1>3 DEF OnePoll
  <2>2. QED BY <2>1, IdlePoll DEF Waits
<1>4. CASE poll'[p].at = "handling" /\ poll'[p].now = m
  <2>1. m \in todo /\ Handle(m) BY <1>1, <1>4, IdlePoll
  <2>2. ~Dealt(m) /\ m \notin submitted' /\ m \notin submitted BY <2>1
  <2>3. executed'[m] = (IF Runs(m) THEN executed[m] + 1 ELSE executed[m])
    BY <1>0, <2>1, HandleFacts
  <2>4. handed[m] = 0 /\ executed[m] = 0 /\ handed'[m] = 0
    BY <1>0, <2>2 DEF Dealt, CountsOK
  <2>5. handed'[m] + executed'[m] <= 1 BY <2>3, <2>4
  <2>6. Dealt(m)' => Doing(p, m)' BY <1>2, <1>4, <2>3, <2>4 DEF Dealt, Doing
  <2>7. \A q \in Poller : Waits(q, m)' =>
            m \notin submitted' /\ (Dealt(m)' => Doing(q, m)')
    BY <1>3, <2>2, <2>6
  <2>8. QED BY <1>2, <2>2, <2>5, <2>6, <2>7, TurnsStand, OnceParts
<1>5. CASE ~(poll'[p].at = "handling" /\ poll'[p].now = m)
  <2>1. executed'[m] = executed[m]
    <3>1. CASE poll'[p].at = "handling"
      <4>1. poll'[p].now \in Message /\ poll'[p].now # m /\ Handle(poll'[p].now)
        BY <1>1, <1>5, <3>1, IdlePoll
      <4>2. QED BY <1>0, <4>1, HandleFacts
    <3>2. CASE poll'[p].at # "handling" BY <1>1, <3>2
    <3>3. QED BY <3>1, <3>2
  <2>2. (Dealt(m)' <=> Dealt(m)) /\ handed'[m] + executed'[m] = handed[m] + executed[m]
    BY <2>1 DEF Dealt
  <2>3. handed[m] + executed[m] <= 1 BY DEF Once
  <2>4. Waits(p, m)' => m \in todo \cup inject
    BY <1>1, <1>5, IdlePoll DEF Waits
  <2>5. \A q \in Poller : Waits(q, m)' =>
            m \notin submitted' /\ (Dealt(m)' => Doing(q, m)')
    BY <1>3, <2>2, <2>4
  <2>6. QED BY <1>2, <2>2, <2>3, <2>5, TurnsStand, OnceParts
<1>6. QED BY <1>4, <1>5

LEMMA OncePoll ==
    ASSUME IInv, OnceInv, NEW p \in Poller, PollStep(p), NEW m \in Message \ again
    PROVE  Once(m)'
<1>0. /\ MessagesOK /\ FlagsOK /\ PollOK /\ CountsOK /\ BoundsOK /\ OnePoll /\ Once(m)
      /\ WorkIsPosted
  BY TypeParts DEF IInv, OnceInv
<1>1. DeliveryTypeOK' BY PollTypes DEF PollStep, IInv
<1>2. CountsOK' BY <1>1 DEF DeliveryTypeOK, CountsOK
\* The polls that are not at work.
<1>3. ASSUME NEW q \in Poller, q # p, poll[p].at # "idle"
      PROVE  ~Waits(q, m) /\ ~Doing(q, m) /\ poll[q] = NoPoll
  <2>1. poll[q] = NoPoll BY <1>0, <1>3 DEF OnePoll
  <2>2. QED BY <2>1, IdlePoll DEF Waits, Doing
\* When the counts, the turns and the messages stay as they are.
<1>4. ASSUME UNCHANGED <<kind, backlog, turn, handed, executed>>,
             submitted \subseteq submitted',
             Pending' \subseteq Pending,
             Dealt(m) /\ m \in Pending' => m \in submitted' \/ \E q \in Poller : Doing(q, m)',
             \A q \in Poller : Waits(q, m)' =>
                 m \notin submitted' /\ (Dealt(m) => Doing(q, m)')
      PROVE  Once(m)'
  <2>1. (Dealt(m)' <=> Dealt(m)) /\ (Runs(m)' <=> Runs(m)) BY <1>4 DEF Dealt, Runs
  <2>2. handed'[m] + executed'[m] <= 1 BY <1>0, <1>4 DEF Once
  <2>3. turn' = turn BY <1>4
  <2>4. QED BY <1>0, <1>4, <2>1, <2>2, <2>3, TurnsStand, OnceParts
<1>5. CASE StartPoll(p)
  <2>1. \A q \in Poller : poll[q] = NoPoll BY <1>0, <1>5 DEF StartPoll, OnePoll
  <2>2. \A q \in Poller : poll'[q].todo = {} /\ poll'[q].inject = {} /\ poll'[q].at # "handling"
    BY <1>0, <1>5, <2>1 DEF StartPoll, PollOK, NoPoll
  <2>3. \A q \in Poller : ~Waits(q, m)' /\ ~Doing(q, m)
    BY <2>1, <2>2, IdlePoll DEF Waits, Doing
  <2>4. UNCHANGED <<kind, backlog, turn, handed, executed, submitted>> /\ Pending' = Pending
    BY <1>5 DEF StartPoll, bus, ghosts, Pending, Unread
  <2>5. Dealt(m) /\ m \in Pending => m \in submitted BY <1>0, <2>3 DEF Once
  <2>6. QED BY <1>4, <2>3, <2>4, <2>5
<1>6. CASE ListInbox(p)
  <2> DEFINE todo == Pending \ submitted
  <2>1. /\ todo \in SUBSET Message /\ {} \in SUBSET Message /\ session' \in BOOLEAN
        /\ poll[p].at # "idle" /\ PollLoop(p, todo, {}, session') /\ todo \cap {} = {}
        /\ UNCHANGED <<copy, kind, backlog, turn, handed, submitted>>
    BY <1>0, <1>6 DEF ListInbox, Pending, Unread, MessagesOK, FlagsOK, bus
  <2>2. ~Doing(p, m) BY <1>6 DEF ListInbox, Doing
  <2>3. \A q \in Poller : ~Doing(q, m) BY <1>3, <2>1, <2>2
  <2>4. Dealt(m) /\ m \in Pending => m \in submitted BY <1>0, <2>3 DEF Once
  <2>5. m \in todo \cup {} => ~Dealt(m) /\ m \notin submitted' BY <2>1, <2>4
  <2>6. QED BY <1>0, <1>2, <2>1, <2>4, <2>5, OnceLoop
<1>7. CASE Handled(p)
  <2> DEFINE n == poll[p].now
  <2>1. /\ poll[p].todo \in SUBSET Message /\ poll[p].inject \in SUBSET Message
        /\ n \in Message /\ poll[p].at = "handling" /\ poll[p].at # "idle"
        /\ session \in BOOLEAN /\ session' \in BOOLEAN
        /\ UNCHANGED <<copy, kind, backlog, turn, handed>>
        /\ poll[p].inject \cup {n} \in SUBSET Message
    BY <1>0, <1>7 DEF Handled, PollOK, PollState, WorkIsPosted, Posted, FlagsOK, bus
  <2>2. /\ poll[p].todo \cap poll[p].inject = {}
        /\ poll[p].todo \cap (poll[p].inject \cup {n}) = {}
        /\ n \notin poll[p].todo \cup poll[p].inject
    BY <1>0, <2>1 DEF OnePoll
  <2>3. Dealt(m) /\ m \in Pending => m \in submitted \/ Doing(p, m)
    BY <1>0, <1>3, <2>1 DEF Once
  <2>4. Doing(p, m) => m = n /\ Runs(m) BY <2>1 DEF Doing
  <2>5. m \in poll[p].todo \cup poll[p].inject => m # n /\ m \notin submitted /\ ~Dealt(m)
    BY <1>0, <2>2, <2>4 DEF Once, Waits
  <2>6. CASE Runs(n) /\ submitted' = submitted \cup {n}
             /\ PollLoop(p, poll[p].todo, poll[p].inject, session')
    <3>1. Dealt(m) /\ m \in Pending => m \in submitted' BY <2>3, <2>4, <2>6
    <3>2. m \in poll[p].todo \cup poll[p].inject => ~Dealt(m) /\ m \notin submitted'
      BY <2>5, <2>6
    <3>3. submitted \subseteq submitted' BY <2>6
    <3>4. QED BY <1>0, <1>2, <2>1, <2>2, <2>6, <3>1, <3>2, <3>3, OnceLoop
  <2>7. CASE ~Runs(n) /\ submitted' = submitted
             /\ PollLoop(p, poll[p].todo, poll[p].inject \cup {n}, session)
    <3>1. Dealt(m) /\ m \in Pending => m \in submitted' BY <2>3, <2>4, <2>7
    <3>2. m = n => ~Dealt(m) /\ m \notin submitted
      BY <1>0, <2>1, <2>4, <2>7 DEF Once, Waits
    <3>3. m \in poll[p].todo \cup (poll[p].inject \cup {n}) => ~Dealt(m) /\ m \notin submitted'
      BY <2>5, <2>7, <3>2
    <3>4. submitted \subseteq submitted' BY <2>7
    <3>5. QED BY <1>0, <1>2, <2>1, <2>2, <2>7, <3>1, <3>3, <3>4, OnceLoop
  <2>8. QED BY <1>7, <2>6, <2>7 DEF Handled
<1>8. CASE Accept(p)
  <2>1. /\ \A q \in Poller \ {p} : poll'[q] = poll[q]
        /\ poll'[p].at = "accepted" /\ poll'[p].todo = poll[p].todo
        /\ poll'[p].inject = poll[p].inject /\ poll[p].at = "prompting"
        /\ UNCHANGED <<copy, kind, backlog, submitted, turn, executed>>
    BY <1>8, <1>0 DEF Accept, PollOK, PollState, bus, memory
  <2>2. poll[p].todo = {} BY <1>0, <2>1 DEF OnePoll
  <2>3. (Runs(m)' <=> Runs(m)) /\ Pending' = Pending
    BY <2>1 DEF Runs, Pending, Unread
  <2>4. ~Doing(p, m) BY <2>1 DEF Doing
  <2>5. Dealt(m) /\ m \in Pending => m \in submitted
    BY <1>0, <1>3, <2>1, <2>4 DEF Once
  <2>6. ASSUME NEW q \in Poller, q # p PROVE ~Waits(q, m)'
    <3>1. poll'[q] = NoPoll BY <1>3, <2>1, <2>6
    <3>2. QED BY <3>1, IdlePoll DEF Waits
  <2>7. CASE m \in poll[p].inject
    <3>1. ~Dealt(m) /\ m \notin submitted BY <1>0, <2>4, <2>7 DEF Once, Waits
    <3>2. handed[m] = 0 /\ executed[m] = 0 BY <1>0, <3>1 DEF Dealt, CountsOK
    <3>3. handed'[m] = 1 /\ executed'[m] = 0
      BY <1>0, <1>8, <2>1, <2>7, <3>2, HandOverFacts DEF Accept
    <3>4. handed'[m] + executed'[m] <= 1 BY <3>3
    <3>5. Doing(p, m)' BY <2>1, <2>7 DEF Doing
    <3>6. turn' = turn /\ submitted' = submitted BY <2>1
    <3>7. \A q \in Poller : Waits(q, m)' =>
              m \notin submitted' /\ (Dealt(m)' => Doing(q, m)')
      BY <2>6, <3>1, <3>5, <3>6
    <3>8. QED BY <1>0, <2>3, <3>1, <3>4, <3>5, <3>6, <3>7, TurnsStand, OnceParts
  <2>8. CASE m \notin poll[p].inject
    <3>1. handed'[m] = handed[m] BY <1>0, <1>8, <2>8, HandOverFacts DEF Accept
    <3>2. (Dealt(m)' <=> Dealt(m)) /\ handed'[m] + executed'[m] <= 1
      BY <1>0, <2>1, <3>1 DEF Dealt, Once
    <3>3. ~Waits(p, m)' BY <2>1, <2>2, <2>8 DEF Waits
    <3>4. \A q \in Poller : ~Waits(q, m)' BY <2>6, <3>3
    <3>5. turn' = turn /\ submitted' = submitted BY <2>1
    <3>6. QED BY <1>0, <2>3, <2>5, <3>2, <3>4, <3>5, TurnsStand, OnceParts
  <2>9. QED BY <2>7, <2>8
<1>9. CASE ClaimInjected(p) \/ Reject(p)
  <2>1. /\ poll[p].at \in {"prompting", "accepted"} /\ poll[p].at # "idle"
        /\ poll' = [poll EXCEPT ![p] = NoPoll]
        /\ UNCHANGED <<kind, backlog, turn, handed, executed>>
    BY <1>9 DEF ClaimInjected, Reject, Finish, ghosts, bus
  <2>2. \A q \in Poller : poll'[q] = NoPoll BY <1>0, <1>3, <2>1 DEF PollOK
  <2>3. \A q \in Poller : ~Waits(q, m)' BY <2>2, IdlePoll DEF Waits
  <2>4. Dealt(m) /\ m \in Pending => m \in submitted \/ Doing(p, m)
    BY <1>0, <1>3, <2>1 DEF Once
  <2>5. Doing(p, m) => poll[p].at = "accepted" /\ m \in poll[p].inject
    BY <2>1 DEF Doing
  <2>6. CASE ClaimInjected(p)
    <3>1. submitted' = submitted \cup poll[p].inject BY <2>6 DEF ClaimInjected
    <3>2. Pending' \subseteq Pending
      BY <1>0, <2>1, <2>6, MarkFacts DEF ClaimInjected, Pending, Unread, MessagesOK
    <3>3. QED BY <1>4, <2>1, <2>3, <2>4, <2>5, <3>1, <3>2
  <2>7. CASE Reject(p)
    <3>1. submitted' = submitted /\ Pending' = Pending /\ poll[p].at = "prompting"
      BY <2>7 DEF Reject, bus, Pending, Unread
    <3>2. QED BY <1>4, <2>1, <2>3, <2>4, <2>5, <3>1
  <2>8. QED BY <1>9, <2>6, <2>7
<1>10. QED BY <1>5, <1>6, <1>7, <1>8, <1>9 DEF PollStep

\* Polls that stand still while a turn takes what none of them has in hand.
LEMMA PollsStand ==
    ASSUME NEW m \in Message, Once(m), poll' = poll,
           Runs(m)' <=> Runs(m),
           \/ (m \in submitted' <=> m \in submitted) /\ (Dealt(m)' <=> Dealt(m))
           \/ \A p \in Poller : ~Waits(p, m)
    PROVE  /\ \A p \in Poller : (Waits(p, m)' <=> Waits(p, m)) /\ (Doing(p, m)' <=> Doing(p, m))
           /\ \A p \in Poller : Waits(p, m)' =>
                 m \notin submitted' /\ (Dealt(m)' => Doing(p, m)')
<1>1. \A p \in Poller : (Waits(p, m)' <=> Waits(p, m)) /\ (Doing(p, m)' <=> Doing(p, m))
  BY DEF Waits, Doing
<1>2. QED BY <1>1 DEF Once

LEMMA ListedWaits ==
    ASSUME NEW m \in Message, NEW p \in Poller, m \notin Listed
    PROVE  ~Waits(p, m) /\ ~Doing(p, m)
BY DEF Listed, Waits, Doing

LEMMA OnceTake ==
    ASSUME IInv, OnceInv, CountsOK', NEW t \in Turn, NEW n \in Message,
           NEW todo \in SUBSET Message, NEW lines \in SUBSET Message,
           Take(t, n, todo, lines),
           UNCHANGED <<kind, backlog, poll>>,
           n \in Pending, n \notin submitted,
           \A x \in lines : x \in turn[t].lines \/
                            (turn[t].at = "handling" /\ turn[t].now = x /\ ~Runs(x)),
           NEW m \in Message \ again'
    PROVE  Once(m)'
<1>0. /\ MessagesOK /\ TurnOK /\ CountsOK /\ BoundsOK
      /\ m \notin again /\ Once(m)
  BY TypeParts DEF IInv, OnceInv, Take
<1>1. /\ \A s \in Turn \ {t} : turn'[s] = turn[s]
      /\ turn'[t].lines = lines /\ turn'[t].now = n /\ turn'[t].at = "handling"
      /\ submitted' = submitted \cup {n} /\ handed' = handed
      /\ again' = again \cup ({n} \cap Listed)
  BY <1>0 DEF Take, TurnOK
<1>2. Pending' \subseteq Pending /\ (Runs(m)' <=> Runs(m))
  BY <1>0, MarkFacts DEF Take, Pending, Unread, MessagesOK, Runs
<1>3. m \in lines => Holds(t, m) /\ ~Dealt(m) /\ m # n /\ m \in submitted
  BY <1>0 DEF Holds, Once
<1>4. \A s \in Turn \ {t} : Holds(s, m)' <=> Holds(s, m)
  BY <1>1 DEF Holds
<1>5. Holds(t, m)' <=> m \in lines \/ m = n BY <1>1 DEF Holds
<1>6. CASE m = n
  <2>1. m \notin Listed BY <1>0, <1>1, <1>6
  <2>2. \A p \in Poller : ~Waits(p, m) /\ ~Doing(p, m) BY <2>1, ListedWaits
  <2>3. ~Dealt(m) BY <1>0, <1>6, <2>2 DEF Once
  <2>4. handed[m] = 0 /\ executed[m] = 0 BY <1>0, <2>3 DEF Dealt, CountsOK
  <2>5. handed'[m] = 0 /\ executed'[m] = (IF Runs(m) THEN 1 ELSE 0)
    BY <1>0, <1>1, <1>6, <2>4, HandleFacts DEF Take
  <2>6. handed'[m] + executed'[m] <= 1 /\ (Dealt(m)' => Runs(m))
    BY <2>5 DEF Dealt
  <2>7. \A s \in Turn : ~Holds(s, m) BY <1>0, <1>6 DEF Once
  <2>8. m \in submitted' BY <1>1, <1>6
  <2>9. \A p \in Poller : ~Waits(p, m)' BY <2>2 DEF Waits
  <2>10. \A s \in Turn \ {t} :
            m \notin turn'[s].lines /\ ~(turn'[s].at = "handling" /\ turn'[s].now = m)
    BY <1>1, <2>7 DEF Holds
  <2>11. m \notin turn'[t].lines BY <1>1, <1>3, <1>6
  <2>12. \A s \in Turn :
           /\ Holds(s, m)' => m \in submitted'
           /\ m \in turn'[s].lines => ~Dealt(m)' /\ turn'[s].now # m
           /\ turn'[s].at = "handling" /\ turn'[s].now = m /\ Dealt(m)' => Runs(m)'
    BY <1>2, <2>6, <2>8, <2>10, <2>11
  <2>13. \A s, r \in Turn : Holds(s, m)' /\ Holds(r, m)' => s = r
    BY <1>4, <2>7
  <2>14. QED BY <2>6, <2>8, <2>9, <2>12, <2>13, OnceParts
<1>7. CASE m # n
  <2>1. handed'[m] = handed[m] /\ executed'[m] = executed[m]
    BY <1>0, <1>1, <1>7, HandleFacts DEF Take
  <2>2. (Dealt(m)' <=> Dealt(m)) /\ handed'[m] + executed'[m] <= 1
    BY <1>0, <2>1 DEF Dealt, Once
  <2>3. m \in submitted' <=> m \in submitted BY <1>1, <1>7
  <2>4. /\ \A p \in Poller : (Waits(p, m)' <=> Waits(p, m)) /\ (Doing(p, m)' <=> Doing(p, m))
        /\ \A p \in Poller : Waits(p, m)' => m \notin submitted' /\ (Dealt(m)' => Doing(p, m)')
    BY <1>0, <1>2, <2>2, <2>3, PollsStand
  <2>5. Dealt(m)' /\ m \in Pending' => m \in submitted' \/ \E p \in Poller : Doing(p, m)'
    BY <1>0, <1>2, <2>2, <2>3, <2>4 DEF Once
  <2>6. Holds(t, m)' => Holds(t, m) BY <1>3, <1>5, <1>7
  <2>7. \A s \in Turn : Holds(s, m)' => Holds(s, m) BY <1>4, <2>6
  <2>8. ASSUME NEW s \in Turn
        PROVE  /\ Holds(s, m)' => m \in submitted'
               /\ m \in turn'[s].lines => ~Dealt(m)' /\ turn'[s].now # m
               /\ turn'[s].at = "handling" /\ turn'[s].now = m /\ Dealt(m)' => Runs(m)'
    <3>1. CASE s = t BY <1>0, <1>1, <1>3, <1>7, <2>2, <2>3, <2>7, <3>1 DEF Once
    <3>2. CASE s # t
      <4>1. turn'[s] = turn[s] BY <1>1, <3>2
      <4>2. QED BY <1>0, <1>2, <2>2, <2>3, <2>7, <4>1 DEF Once
    <3>3. QED BY <3>1, <3>2
  <2>9. \A s, r \in Turn : Holds(s, m)' /\ Holds(r, m)' => s = r
    BY <1>0, <2>7 DEF Once
  <2>10. QED BY <2>2, <2>4, <2>5, <2>8, <2>9, OnceParts
<1>8. QED BY <1>6, <1>7

\* The turn t hands S over, of which it had some in hand and takes the rest.
LEMMA OncePush ==
    ASSUME IInv, OnceInv, CountsOK', NEW t \in Turn,
           NEW todo \in SUBSET Message, NEW lines \in SUBSET Message,
           Mark(todo), submitted' = submitted \cup todo,
           again' = again \cup (todo \cap Listed),
           PushLines(t, lines \cup todo),
           UNCHANGED <<kind, backlog, poll, executed>>,
           todo \subseteq Pending, todo \cap submitted = {},
           \A x \in lines : x \in turn[t].lines \/
                            (turn[t].at = "handling" /\ turn[t].now = x /\ ~Runs(x)),
           NEW m \in Message \ again'
    PROVE  Once(m)'
<1>0. /\ MessagesOK /\ TurnOK /\ CountsOK /\ BoundsOK
      /\ m \notin again /\ Once(m)
  BY TypeParts DEF IInv, OnceInv
<1>1. /\ \A s \in Turn \ {t} : turn'[s] = turn[s]
      /\ turn'[t] = Quiet
      /\ handed'[m] = IF m \in lines \cup todo THEN handed[m] + 1 ELSE handed[m]
  BY <1>0, HandOverFacts DEF PushLines, TurnOK
<1>2. Pending' \subseteq Pending /\ (Runs(m)' <=> Runs(m))
  BY <1>0, MarkFacts DEF Pending, Unread, MessagesOK, Runs
<1>3. ~Holds(t, m)' BY <1>1, QuietTurn DEF Holds
<1>4. \A s \in Turn \ {t} : Holds(s, m)' <=> Holds(s, m)
  BY <1>1 DEF Holds
<1>5. CASE m \in lines \cup todo
  <2>3. /\ ~Dealt(m) /\ m \in submitted'
        /\ \A p \in Poller : ~Waits(p, m)
        /\ \A s \in Turn \ {t} : ~Holds(s, m)
    <3>1. CASE m \in lines
      <4>1. Holds(t, m) /\ ~Dealt(m) /\ m \in submitted BY <1>0, <3>1 DEF Holds, Once
      <4>2. QED BY <1>0, <4>1 DEF Once
    <3>2. CASE m \in todo
      <4>1. m \notin Listed BY <1>0, <3>2
      <4>2. \A p \in Poller : ~Waits(p, m) /\ ~Doing(p, m) BY <4>1, ListedWaits
      <4>3. m \notin submitted /\ m \in Pending BY <3>2
      <4>4. QED BY <1>0, <3>2, <4>2, <4>3 DEF Once
    <3>3. QED BY <1>5, <3>1, <3>2
  <2>4. handed[m] = 0 /\ executed[m] = 0 BY <1>0, <2>3 DEF Dealt, CountsOK
  <2>5. handed'[m] + executed'[m] <= 1 BY <1>1, <1>5, <2>4
  <2>6. \A p \in Poller : ~Waits(p, m)' BY <2>3 DEF Waits
  <2>7. \A s \in Turn : ~Holds(s, m)' BY <1>3, <1>4, <2>3
  <2>8. \A s \in Turn :
            m \notin turn'[s].lines /\ ~(turn'[s].at = "handling" /\ turn'[s].now = m)
    BY <2>7 DEF Holds
  <2>9. QED BY <2>3, <2>5, <2>6, <2>7, <2>8, OnceParts
<1>6. CASE m \notin lines \cup todo
  <2>1. (Dealt(m)' <=> Dealt(m)) /\ handed'[m] + executed'[m] <= 1
    BY <1>0, <1>1, <1>6 DEF Dealt, Once
  <2>2. m \in submitted' <=> m \in submitted BY <1>6
  <2>3. /\ \A p \in Poller : (Waits(p, m)' <=> Waits(p, m)) /\ (Doing(p, m)' <=> Doing(p, m))
        /\ \A p \in Poller : Waits(p, m)' => m \notin submitted' /\ (Dealt(m)' => Doing(p, m)')
    BY <1>0, <1>2, <2>1, <2>2, PollsStand
  <2>4. Dealt(m)' /\ m \in Pending' => m \in submitted' \/ \E p \in Poller : Doing(p, m)'
    BY <1>0, <1>2, <2>1, <2>2, <2>3 DEF Once
  <2>5. ASSUME NEW s \in Turn
        PROVE  /\ Holds(s, m)' => m \in submitted'
               /\ m \in turn'[s].lines => ~Dealt(m)' /\ turn'[s].now # m
               /\ turn'[s].at = "handling" /\ turn'[s].now = m /\ Dealt(m)' => Runs(m)'
    <3>1. CASE s = t BY <1>1, <1>3, <3>1, QuietTurn
    <3>2. CASE s # t
      <4>1. turn'[s] = turn[s] BY <1>1, <3>2
      <4>2. QED BY <1>0, <1>2, <1>4, <2>1, <2>2, <3>2, <4>1 DEF Once
    <3>3. QED BY <3>1, <3>2
  <2>6. \A s, r \in Turn : Holds(s, m)' /\ Holds(r, m)' => s = r
    BY <1>0, <1>3, <1>4 DEF Once
  <2>7. QED BY <2>1, <2>3, <2>4, <2>5, <2>6, OnceParts
<1>7. QED BY <1>5, <1>6

\* The hook of the turn t.
LEMMA OnceTurn ==
    ASSUME IInv, OnceInv, NEW t \in Turn, TurnStep(t), NEW m \in Message \ again'
    PROVE  Once(m)'
<1>0. /\ MessagesOK /\ TurnOK /\ WorkIsPosted /\ TurnsKnow
      /\ UNCHANGED <<kind, backlog, poll>>
  BY TypeParts DEF IInv, OnceInv, TurnStep, BeginTurn, GoOn
<1>1. DeliveryTypeOK' BY TurnTypes DEF TurnStep, IInv
<1>2. CountsOK' BY <1>1 DEF DeliveryTypeOK, CountsOK
<1>3. CASE BeginTurn(t)
  <2>1. CASE \E n \in Pending \ submitted : Take(t, n, Pending \ submitted, {})
    <3>1. PICK n \in Pending \ submitted : Take(t, n, Pending \ submitted, {})
      BY <2>1
    <3>2. Pending \ submitted \in SUBSET Message
      BY <1>0 DEF Pending, Unread, MessagesOK
    <3>3. n \in Message /\ {} \in SUBSET Message BY <3>2
    <3>4. QED BY <1>0, <1>2, <3>1, <3>2, <3>3, OnceTake
  <2>2. CASE UNCHANGED <<copy, submitted, turn, handed, executed, again, lapses>>
    <3>1. Once(m) BY <2>2 DEF OnceInv
    <3>2. QED BY <1>0, <2>2, <3>1 DEF Once, Waits, Holds, Doing, Dealt, Runs, Pending, Unread
  <2>3. QED BY <1>3, <2>1, <2>2 DEF BeginTurn
<1>4. CASE GoOn(t)
  <2> DEFINE now == turn[t].now
             lines == turn[t].lines \cup (IF Runs(now) THEN {} ELSE {now})
             todo == turn[t].todo \ submitted
  <2>1. todo \in SUBSET Message /\ todo \subseteq Pending /\ todo \cap submitted = {}
    BY <1>0 DEF TurnOK, TurnState, TurnsKnow
  <2>2. lines \in SUBSET Message
    BY <1>0, <1>4 DEF GoOn, TurnOK, TurnState, WorkIsPosted, Posted
  <2>3. \A x \in lines : x \in turn[t].lines \/
                         (turn[t].at = "handling" /\ turn[t].now = x /\ ~Runs(x))
    BY <1>4 DEF GoOn
  <2>4. CASE \E n \in todo : Take(t, n, todo, lines)
    <3>1. PICK n \in todo : Take(t, n, todo, lines) BY <2>4
    <3>2. n \in Message /\ n \in Pending /\ n \notin submitted BY <2>1
    <3>3. QED BY <1>0, <1>2, <2>1, <2>2, <2>3, <3>1, <3>2, OnceTake
  <2>5. CASE /\ Mark(todo)
             /\ submitted' = submitted \cup todo
             /\ again' = again \cup (todo \cap Listed)
             /\ PushLines(t, lines \cup todo)
             /\ UNCHANGED executed
    BY <1>0, <1>2, <2>1, <2>2, <2>3, <2>5, OncePush
  <2>6. QED BY <1>4, <2>4, <2>5 DEF GoOn
<1>5. QED BY <1>3, <1>4 DEF TurnStep

\* What is claimed need not be pending any more.
LEMMA MarkClaims ==
    ASSUME MessagesOK, BoundsOK, NEW S, Mark(S),
           submitted' = submitted \cup S, backlog' = backlog
    PROVE  Pending \cup submitted \subseteq Pending' \cup submitted'
BY MarkFacts DEF Pending, Unread, MessagesOK

\* What a step does that was not done before was posted.
LEMMA DonePosted ==
    ASSUME CountsOK, NEW S \in SUBSET Message,
           \A m \in Message \ S : handed'[m] = handed[m] /\ executed'[m] = executed[m],
           S \subseteq Posted', Posted \subseteq Posted',
           \A m \in Message : Dealt(m) => m \in Posted
    PROVE  \A m \in Message : Dealt(m)' => m \in Posted'
BY DEF Dealt

LEMMA TurnsKnowPoll ==
    ASSUME IInv, IInv', TurnsKnow, NEW p \in Poller, PollStep(p)
    PROVE  TurnsKnow'
<1>0. /\ MessagesOK /\ FlagsOK /\ PollOK /\ CountsOK /\ BoundsOK /\ WorkIsPosted
      /\ WorkIsPosted' /\ CountsOK' /\ Posted \subseteq Posted' /\ turn' = turn
      /\ Posted \subseteq Message /\ Posted' \subseteq Message
      /\ \A m \in Message : Dealt(m) => m \in Posted
  BY TypeParts, PollKeeps DEF IInv, Keeps, Posted, TurnsKnow, DeliveryTypeOK, CountsOK
<1>1. Pending \cup submitted \subseteq Pending' \cup submitted'
  <2>1. CASE ClaimInjected(p) BY <1>0, <2>1, MarkClaims DEF ClaimInjected
  <2>2. CASE ListInbox(p) \/ Handled(p)
    BY <2>2 DEF ListInbox, Handled, Pending, Unread, bus
  <2>3. CASE StartPoll(p) \/ Accept(p) \/ Reject(p)
    BY <2>3 DEF StartPoll, Accept, Reject, Pending, Unread, bus, memory
  <2>4. QED BY <2>1, <2>2, <2>3 DEF PollStep
<1>2. ASSUME NEW todo \in SUBSET Message, NEW inject \in SUBSET Message,
             NEW sid \in BOOLEAN, PollLoop(p, todo, inject, sid), handed' = handed
      PROVE  \A m \in Message : Dealt(m)' => m \in Posted'
  <2>1. \/ poll'[p].at = "handling" /\ Handle(poll'[p].now)
        \/ executed' = executed
    <3>1. PollOK BY <1>0
    <3>2. PollLoop(p, todo, inject, sid) BY <1>2
    <3>3. /\ \A q \in Poller \ {p} : poll'[q] = poll[q]
          /\ \/ /\ poll'[p].at = "handling"
                /\ poll'[p].now \in todo
                /\ poll'[p].todo = todo \ {poll'[p].now}
                /\ poll'[p].inject = inject
                /\ Handle(poll'[p].now)
                /\ pollRunning' = pollRunning
             \/ /\ poll'[p].at = "prompting"
                /\ todo = {} /\ poll'[p].todo = {} /\ poll'[p].inject = inject
                /\ executed' = executed
                /\ pollRunning' = pollRunning
             \/ poll'[p] = NoPoll /\ todo = {} /\ inject = {} /\ executed' = executed
      BY <3>1, <3>2, LoopShape
    <3>4. QED BY <3>3
  <2>2. CASE executed' = executed
    BY <1>0, <1>2, <2>2 DEF Dealt
  <2>3. CASE poll'[p].at = "handling" /\ Handle(poll'[p].now)
    <3>1. poll'[p].now \in Posted' BY <1>0, <2>3 DEF WorkIsPosted
    <3>2. \A m \in Message \ {poll'[p].now} :
              handed'[m] = handed[m] /\ executed'[m] = executed[m]
      BY <1>0, <1>2, <2>3, <3>1, HandleFacts
    <3>3. {poll'[p].now} \in SUBSET Message /\ {poll'[p].now} \subseteq Posted'
      BY <1>0, <3>1
    <3>4. QED BY <1>0, <3>2, <3>3, DonePosted
  <2>4. QED BY <2>1, <2>2, <2>3
<1>3. \A m \in Message : Dealt(m)' => m \in Posted'
  <2>1. CASE StartPoll(p) \/ ClaimInjected(p) \/ Reject(p)
    BY <1>0, <2>1 DEF StartPoll, ClaimInjected, Reject, ghosts, Dealt
  <2>2. CASE Accept(p)
    <3>1. poll[p].inject \subseteq Posted BY <1>0 DEF WorkIsPosted
    <3>2. /\ poll[p].inject \in SUBSET Message /\ poll[p].inject \subseteq Posted'
      BY <1>0, <3>1
    <3>3. \A m \in Message \ poll[p].inject :
              handed'[m] = handed[m] /\ executed'[m] = executed[m]
      BY <1>0, <2>2, HandOverFacts DEF Accept
    <3>4. QED BY <1>0, <3>2, <3>3, DonePosted
  <2>3. CASE ListInbox(p)
    <3>1. /\ Pending \ submitted \in SUBSET Message /\ session' \in BOOLEAN
          /\ {} \in SUBSET Message /\ handed' = handed
          /\ PollLoop(p, Pending \ submitted, {}, session')
      BY <1>0, <2>3 DEF ListInbox, Pending, Unread, MessagesOK, FlagsOK
    <3>2. QED BY <1>2, <3>1
  <2>4. CASE Handled(p)
    <3>1. /\ poll[p].todo \in SUBSET Message /\ poll[p].inject \in SUBSET Message
          /\ poll[p].now \in Message /\ handed' = handed
          /\ session \in BOOLEAN /\ session' \in BOOLEAN
      BY <1>0, <2>4 DEF Handled, PollOK, PollState, WorkIsPosted, Posted, FlagsOK
    <3>2. \/ PollLoop(p, poll[p].todo, poll[p].inject, session')
          \/ PollLoop(p, poll[p].todo, poll[p].inject \cup {poll[p].now}, session)
      BY <2>4 DEF Handled
    <3>3. poll[p].inject \cup {poll[p].now} \in SUBSET Message BY <3>1
    <3>4. QED BY <1>2, <3>1, <3>2, <3>3
  <2>5. QED BY <2>1, <2>2, <2>3, <2>4 DEF PollStep
<1>4. QED BY <1>0, <1>1, <1>3 DEF TurnsKnow

LEMMA TurnsKnowTurn ==
    ASSUME IInv, IInv', TurnsKnow, NEW t \in Turn, TurnStep(t)
    PROVE  TurnsKnow'
<1>0. /\ MessagesOK /\ TurnOK /\ CountsOK /\ BoundsOK /\ WorkIsPosted
      /\ Posted \subseteq Posted' /\ backlog' = backlog
      /\ Posted \subseteq Message
      /\ \A m \in Message : Dealt(m) => m \in Posted
      /\ \A s \in Turn : turn[s].todo \subseteq Pending \cup submitted
  BY TypeParts, TurnKeeps DEF IInv, Keeps, Posted, TurnsKnow
<1>1. ASSUME NEW n \in Posted, NEW todo \in SUBSET (Pending \cup submitted), NEW lines,
             Take(t, n, todo, lines)
      PROVE  TurnsKnow'
  <2>1. /\ \A s \in Turn \ {t} : turn'[s] = turn[s]
        /\ turn'[t].todo = todo \ {n} /\ Mark({n})
        /\ submitted' = submitted \cup {n} /\ handed' = handed /\ Handle(n)
    BY <1>0, <1>1 DEF Take, TurnOK
  <2>2. Pending \cup submitted \subseteq Pending' \cup submitted'
    BY <1>0, <2>1, MarkClaims
  <2>3. \A m \in Message \ {n} : handed'[m] = handed[m] /\ executed'[m] = executed[m]
    BY <1>0, <2>1, HandleFacts
  <2>4. {n} \in SUBSET Message /\ {n} \subseteq Posted' BY <1>0
  <2>5. \A m \in Message : Dealt(m)' => m \in Posted'
    BY <1>0, <2>3, <2>4, DonePosted
  <2>6. QED BY <1>0, <2>1, <2>2, <2>5 DEF TurnsKnow
<1>2. CASE BeginTurn(t)
  <2>1. Pending \subseteq Posted
    BY <1>0 DEF Pending, Unread, WorkIsPosted, Posted
  <2>2. CASE \E n \in Pending \ submitted : Take(t, n, Pending \ submitted, {})
    BY <1>1, <2>1, <2>2
  <2>3. CASE UNCHANGED <<copy, submitted, turn, handed, executed, again, lapses>>
    BY <1>0, <2>3 DEF TurnsKnow, Posted, Dealt, Pending, Unread
  <2>4. QED BY <1>2, <2>2, <2>3 DEF BeginTurn
<1>3. CASE GoOn(t)
  <2> DEFINE now == turn[t].now
             lines == turn[t].lines \cup (IF Runs(now) THEN {} ELSE {now})
             todo == turn[t].todo \ submitted
  <2>1. todo \subseteq Posted /\ lines \subseteq Posted /\ todo \subseteq Pending \cup submitted
    BY <1>0, <1>3 DEF GoOn, WorkIsPosted
  <2>2. CASE \E n \in todo : Take(t, n, todo, lines)
    BY <1>1, <2>1, <2>2
  <2>3. CASE /\ Mark(todo)
             /\ submitted' = submitted \cup todo
             /\ PushLines(t, lines \cup todo)
             /\ UNCHANGED executed
    <3>1. \A s \in Turn : turn'[s].todo \subseteq turn[s].todo
      BY <1>0, <2>3, QuietTurn DEF PushLines, TurnOK
    <3>2. Pending \cup submitted \subseteq Pending' \cup submitted'
      BY <1>0, <2>3, MarkClaims
    <3>3. \A m \in Message \ (lines \cup todo) :
              handed'[m] = handed[m] /\ executed'[m] = executed[m]
      BY <1>0, <2>3, HandOverFacts DEF PushLines
    <3>4. lines \cup todo \in SUBSET Message /\ lines \cup todo \subseteq Posted'
      BY <1>0, <2>1
    <3>5. \A m \in Message : Dealt(m)' => m \in Posted'
      BY <1>0, <3>3, <3>4, DonePosted
    <3>6. QED BY <1>0, <3>1, <3>2, <3>5 DEF TurnsKnow
  <2>4. QED BY <1>3, <2>2, <2>3 DEF GoOn
<1>4. QED BY <1>2, <1>3 DEF TurnStep

\* The bus and the process itself: nobody has a message in hand that is new,
\* and a process that starts or dies has none in hand.
LEMMA OnceElse ==
    ASSUME IInv, OnceInv,
           (\E x \in Message : Post(x)) \/ Load \/ BecomeReady \/ ProcessDies \/ UNCHANGED deliveryVars
    PROVE  TurnsKnow' /\ \A m \in Message \ again' : Once(m)'
<1>0. /\ MessagesOK /\ CountsOK /\ BoundsOK /\ WorkIsPosted /\ DownIsEmpty /\ TurnsKnow
      /\ \A m \in Message \ again : Once(m)
  BY TypeParts DEF IInv, OnceInv
<1>1. ASSUME NEW x \in Message, Post(x)
      PROVE  TurnsKnow' /\ \A m \in Message \ again' : Once(m)'
  <2>1. UNCHANGED <<submitted, backlog, poll, turn, handed, executed, again>>
    BY <1>1 DEF Post, memory, ghosts
  <2>2. /\ x \notin Posted /\ Posted \subseteq Posted' /\ Pending \subseteq Pending'
        /\ \A m \in Message \ {x} : (m \in Pending' <=> m \in Pending) /\ kind'[m] = kind[m]
    BY <1>0, <1>1, <2>1 DEF Post, Posted, MessagesOK, Pending, Unread
  <2>3. \A m \in Message : Dealt(m)' <=> Dealt(m) BY <2>1 DEF Dealt
  <2>4. TurnsKnow' BY <1>0, <2>1, <2>2, <2>3 DEF TurnsKnow
  <2>5. ASSUME NEW m \in Message \ again' PROVE Once(m)'
    <3>0. Once(m) BY <1>0, <2>1
    <3>1. /\ \A p \in Poller : Waits(p, m)' <=> Waits(p, m)
          /\ \A t \in Turn : Holds(t, m)' <=> Holds(t, m)
      BY <2>1 DEF Waits, Holds
    <3>2. CASE m = x
      <4>1. ~Dealt(m) BY <1>0, <2>2, <3>2 DEF TurnsKnow
      <4>2. /\ \A p \in Poller : ~Waits(p, m)
            /\ \A t \in Turn : ~Holds(t, m)
        BY <1>0, <2>2, <3>2 DEF WorkIsPosted, Waits, Holds
      <4>3. \A t \in Turn :
               m \notin turn'[t].lines /\ ~(turn'[t].at = "handling" /\ turn'[t].now = m)
        BY <2>1, <4>2 DEF Holds
      <4>4. handed'[m] + executed'[m] <= 1 BY <2>1, <3>0 DEF Once
      <4>5. QED BY <2>3, <3>1, <4>1, <4>2, <4>3, <4>4, OnceParts
    <3>3. CASE m # x
      <4>1. Runs(m)' <=> Runs(m) BY <2>1, <2>2, <3>3 DEF Runs
      <4>2. \A p \in Poller : Doing(p, m)' <=> Doing(p, m) BY <2>1, <4>1 DEF Doing
      <4>3. QED BY <2>1, <2>2, <2>3, <3>0, <3>1, <3>3, <4>1, <4>2 DEF Once
    <3>4. QED BY <3>2, <3>3
  <2>6. QED BY <2>4, <2>5
<1>2. ASSUME \A p \in Poller : poll'[p] = NoPoll,
             \A t \in Turn : turn'[t] = Quiet,
             UNCHANGED <<handed, executed>>, again \subseteq again',
             \A m \in Message \ again' : Dealt(m) => m \notin Pending',
             \A m \in Posted : m \in Posted'
      PROVE  TurnsKnow' /\ \A m \in Message \ again' : Once(m)'
  <2>1. \A m \in Message : Dealt(m)' <=> Dealt(m) BY <1>2 DEF Dealt
  <2>2. TurnsKnow' BY <1>0, <1>2, <2>1, QuietTurn DEF TurnsKnow
  <2>3. ASSUME NEW m \in Message \ again' PROVE Once(m)'
    <3>1. \A p \in Poller : ~Waits(p, m)' BY <1>2, IdlePoll DEF Waits
    <3>2. \A t \in Turn :
             m \notin turn'[t].lines /\ ~(turn'[t].at = "handling" /\ turn'[t].now = m)
      BY <1>2, QuietTurn
    <3>3. \A t \in Turn : ~Holds(t, m)' BY <3>2 DEF Holds
    <3>4. m \notin again /\ Once(m) BY <1>0, <1>2
    <3>5. handed'[m] + executed'[m] <= 1 BY <1>2, <3>4 DEF Once
    <3>6. Dealt(m)' => m \notin Pending' BY <1>2, <2>1
    <3>7. QED BY <3>1, <3>2, <3>3, <3>5, <3>6, OnceParts
  <2>4. QED BY <2>2, <2>3
<1>3. CASE Load
  <2>1. ~up /\ UNCHANGED <<submitted, poll, turn, handed, executed, again>>
    BY <1>3 DEF Load
  <2>2. /\ \A p \in Poller : poll[p] = NoPoll
        /\ \A t \in Turn : turn[t] = Quiet
        /\ submitted = {} /\ backlog = {}
    BY <1>0, <2>1 DEF DownIsEmpty
  <2>3. Pending' \subseteq Pending /\ \A m \in Posted : m \in Posted'
    BY <1>0, <1>3, <2>2, StartFacts DEF Pending, Unread, Posted, MessagesOK
  <2>4. ASSUME NEW m \in Message \ again', Dealt(m) PROVE m \notin Pending'
    <3>1. Once(m) BY <1>0, <2>1
    <3>2. \A p \in Poller : ~Doing(p, m) BY <2>2, IdlePoll DEF Doing
    <3>3. QED BY <2>2, <2>3, <2>4, <3>1, <3>2 DEF Once
  <2>5. QED BY <1>2, <2>1, <2>2, <2>3, <2>4
<1>4. CASE ProcessDies
  <2>1. /\ \A p \in Poller : poll'[p] = NoPoll
        /\ \A t \in Turn : turn'[t] = Quiet
        /\ UNCHANGED <<handed, executed, copy>> /\ backlog' = {}
        /\ again' = again \cup {m \in Unread : Dealt(m)}
    BY <1>4 DEF ProcessDies, bus
  <2>2. Pending' = Unread /\ \A m \in Posted : m \in Posted'
    BY <2>1 DEF Pending, Unread, Posted
  <2>3. QED BY <1>2, <2>1, <2>2
<1>5. CASE BecomeReady \/ UNCHANGED deliveryVars
  <2>1. UNCHANGED <<bus, submitted, backlog, poll, turn, ghosts>>
    BY <1>5 DEF BecomeReady, deliveryVars, memory
  <2>2. UNCHANGED <<copy, kind, submitted, backlog, poll, turn, handed, executed, again>>
    BY <2>1 DEF bus, ghosts
  <2>3. TurnsKnow' BY <1>0, <2>2 DEF TurnsKnow, Posted, Dealt, Pending, Unread
  <2>4. \A m \in Message \ again' : Once(m)'
    BY <1>0, <2>2 DEF Once, Waits, Holds, Doing, Dealt, Runs, Pending, Unread
  <2>5. QED BY <2>3, <2>4
<1>6. QED BY <1>1, <1>3, <1>4, <1>5

LEMMA OnceInit == DeliveryInit => OnceInv
<1> SUFFICES ASSUME DeliveryInit PROVE OnceInv
  OBVIOUS
<1>1. OnePoll BY IdlePoll DEF DeliveryInit, OnePoll
<1>2. \A m \in Message : ~Dealt(m) BY DEF DeliveryInit, Dealt
<1>3. TurnsKnow BY <1>2, QuietTurn DEF DeliveryInit, TurnsKnow
<1>4. ASSUME NEW m \in Message PROVE Once(m)
  <2>1. \A p \in Poller : ~Waits(p, m) BY IdlePoll DEF DeliveryInit, Waits
  <2>2. \A t \in Turn : ~Holds(t, m) /\ m \notin turn[t].lines
    BY QuietTurn DEF DeliveryInit, Holds
  <2>3. handed[m] + executed[m] <= 1 BY DEF DeliveryInit
  <2>4. QED BY <1>2, <2>1, <2>2, <2>3 DEF Once
<1>5. QED BY <1>1, <1>3, <1>4 DEF OnceInv

LEMMA OnceStep == ASSUME IInv, OnceInv, [DeliveryNext]_deliveryVars PROVE OnceInv'
<1>0. IInv' /\ OnePoll' /\ TurnsKnow BY InvStep, OnePollStep DEF OnceInv
<1>1. SUFFICES TurnsKnow' /\ \A m \in Message \ again' : Once(m)'
  BY <1>0 DEF OnceInv
<1>2. ASSUME NEW p \in Poller, PollStep(p)
      PROVE  TurnsKnow' /\ \A m \in Message \ again' : Once(m)'
  <2>1. again' = again
    BY <1>2 DEF PollStep, StartPoll, ListInbox, Handled, Accept, ClaimInjected, Reject, ghosts
  <2>2. QED BY <1>0, <1>2, <2>1, TurnsKnowPoll, OncePoll
<1>3. ASSUME NEW t \in Turn, TurnStep(t)
      PROVE  TurnsKnow' /\ \A m \in Message \ again' : Once(m)'
  BY <1>0, <1>3, TurnsKnowTurn, OnceTurn
<1>4. CASE (\E x \in Message : Post(x)) \/ Load \/ BecomeReady \/ ProcessDies \/ UNCHANGED deliveryVars
  BY <1>4, OnceElse
<1>5. QED BY <1>2, <1>3, <1>4 DEF DeliveryNext, PollStep, TurnStep

\* poll and the hook at the start of a turn: what either has in hand the
\* other does not touch, so the model gets no message twice and no command
\* is executed twice, but for the races and deaths counted in again.
THEOREM DoneOnce == DeliverySpec => []OnceOnly
<1>1. IInv /\ OnceInv /\ [DeliveryNext]_deliveryVars => OnceInv' BY OnceStep
<1>2. IInv /\ OnceInv => OnceOnly
  <2>1. SUFFICES ASSUME IInv, OnceInv, NEW m \in Message, m \notin again
                 PROVE  ~(handed[m] + executed[m] > 1)
    BY DEF OnceOnly
  <2>2. handed[m] \in Nat /\ executed[m] \in Nat BY <2>1 DEF IInv, DeliveryTypeOK
  <2>3. handed[m] + executed[m] <= 1 BY <2>1 DEF OnceInv, Once
  <2>4. QED BY <2>2, <2>3
<1>3. QED BY <1>1, <1>2, OnceInit, Invariant, PTL DEF DeliverySpec
=============================================================================
