----------------------------- MODULE ModelProxy -----------------------------
(***************************************************************************)
(* The proxy between the agents and the providers of models.  A request    *)
(* names a model or a strategy; a strategy chooses among its models, skips *)
(* those whose circuit breaker is open and sends a session to the model it *)
(* had before.  A request that fails is tried again, at the same model or, *)
(* under a strategy, at the next one; a provider that reports saturation   *)
(* makes later requests wait.  Requests are served concurrently, breakers, *)
(* metrics, affinities and the saturation gate are shared.                 *)
(***************************************************************************)
EXTENDS Integers, FiniteSets

CONSTANTS
    Client,         \* requests under way at once
    Session,        \* those of them that carry the ID of a session
    Asks,           \* bound: requests each may make, by the kind of strategy:
                    \* <<of the strategy, streaming>>
    Models,         \* number of models of the strategy, in the order of the file
    Provider,
    ProviderOf,     \* of each model
    MaxRetries,     \* of each provider
    Failures,       \* failures in a row that trip a breaker: 3 in the code
    None

Model == 1..Models

Kind == {"single", "fallback", "round-robin", "weighted"}

ASSUME ProxyAssumption ==
    /\ Session \subseteq Client
    /\ Asks \in [Kind -> [Client -> SUBSET (BOOLEAN \X BOOLEAN)]]
    /\ Models \in Nat \ {0}
    /\ ProviderOf \in [Model -> Provider]
    /\ MaxRetries \in Nat
    /\ Failures \in Nat \ {0}
    /\ None \notin Model

VARIABLES
    kind,       \* how the strategy chooses
    index,      \* CurrentIndex of the round robin
    sticky,     \* StickyModel
    affinity,   \* model of each session
    breaker,    \* circuit breaker and metrics of each model
    saturated,  \* providers whose cooldown runs
    req         \* requests

strategy == <<index, sticky, affinity>>
vars == <<kind, strategy, breaker, saturated, req>>

\* cooled: the breaker has been open for the cooldown; fails: failures in a
\* row, forgotten while it is open.  That the window has requests need not be
\* kept: a breaker is judged after a request was recorded, or forced open
\* whatever the verdict.
BreakerState ==
    [state : {"closed", "open", "half"}, cooled : BOOLEAN,
     fails : 0..Failures]

\* attempt and attempts as in forwardChat; saw: what pipeSSE has seen in this
\* attempt; owed: the client has read content and has not been told its end.
Request ==
    [at : {"idle", "gate", "wait", "send", "read", "stream", "hold"},
     strat : BOOLEAN, streaming : BOOLEAN, model : Model,
     attempt : Nat, attempts : Nat, skip : BOOLEAN,
     saw : SUBSET {"content", "error"}, owed : BOOLEAN]

Idle ==
    [at |-> "idle", strat |-> FALSE, streaming |-> FALSE, model |-> 1,
     attempt |-> 1, attempts |-> 1, skip |-> FALSE, saw |-> {}, owed |-> FALSE]

-----------------------------------------------------------------------------
(* The circuit breaker. *)

Fresh == [state |-> "closed", cooled |-> FALSE, fails |-> 0]

OnProbation == [state |-> "half", cooled |-> FALSE, fails |-> 0]

Probed_Early(b) == IF b.state = "open" THEN OnProbation ELSE b

\* breakerStateForRoutingLocked: an open breaker that has cooled down is on
\* probation from now on, with a fresh window.
Probed(b) == IF b.state = "open" /\ b.cooled THEN OnProbation ELSE b

\* recordStrategyMetrics.
Recorded(b, ok) ==
    [b EXCEPT !.fails = IF ok \/ b.state = "open" THEN 0
                        ELSE IF @ = Failures THEN @ ELSE @ + 1]

Condemned_NotAtAll(b) == b

\* forwardChat forces a breaker open; the cooldown starts again.
Condemned(b) == [state |-> "open", cooled |-> FALSE, fails |-> 0]

\* checkCircuitBreaker: what it may leave.  The rates over the window (errors,
\* latency, throughput) may be bad at any time, and an open breaker may have
\* failures that keep it from being put on probation here.
Verdicts(b) ==
    CASE b.state = "half" ->
           {IF b.fails = 0 THEN [b EXCEPT !.state = "closed"]
            ELSE IF b.fails = Failures THEN Condemned(b) ELSE b}
      [] b.state = "closed" ->
           IF b.fails = Failures THEN {Condemned(b)} ELSE {b, Condemned(b)}
      [] b.state = "open" ->
           {b, Probed(b)}

-----------------------------------------------------------------------------
(* Routing in a strategy. *)

Open(brk, m) == Probed(brk[m]).state = "open"

\* The models in the order the round robin would try them.
Turn(i) == 1 + ((index + i) % Models)

\* The model session s sticks to, if it may.
Keeps(brk, s) ==
    kind = "weighted" /\ sticky # None /\ s \in Session
        /\ affinity[s] # None /\ ~Open(brk, affinity[s])

\* routeStrategyModel chooses m for a request of s, given the breakers brk,
\* and leaves brk2.
Routes(s, brk, m, brk2) ==
    \/ /\ kind = "single"
       /\ m = 1
       /\ brk2 = brk
       /\ UNCHANGED strategy
    \/ /\ kind = "fallback"
       /\ ~Open(brk, m) /\ \A k \in 1..(m - 1) : Open(brk, k)
       /\ brk2 = [brk EXCEPT ![m] = Probed(@)]
       /\ UNCHANGED strategy
    \/ /\ kind = "round-robin"
       /\ \E i \in 0..(Models - 1) :
             /\ m = Turn(i) /\ ~Open(brk, m)
             /\ \A j \in 0..(i - 1) : Open(brk, Turn(j))
       /\ index' = m % Models
       /\ brk2 = [brk EXCEPT ![m] = Probed(@)]
       /\ UNCHANGED <<sticky, affinity>>
    \/ /\ Keeps(brk, s)
       /\ m = affinity[s]
       /\ brk2 = [brk EXCEPT ![m] = Probed(@)]
       /\ UNCHANGED strategy
    \/ /\ kind = "weighted" /\ ~Keeps(brk, s)
       /\ ~Open(brk, m)
       /\ brk2 = [k \in Model |-> Probed(brk[k])]
       /\ sticky' = m
       /\ affinity' = IF s \in Session THEN [affinity EXCEPT ![s] = m] ELSE affinity
       /\ UNCHANGED index

\* It finds none.
NoRoute(brk) == kind # "single" /\ \A m \in Model : Open(brk, m)

-----------------------------------------------------------------------------
(* A request.  forwardChat loops over the attempts. *)

Finish(c) == req' = [req EXCEPT ![c] = Idle]

\* The request of c ends; under a strategy the outcome is counted, and judged
\* unless it was a success.
EndWith(c, ok, judged) ==
    LET m == req[c].model IN
    /\ Finish(c)
    /\ \/ ~req[c].strat /\ UNCHANGED breaker
       \/ /\ req[c].strat
          /\ \E b \in IF judged THEN Verdicts(Recorded(breaker[m], ok))
                      ELSE {Recorded(breaker[m], ok)} :
                breaker' = [breaker EXCEPT ![m] = b]

\* handleChat, and the head of forwardChat: at least two attempts under a
\* strategy.
Arrive(c) ==
    /\ req[c].at = "idle"
    /\ \E strat, streaming \in BOOLEAN, m \in Model :
          /\ <<strat, streaming>> \in Asks[kind][c]
          /\ IF strat THEN Routes(c, breaker, m, breaker')
                      ELSE UNCHANGED <<strategy, breaker>>
          /\ req' = [req EXCEPT ![c] =
                [Idle EXCEPT !.at = "gate", !.strat = strat, !.streaming = streaming,
                             !.model = m,
                             !.attempts = IF strat /\ MaxRetries = 0 THEN 2
                                          ELSE MaxRetries + 1]]
    /\ UNCHANGED <<kind, saturated>>

\* waitForSaturationGate: the cooldown is read once; its end is waited for
\* whatever becomes of the gate.
Gate(c) ==
    /\ req[c].at = "gate"
    /\ req' = [req EXCEPT ![c].skip = FALSE,
                  ![c].at = IF ~req[c].skip /\ ProviderOf[req[c].model] \in saturated
                            THEN "wait" ELSE "send"]
    /\ UNCHANGED <<kind, strategy, breaker, saturated>>

WaitIsOver(c) ==
    /\ req[c].at = "wait"
    /\ req' = [req EXCEPT ![c].at = "send"]
    /\ UNCHANGED <<kind, strategy, breaker, saturated>>

\* The client goes away while it waits: 503.
Cancelled(c) ==
    /\ req[c].at = "wait"
    /\ Finish(c)
    /\ UNCHANGED <<kind, strategy, breaker, saturated>>

\* The next attempt at the same model.
Again(c, attempts, skip) ==
    req' = [req EXCEPT ![c].at = "gate", ![c].attempt = @ + 1, ![c].attempts = attempts,
                       ![c].skip = skip, ![c].saw = {}]

\* Under a strategy a failing model is taken out of rotation and the request
\* goes to another one, with its attempts anew; if there is none it is tried
\* at the same model again.
Reroute(c, brk, attempts, skip, owed) ==
    LET old == req[c].model IN
    \/ /\ \E m \in Model \ {old} :
             /\ Routes(c, brk, m, breaker')
             /\ req' = [req EXCEPT ![c].at = "gate", ![c].model = m, ![c].attempt = 1,
                            ![c].attempts = attempts, ![c].skip = FALSE,
                            ![c].saw = {}, ![c].owed = owed]
    \/ /\ \/ Routes(c, brk, old, breaker')
          \/ NoRoute(brk) /\ breaker' = brk /\ UNCHANGED strategy
       /\ req' = [req EXCEPT ![c].at = "gate", ![c].attempt = @ + 1,
                      ![c].attempts = attempts, ![c].skip = skip,
                      ![c].saw = {}, ![c].owed = owed]

\* The transport fails: refused, reset, timed out.
TransportError(c) ==
    /\ req[c].at = "send"
    /\ \/ /\ req[c].attempt < req[c].attempts
          /\ Again(c, req[c].attempts, FALSE)
          /\ UNCHANGED breaker
       \/ EndWith(c, FALSE, TRUE)
    /\ UNCHANGED <<kind, strategy, saturated>>

\* What a status of 400 or more tells: saturation by its code or its body, a
\* fault of the backend or an unknown model, an error of the server (some are
\* not tried again), another transient one, an error of the client.
Trouble == {"saturation", "fault", "server", "transient", "final"}

Lift_OneMore(c) == req[c].attempts + 1

\* A fault earns a second attempt, and no more.
Lift(c) == IF req[c].attempts < 2 THEN 2 ELSE req[c].attempts

ErrorStatus(c) ==
    LET m == req[c].model  r == req[c] IN
    /\ r.at = "send"
    /\ \E t \in Trouble :
          LET attempts == IF t = "fault" THEN Lift(c) ELSE r.attempts
              again == r.attempt < attempts /\ t # "final"
              skip == t = "saturation"
          IN /\ saturated' = IF t = "saturation" THEN saturated \cup {ProviderOf[m]}
                             ELSE saturated
             /\ \/ /\ again /\ r.strat /\ t # "transient"
                   /\ Reroute(c, [breaker EXCEPT ![m] = Condemned(@)], attempts, skip, r.owed)
                \/ /\ again /\ ~(r.strat /\ t # "transient")
                   /\ Again(c, attempts, skip)
                   /\ UNCHANGED <<strategy, breaker>>
                \/ /\ ~again
                   /\ EndWith(c, FALSE, TRUE)
                   /\ UNCHANGED strategy
    /\ UNCHANGED kind

\* The upstream answers 200, which clears the gate whoever has closed it; the
\* headers go to the client with the first attempt that gets here.
Success(c) ==
    /\ req[c].at = "send"
    /\ saturated' = saturated \ {ProviderOf[req[c].model]}
    /\ req' = IF req[c].streaming
              THEN [req EXCEPT ![c].at = "stream"] ELSE [req EXCEPT ![c].at = "read"]
    /\ UNCHANGED <<kind, strategy, breaker>>

\* The body of an answer that is not streamed; one that breaks off is counted
\* as a success, with the error of the request, which is nil.
ReadBody(c) ==
    /\ req[c].at = "read"
    /\ EndWith(c, TRUE, FALSE) \/ EndWith(c, TRUE, TRUE)
    /\ UNCHANGED <<kind, strategy, saturated>>

-----------------------------------------------------------------------------
(* pipeSSE. *)

Streams(c) == req[c].at \in {"stream", "hold"}

Chunk(c) ==
    /\ Streams(c)
    /\ req' = [req EXCEPT ![c].saw = @ \cup {"content"}, ![c].owed = TRUE]
    /\ UNCHANGED <<kind, strategy, breaker, saturated>>

\* Nothing of this attempt has reached the client.
RetryEarly_Always(c, t) == t # "final" /\ req[c].attempt < req[c].attempts

\* An error event may be kept from the client and the request tried again only
\* before any content, while attempts are left; a fault gets one more.
RetryEarly(c, t) ==
    /\ "content" \notin req[c].saw
    /\ t \in {"saturation", "fault"}
    /\ \/ req[c].attempt < req[c].attempts
       \/ t = "fault" /\ req[c].attempt = 1 /\ req[c].attempts = 1

\* No attempt is left: the client is kept waiting for the provider.
Holds(c, t) ==
    /\ "content" \notin req[c].saw
    /\ t = "saturation"
    /\ req[c].attempt >= req[c].attempts

ErrorEvent(c) ==
    /\ Streams(c)
    /\ \E t \in {"saturation", "fault", "final"} :
          \/ RetryEarly(c, t) /\ Again(c, Lift(c), FALSE)
          \/ ~RetryEarly(c, t) /\ Holds(c, t) /\ req' = [req EXCEPT ![c].at = "hold"]
          \/ /\ ~RetryEarly(c, t) /\ ~Holds(c, t)
             /\ req' = [req EXCEPT ![c].saw = @ \cup {"error"}, ![c].owed = FALSE]
    /\ UNCHANGED <<kind, strategy, breaker, saturated>>

\* The stream ends with [DONE], during a hold too, or after an error event
\* that was passed on.
StreamEnds(c) ==
    /\ Streams(c)
    /\ EndWith(c, TRUE, FALSE)
    /\ UNCHANGED <<kind, strategy, saturated>>

\* It ends without either, or the hold is over: the client is told.
Interrupted(c) == req[c].at = "hold" \/ (req[c].at = "stream" /\ "error" \notin req[c].saw)

\* An interrupted stream with attempts left goes to another model, although
\* the client has been told; on the last attempt it is counted as a success
\* and judged.  A single attempt falls through to the end of the loop.
StreamFails(c) ==
    LET m == req[c].model  r == req[c] IN
    /\ Interrupted(c)
    /\ \/ /\ r.attempt < r.attempts /\ r.strat
          /\ \E b \in Verdicts(breaker[m]) :
                Reroute(c, [breaker EXCEPT ![m] = Condemned(b)], r.attempts, FALSE, FALSE)
       \/ /\ r.attempt < r.attempts /\ ~r.strat
          /\ req' = [req EXCEPT ![c].at = "gate", ![c].attempt = @ + 1, ![c].saw = {},
                                ![c].owed = FALSE]
          /\ UNCHANGED <<strategy, breaker>>
       \/ /\ r.attempt >= r.attempts
          /\ EndWith(c, TRUE, TRUE)
          /\ UNCHANGED strategy
    /\ UNCHANGED <<kind, saturated>>

-----------------------------------------------------------------------------
(* Time and the operator. *)

CoolDown(m) ==
    /\ breaker[m].state = "open" /\ ~breaker[m].cooled
    /\ breaker' = [breaker EXCEPT ![m].cooled = TRUE]
    /\ UNCHANGED <<kind, strategy, saturated, req>>

SaturationEnds(p) ==
    /\ p \in saturated
    /\ saturated' = saturated \ {p}
    /\ UNCHANGED <<kind, strategy, breaker, req>>

\* handleMetaModelSwitch and handleMetaModelForce refuse a model whose breaker
\* is open, cooled down or not.
SwitchSession(s, m) ==
    /\ breaker[m].state # "open"
    /\ affinity' = [affinity EXCEPT ![s] = m]
    /\ sticky' = m
    /\ UNCHANGED <<kind, index, breaker, saturated, req>>

ForceModel(m) ==
    /\ breaker[m].state # "open"
    /\ affinity' = [s \in Session |-> IF affinity[s] = None THEN None ELSE m]
    /\ sticky' = m
    /\ UNCHANGED <<kind, index, breaker, saturated, req>>

-----------------------------------------------------------------------------
Init ==
    /\ kind \in Kind
    /\ index = 0 /\ sticky = None
    /\ affinity = [s \in Session |-> None]
    /\ breaker = [m \in Model |-> Fresh]
    /\ saturated = {}
    /\ req = [c \in Client |-> Idle]

Next ==
    \/ \E c \in Client :
          \/ Arrive(c) \/ Gate(c) \/ WaitIsOver(c) \/ Cancelled(c)
          \/ TransportError(c) \/ ErrorStatus(c) \/ Success(c) \/ ReadBody(c)
          \/ Chunk(c) \/ ErrorEvent(c) \/ StreamEnds(c) \/ StreamFails(c)
    \/ \E m \in Model : CoolDown(m) \/ ForceModel(m) \/ \E s \in Session : SwitchSession(s, m)
    \/ \E p \in Provider : SaturationEnds(p)

Spec == Init /\ [][Next]_vars

\* What brings a request of c nearer to its end: steps of the proxy, answers or
\* timeouts of the upstream, and the end of a stream.
Progress(c) ==
    \/ Gate(c) \/ WaitIsOver(c) \/ TransportError(c) \/ ErrorStatus(c) \/ Success(c)
    \/ ReadBody(c) \/ StreamEnds(c) \/ StreamFails(c)

\* Nothing in the proxy ends a stream that hangs: that it ends is left to the
\* upstream and to the client.
FairSpec ==
    /\ Spec
    /\ \A c \in Client : WF_vars(Progress(c))
    /\ \A m \in Model : WF_vars(CoolDown(m))

-----------------------------------------------------------------------------
TypeOK ==
    /\ kind \in Kind
    /\ index \in 0..(Models - 1)
    /\ sticky \in Model \cup {None}
    /\ affinity \in [Session -> Model \cup {None}]
    /\ breaker \in [Model -> BreakerState]
    /\ saturated \subseteq Provider
    /\ req \in [Client -> Request]
    /\ \A c \in Client :
          /\ req[c].attempt \in 1..req[c].attempts
          /\ req[c].attempts <= MaxRetries + 1 \/ req[c].attempts <= 2

\* A request whose client has read content goes to another attempt only after
\* the client was told that the first broke off: no answer of one attempt is
\* spliced to that of another unnoticed.
NoSplice ==
    \A c \in Client : req[c].at \in {"gate", "wait", "send"} => ~req[c].owed

\* The breakers keep their promise, whatever requests do to them at once: none
\* is back in rotation before its cooldown is over, and none is closed but from
\* probation.
Breakers ==
    INSTANCE Breaker WITH state <- [m \in Model |-> breaker[m].state],
                          cooled <- [m \in Model |-> breaker[m].cooled]
BreakerHolds == Breakers!Spec

\* A request ends, unless breakers go on cooling down while it goes round: each
\* re-route gives it its attempts anew.
RequestEnds ==
    \A c \in Client :
        \/ []<>(req[c].at = "idle")
        \/ \E m \in Model : []<><<CoolDown(m)>>_vars
=============================================================================
