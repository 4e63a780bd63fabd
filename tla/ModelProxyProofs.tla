-------------------------- MODULE ModelProxyProofs --------------------------
(***************************************************************************)
(* Proofs about ModelProxy for any clients, models, providers and bounds   *)
(* on retries and failures, and the types of Recovery.                     *)
(***************************************************************************)
EXTENDS ModelErrors, TLAPS

\* The client of an attempt that has shown nothing yet is owed nothing, once
\* the answer of the attempt is there.
NothingOwed ==
    \A c \in Client :
        (Streams(c) /\ "content" \notin req[c].saw) => ~req[c].owed

\* NoSplice speaks of requests between two attempts; what an attempt that
\* streams still owes decides whether the next may begin.
IInv == TypeOK /\ NoSplice /\ NothingOwed

\* What a breaker may do on its own (Breaker), or nothing.
KeepsPromise(b, d) ==
    \/ d.state = "open" /\ ~d.cooled
    \/ b.state = "open" /\ ~b.cooled /\ d.state = "open" /\ d.cooled
    \/ b.state = "open" /\ b.cooled /\ d.state = "half" /\ ~d.cooled
    \/ b.state = "half" /\ d.state = "closed" /\ d.cooled = b.cooled
    \/ d.state = b.state /\ d.cooled = b.cooled

-----------------------------------------------------------------------------
(* The operators on breakers. *)

\* A count of an outcome moves no breaker.
LEMMA RecordedKeeps ==
    ASSUME ProxyAssumption, NEW b \in BreakerState, NEW ok \in BOOLEAN
    PROVE  /\ Recorded(b, ok) \in BreakerState
           /\ Recorded(b, ok).state = b.state
           /\ Recorded(b, ok).cooled = b.cooled
<1>1. Failures \in Nat
  BY DEF ProxyAssumption
<1>2. \A n \in 0..Failures : n # Failures => n + 1 \in 0..Failures
  BY <1>1
<1>3. QED
  BY <1>1, <1>2 DEF Recorded, BreakerState

\* Routing puts a breaker on probation only after its cooldown.
LEMMA ProbedKeeps ==
    ASSUME ProxyAssumption, NEW b \in BreakerState
    PROVE  /\ Probed(b) \in BreakerState
           /\ KeepsPromise(b, Probed(b))
<1>1. OnProbation \in BreakerState
  BY DEF OnProbation, BreakerState, ProxyAssumption
<1>2. OnProbation.state = "half" /\ ~OnProbation.cooled
  BY DEF OnProbation
<1>3. QED
  BY <1>1, <1>2 DEF Probed, KeepsPromise

\* A model taken out of rotation stays out for its cooldown.
LEMMA CondemnedKeeps ==
    ASSUME ProxyAssumption, NEW b
    PROVE  /\ Condemned(b) \in BreakerState
           /\ Probed(Condemned(b)) = Condemned(b)
           /\ Condemned(b).state = "open" /\ ~Condemned(b).cooled
BY DEF Condemned, Probed, OnProbation, BreakerState, ProxyAssumption

\* A verdict closes a breaker only from probation.
LEMMA VerdictsKeep ==
    ASSUME ProxyAssumption, NEW b \in BreakerState, NEW d \in Verdicts(b)
    PROVE  d \in BreakerState /\ KeepsPromise(b, d)
<1>1. CASE b.state = "half"
  BY <1>1, CondemnedKeeps DEF Verdicts, BreakerState, KeepsPromise
<1>2. CASE b.state = "closed"
  BY <1>2, CondemnedKeeps DEF Verdicts, BreakerState, KeepsPromise
<1>3. CASE b.state = "open"
  <2>1. d \in {b, Probed(b)}
    BY <1>3 DEF Verdicts
  <2>2. QED
    BY <2>1, ProbedKeeps DEF KeepsPromise
<1>4. QED
  BY <1>1, <1>2, <1>3 DEF BreakerState

\* So does the verdict on a breaker with one more outcome.
LEMMA JudgedKeeps ==
    ASSUME ProxyAssumption, NEW b \in BreakerState, NEW ok \in BOOLEAN,
           NEW d \in Verdicts(Recorded(b, ok))
    PROVE  d \in BreakerState /\ KeepsPromise(b, d)
<1>1. d \in BreakerState /\ KeepsPromise(Recorded(b, ok), d)
  BY RecordedKeeps, VerdictsKeep
<1>2. QED
  BY <1>1, RecordedKeeps DEF KeepsPromise

-----------------------------------------------------------------------------
(* Parts of the steps. *)

\* The breakers each keep their promise in a step.
AllKeep == \A m \in Model : KeepsPromise(breaker[m], breaker'[m])

StrategyTypes ==
    /\ index \in 0..(Models - 1)
    /\ sticky \in Model \cup {None}
    /\ affinity \in [Session -> Model \cup {None}]

\* A route changes breakers by putting them on probation, and nothing else.
LEMMA RoutesTypes ==
    ASSUME ProxyAssumption, StrategyTypes, NEW c \in Client, NEW m \in Model,
           NEW brk \in [Model -> BreakerState], Routes(c, brk, m, breaker')
    PROVE  /\ breaker' \in [Model -> BreakerState]
           /\ \A k \in Model : breaker'[k] \in {brk[k], Probed(brk[k])}
           /\ StrategyTypes'
<1>1. \A k \in Model : Probed(brk[k]) \in BreakerState
  BY ProbedKeeps
<1>2. m % Models \in 0..(Models - 1)
  BY DEF Model, ProxyAssumption
<1>3. StrategyTypes'
  BY <1>2 DEF Routes, StrategyTypes, strategy
<1>4. breaker' \in {brk, [brk EXCEPT ![m] = Probed(@)], [k \in Model |-> Probed(brk[k])]}
  BY DEF Routes
<1>5. QED
  BY <1>1, <1>3, <1>4

\* The end of a request.
LEMMA EndTypes ==
    ASSUME ProxyAssumption, IInv, NEW c \in Client, NEW ok \in BOOLEAN, NEW judged \in BOOLEAN,
           EndWith(c, ok, judged)
    PROVE  /\ breaker' \in [Model -> BreakerState] /\ AllKeep
           /\ req' = [req EXCEPT ![c] = Idle]
<1> DEFINE m == req[c].model
<1>1. m \in Model /\ breaker[m] \in BreakerState /\ breaker \in [Model -> BreakerState]
  BY DEF IInv, TypeOK, Request
<1>2. \A k \in Model : KeepsPromise(breaker[k], breaker[k])
  BY DEF KeepsPromise
<1>3. CASE UNCHANGED breaker
  BY <1>1, <1>2, <1>3 DEF EndWith, Finish, AllKeep
<1>4. ASSUME NEW b, breaker' = [breaker EXCEPT ![m] = b],
             b \in Verdicts(Recorded(breaker[m], ok)) \/ b = Recorded(breaker[m], ok)
      PROVE  breaker' \in [Model -> BreakerState] /\ AllKeep
  <2>1. b \in BreakerState /\ KeepsPromise(breaker[m], b)
    BY <1>1, <1>4, JudgedKeeps, RecordedKeeps DEF KeepsPromise
  <2>2. QED
    BY <1>1, <1>2, <1>4, <2>1 DEF AllKeep
<1>5. QED
  BY <1>3, <1>4 DEF EndWith, Finish

\* A request in flight.
Flight(r) ==
    /\ r \in Request
    /\ r.attempt \in 1..r.attempts
    /\ r.attempts <= MaxRetries + 1 \/ r.attempts <= 2

\* What NoSplice and NothingOwed ask of a request.
Honest(r) ==
    /\ r.at \in {"gate", "wait", "send"} => ~r.owed
    /\ (r.at \in {"stream", "hold"} /\ "content" \notin r.saw) => ~r.owed

LEMMA IdleFlight == ASSUME ProxyAssumption PROVE Flight(Idle) /\ Honest(Idle)
BY DEF Idle, Request, Flight, Honest, Model, ProxyAssumption

\* The invariant, request by request.
LEMMA ByRequest ==
    IInv <=> /\ kind \in Kind /\ StrategyTypes
             /\ breaker \in [Model -> BreakerState] /\ saturated \subseteq Provider
             /\ req \in [Client -> Request]
             /\ \A c \in Client : Flight(req[c]) /\ Honest(req[c])
BY DEF IInv, TypeOK, NoSplice, NothingOwed, StrategyTypes, Flight, Honest, Streams

\* A step that changes one request at most.
LEMMA OneRequest ==
    ASSUME IInv, kind' = kind, StrategyTypes', breaker' \in [Model -> BreakerState],
           saturated' \subseteq Provider, NEW c \in Client, NEW r,
           req' = [req EXCEPT ![c] = r], Flight(r), Honest(r)
    PROVE  IInv'
<1>1. r \in Request
  BY DEF Flight
<1>2. req' \in [Client -> Request] /\ \A b \in Client : req'[b] = IF b = c THEN r ELSE req[b]
  BY <1>1, ByRequest
<1>3. \A b \in Client : Flight(req'[b]) /\ Honest(req'[b])
  BY <1>2, ByRequest
<1>4. /\ \A b \in Client : /\ req'[b].attempt \in 1..req'[b].attempts
                           /\ req'[b].attempts <= MaxRetries + 1 \/ req'[b].attempts <= 2
      /\ \A b \in Client : req'[b].at \in {"gate", "wait", "send"} => ~req'[b].owed
      /\ \A b \in Client : (req'[b].at \in {"stream", "hold"} /\ "content" \notin req'[b].saw)
                              => ~req'[b].owed
  BY <1>3 DEF Flight, Honest
<1>5. QED
  BY <1>2, <1>4, ByRequest DEF IInv, TypeOK, NoSplice, NothingOwed, StrategyTypes, Streams

\* A step that leaves the breakers alone.
LEMMA NoBreaker == ASSUME UNCHANGED breaker PROVE AllKeep
BY DEF AllKeep, KeepsPromise

\* The next attempt at the same model.
LEMMA AgainTypes ==
    ASSUME ProxyAssumption, IInv, NEW c \in Client, NEW attempts \in Nat, NEW skip \in BOOLEAN,
           req[c].attempt < attempts, attempts <= MaxRetries + 1 \/ attempts <= 2,
           ~req[c].owed, Again(c, attempts, skip)
    PROVE  \E r : req' = [req EXCEPT ![c] = r] /\ Flight(r) /\ Honest(r)
<1> DEFINE n == req[c].attempt + 1
           r == [req[c] EXCEPT !.at = "gate", !.attempt = n, !.attempts = attempts,
                               !.skip = skip, !.saw = {}]
<1>1. req \in [Client -> Request] /\ Flight(req[c])
  BY ByRequest
<1>2. req' = [req EXCEPT ![c] = r]
  BY <1>1 DEF Again, Request
<1>3. req[c] \in Request /\ req[c].attempt \in Nat /\ req[c].attempt >= 1
  BY <1>1 DEF Flight, Request
<1>a. n \in Nat
  BY <1>3
<1>b. n \in 1..attempts
  BY <1>3, <1>a
<1> HIDE DEF n
<1>4. r \in Request
  BY <1>3, <1>a DEF Request
<1>5. r.attempt \in 1..r.attempts /\ r.attempts = attempts
  BY <1>3, <1>b DEF Request
<1>6. r.at = "gate" /\ ~r.owed
  BY <1>3 DEF Request
<1>7. Flight(r) /\ Honest(r)
  BY <1>4, <1>5, <1>6 DEF Flight, Honest
<1>8. QED
  BY <1>2, <1>7

\* A request that leaves a model takes it out of rotation first.
LEMMA RerouteTypes ==
    ASSUME ProxyAssumption, IInv, NEW c \in Client, NEW d \in BreakerState,
           d.state = "open", ~d.cooled, NEW attempts \in Nat, NEW skip \in BOOLEAN,
           req[c].attempt < attempts, attempts <= MaxRetries + 1 \/ attempts <= 2,
           Reroute(c, [breaker EXCEPT ![req[c].model] = d], attempts, skip, FALSE)
    PROVE  /\ breaker' \in [Model -> BreakerState] /\ AllKeep
           /\ StrategyTypes'
           /\ \E r : req' = [req EXCEPT ![c] = r] /\ Flight(r) /\ Honest(r)
<1> DEFINE old == req[c].model
           brk == [breaker EXCEPT ![old] = d]
<1>1. /\ req \in [Client -> Request] /\ Flight(req[c]) /\ req[c] \in Request /\ StrategyTypes
      /\ breaker \in [Model -> BreakerState] /\ old \in Model
  BY ByRequest DEF Request
<1>2. brk \in [Model -> BreakerState]
  BY <1>1
<1>3. \A k \in Model : KeepsPromise(breaker[k], brk[k]) /\ KeepsPromise(breaker[k], Probed(brk[k]))
  <2>1. Probed(d) = d /\ \A b : KeepsPromise(b, d)
    BY DEF Probed, KeepsPromise
  <2>2. \A k \in Model : k # old => brk[k] = breaker[k]
    BY <1>1
  <2>3. \A k \in Model : KeepsPromise(breaker[k], breaker[k]) /\ KeepsPromise(breaker[k], Probed(breaker[k]))
    BY <1>1, ProbedKeeps DEF KeepsPromise
  <2>4. brk[old] = d
    BY <1>1
  <2>5. QED
    BY <2>1, <2>2, <2>3, <2>4
<1>4. ASSUME NEW m \in Model, Routes(c, brk, m, breaker')
      PROVE  breaker' \in [Model -> BreakerState] /\ AllKeep /\ StrategyTypes'
  <2>1. /\ breaker' \in [Model -> BreakerState]
        /\ \A k \in Model : breaker'[k] \in {brk[k], Probed(brk[k])}
        /\ StrategyTypes'
    BY <1>1, <1>2, <1>4, RoutesTypes
  <2>2. QED
    BY <1>3, <2>1 DEF AllKeep
<1>5. ASSUME breaker' = brk, UNCHANGED strategy
      PROVE  breaker' \in [Model -> BreakerState] /\ AllKeep /\ StrategyTypes'
  BY <1>1, <1>2, <1>3, <1>5 DEF AllKeep, StrategyTypes, strategy
<1>6. breaker' \in [Model -> BreakerState] /\ AllKeep /\ StrategyTypes'
  BY <1>1, <1>4, <1>5 DEF Reroute
<1>7. req[c].attempt \in Nat /\ req[c].attempt >= 1
  BY <1>1 DEF Flight, Request
<1>8. ASSUME NEW m \in Model, NEW n \in Nat, NEW s \in BOOLEAN, n >= 1, n <= attempts,
             req' = [req EXCEPT ![c].at = "gate", ![c].model = m, ![c].attempt = n,
                            ![c].attempts = attempts, ![c].skip = s,
                            ![c].saw = {}, ![c].owed = FALSE]
      PROVE  \E r : req' = [req EXCEPT ![c] = r] /\ Flight(r) /\ Honest(r)
  <2> DEFINE r == [req[c] EXCEPT !.at = "gate", !.model = m, !.attempt = n, !.attempts = attempts,
                                 !.skip = s, !.saw = {}, !.owed = FALSE]
  <2>1. req' = [req EXCEPT ![c] = r]
    BY <1>1, <1>8 DEF Request
  <2>2. r \in Request
    BY <1>1, <1>8 DEF Request
  <2>3. r.at = "gate" /\ ~r.owed /\ r.attempt = n /\ r.attempts = attempts
    BY <1>1 DEF Request
  <2>4. Flight(r) /\ Honest(r)
    BY <1>8, <2>2, <2>3 DEF Flight, Honest
  <2>5. QED
    BY <2>1, <2>4
<1>9. \E r : req' = [req EXCEPT ![c] = r] /\ Flight(r) /\ Honest(r)
  <2>1. CASE \E m \in Model : 
             req' = [req EXCEPT ![c].at = "gate", ![c].model = m, ![c].attempt = 1,
                            ![c].attempts = attempts, ![c].skip = FALSE,
                            ![c].saw = {}, ![c].owed = FALSE]
    <3>1. PICK m \in Model : req' = [req EXCEPT ![c].at = "gate", ![c].model = m, ![c].attempt = 1,
                            ![c].attempts = attempts, ![c].skip = FALSE,
                            ![c].saw = {}, ![c].owed = FALSE]
      BY <2>1
    <3>2. 1 <= attempts /\ 1 \in Nat /\ 1 >= 1
      BY <1>7
    <3>3. QED
      BY <1>8, <3>1, <3>2
  <2>2. CASE req' = [req EXCEPT ![c].at = "gate", ![c].attempt = @ + 1,
                      ![c].attempts = attempts, ![c].skip = skip,
                      ![c].saw = {}, ![c].owed = FALSE]
    <3> DEFINE n == req[c].attempt + 1
               r == [req[c] EXCEPT !.at = "gate", !.attempt = n, !.attempts = attempts,
                                   !.skip = skip, !.saw = {}, !.owed = FALSE]
    <3>1. req' = [req EXCEPT ![c] = r]
      BY <1>1, <2>2 DEF Request
    <3>a. n \in Nat /\ n \in 1..attempts
      BY <1>7
    <3> HIDE DEF n
    <3>2. r \in Request
      BY <1>1, <3>a DEF Request
    <3>3. r.at = "gate" /\ ~r.owed /\ r.attempt = n /\ r.attempts = attempts
      BY <1>1 DEF Request
    <3>4. Flight(r) /\ Honest(r)
      BY <3>a, <3>2, <3>3 DEF Flight, Honest
    <3>5. QED
      BY <3>1, <3>4
  <2>3. QED
    BY <2>1, <2>2 DEF Reroute
<1>10. QED
  BY <1>6, <1>9

-----------------------------------------------------------------------------
(* The steps. *)

\* A request that ends leaves nothing behind but a verdict.
LEMMA EndStep ==
    ASSUME ProxyAssumption, IInv, NEW c \in Client, NEW ok \in BOOLEAN, NEW judged \in BOOLEAN,
           EndWith(c, ok, judged), UNCHANGED <<kind, strategy>>, saturated' \subseteq Provider
    PROVE  IInv' /\ AllKeep
<1>1. /\ breaker' \in [Model -> BreakerState] /\ AllKeep
      /\ req' = [req EXCEPT ![c] = Idle]
  BY EndTypes
<1>2. StrategyTypes'
  BY ByRequest DEF StrategyTypes, strategy
<1>3. QED
  BY <1>1, <1>2, IdleFlight, OneRequest

\* A step of one request that changes nothing else.
LEMMA QuietStep ==
    ASSUME ProxyAssumption, IInv, NEW c \in Client, NEW r, Flight(r), Honest(r),
           req' = [req EXCEPT ![c] = r], UNCHANGED <<kind, strategy, breaker>>,
           saturated' \subseteq Provider
    PROVE  IInv' /\ AllKeep
<1>1. StrategyTypes' /\ breaker' \in [Model -> BreakerState]
  BY ByRequest DEF StrategyTypes, strategy
<1>2. QED
  BY <1>1, OneRequest, NoBreaker

\* An upstream that cannot be reached, or answers with an error.
LEMMA SendStep ==
    ASSUME ProxyAssumption, IInv, NEW c \in Client, TransportError(c) \/ ErrorStatus(c)
    PROVE  IInv' /\ AllKeep
<1> DEFINE m == req[c].model
<1>1. /\ req[c] \in Request /\ Flight(req[c]) /\ Honest(req[c]) /\ req[c].at = "send"
      /\ breaker \in [Model -> BreakerState] /\ m \in Model /\ ~req[c].owed
      /\ saturated \subseteq Provider /\ ProviderOf[m] \in Provider
  BY ByRequest DEF TransportError, ErrorStatus, Request, Honest, ProxyAssumption
<1>2. req[c].attempts \in Nat /\ req[c].owed = FALSE
  BY <1>1 DEF Request
<1>3. req[c].attempts <= MaxRetries + 1 \/ req[c].attempts <= 2
  BY <1>1 DEF Flight
<1>4. Lift(c) \in Nat /\ (Lift(c) <= MaxRetries + 1 \/ Lift(c) <= 2)
  BY <1>2, <1>3 DEF Lift
<1>5. CASE TransportError(c)
  <2>1. CASE EndWith(c, FALSE, TRUE)
    BY <1>1, <1>5, <2>1, EndStep DEF TransportError
  <2>2. CASE req[c].attempt < req[c].attempts /\ Again(c, req[c].attempts, FALSE) /\ UNCHANGED breaker
    <3>1. PICK r : req' = [req EXCEPT ![c] = r] /\ Flight(r) /\ Honest(r)
      BY <1>1, <1>2, <1>3, <2>2, AgainTypes
    <3>2. QED
      BY <1>1, <1>5, <2>2, <3>1, QuietStep DEF TransportError
  <2>3. QED
    BY <1>5, <2>1, <2>2 DEF TransportError
<1>6. CASE ErrorStatus(c)
  <2>1. saturated' \subseteq Provider /\ kind' = kind
    BY <1>1, <1>6 DEF ErrorStatus
  <2>2. ASSUME EndWith(c, FALSE, TRUE), UNCHANGED strategy PROVE IInv' /\ AllKeep
    BY <2>1, <2>2, EndStep
  <2>3. ASSUME NEW attempts \in Nat, attempts <= MaxRetries + 1 \/ attempts <= 2,
               req[c].attempt < attempts, NEW skip \in BOOLEAN,
               Again(c, attempts, skip), UNCHANGED <<strategy, breaker>>
        PROVE  IInv' /\ AllKeep
    <3>1. PICK r : req' = [req EXCEPT ![c] = r] /\ Flight(r) /\ Honest(r)
      BY <1>1, <2>3, AgainTypes
    <3>2. QED
      BY <2>1, <2>3, <3>1, QuietStep
  <2>4. ASSUME NEW attempts \in Nat, attempts <= MaxRetries + 1 \/ attempts <= 2,
               req[c].attempt < attempts, NEW skip \in BOOLEAN,
               Reroute(c, [breaker EXCEPT ![m] = Condemned(@)], attempts, skip, req[c].owed)
        PROVE  IInv' /\ AllKeep
    <3> DEFINE d == Condemned(breaker[m])
    <3>1. d \in BreakerState /\ d.state = "open" /\ ~d.cooled
      BY CondemnedKeeps
    <3>2. Reroute(c, [breaker EXCEPT ![m] = d], attempts, skip, FALSE)
      BY <1>1, <1>2, <2>4
    <3> HIDE DEF d
    <3>3. /\ breaker' \in [Model -> BreakerState] /\ AllKeep
          /\ StrategyTypes'
          /\ \E r : req' = [req EXCEPT ![c] = r] /\ Flight(r) /\ Honest(r)
      BY <2>4, <3>1, <3>2, RerouteTypes
    <3>4. QED
      BY <2>1, <3>3, OneRequest
  <2>5. QED
    <3> DEFINE attempts(t) == IF t = "fault" THEN Lift(c) ELSE req[c].attempts
    <3>1. PICK t \in Trouble :
             LET again == req[c].attempt < attempts(t) /\ t # "final"
                 skip == t = "saturation"
             IN \/ /\ again /\ req[c].strat /\ t # "transient"
                   /\ Reroute(c, [breaker EXCEPT ![m] = Condemned(@)], attempts(t), skip, req[c].owed)
                \/ /\ again /\ ~(req[c].strat /\ t # "transient")
                   /\ Again(c, attempts(t), skip)
                   /\ UNCHANGED <<strategy, breaker>>
                \/ /\ ~again
                   /\ EndWith(c, FALSE, TRUE)
                   /\ UNCHANGED strategy
      BY <1>6 DEF ErrorStatus
    <3>2. /\ attempts(t) \in Nat /\ (t = "saturation") \in BOOLEAN
          /\ attempts(t) <= MaxRetries + 1 \/ attempts(t) <= 2
      BY <1>2, <1>3, <1>4
    <3> HIDE DEF attempts
    <3>3. QED
      BY <2>2, <2>3, <2>4, <3>1, <3>2
<1>7. QED
  BY <1>5, <1>6

\* A request arrives, passes the gate, is answered or given up.
LEMMA GateStep ==
    ASSUME ProxyAssumption, IInv, NEW c \in Client,
           Arrive(c) \/ Gate(c) \/ WaitIsOver(c) \/ Cancelled(c) \/ Success(c) \/ ReadBody(c)
    PROVE  IInv' /\ AllKeep
<1>1. /\ req \in [Client -> Request]
      /\ req[c] \in Request /\ Flight(req[c]) /\ Honest(req[c])
      /\ breaker \in [Model -> BreakerState] /\ StrategyTypes
      /\ saturated \subseteq Provider
  BY ByRequest
<1>2. CASE Arrive(c)
  <2>1. PICK strat \in BOOLEAN, streaming \in BOOLEAN, m \in Model :
          /\ IF strat THEN Routes(c, breaker, m, breaker')
                      ELSE UNCHANGED <<strategy, breaker>>
          /\ req' = [req EXCEPT ![c] =
                [Idle EXCEPT !.at = "gate", !.strat = strat, !.streaming = streaming,
                             !.model = m,
                             !.attempts = IF strat /\ MaxRetries = 0 THEN 2
                                          ELSE MaxRetries + 1]]
    BY <1>2 DEF Arrive
  <2> DEFINE n == IF strat /\ MaxRetries = 0 THEN 2 ELSE MaxRetries + 1
             r == [Idle EXCEPT !.at = "gate", !.strat = strat, !.streaming = streaming,
                               !.model = m, !.attempts = n]
  <2>2. n \in Nat /\ 1 \in 1..n /\ (n <= MaxRetries + 1 \/ n <= 2)
    BY DEF ProxyAssumption
  <2>a. req' = [req EXCEPT ![c] = r]
    BY <2>1
  <2> HIDE DEF n
  <2>3. Flight(r) /\ Honest(r)
    BY <2>2, IdleFlight DEF Idle, Flight, Honest, Request
  <2>4. breaker' \in [Model -> BreakerState] /\ AllKeep /\ StrategyTypes'
    <3>1. CASE strat
      <4>1. /\ breaker' \in [Model -> BreakerState]
            /\ \A k \in Model : breaker'[k] \in {breaker[k], Probed(breaker[k])}
            /\ StrategyTypes'
        BY <1>1, <2>1, <3>1, RoutesTypes
      <4>2. \A k \in Model : KeepsPromise(breaker[k], breaker[k]) /\ KeepsPromise(breaker[k], Probed(breaker[k]))
        BY <1>1, ProbedKeeps DEF KeepsPromise
      <4>3. QED
        BY <4>1, <4>2 DEF AllKeep
    <3>2. CASE ~strat
      BY <1>1, <2>1, <3>2, NoBreaker DEF StrategyTypes, strategy
    <3>3. QED
      BY <3>1, <3>2
  <2>5. kind' = kind /\ saturated' \subseteq Provider
    BY <1>1, <1>2 DEF Arrive
  <2> HIDE DEF r
  <2>6. QED
    BY <2>a, <2>3, <2>4, <2>5, OneRequest
<1>3. ASSUME NEW a \in {"wait", "send", "stream", "read"}, NEW s \in {req[c].skip, FALSE},
             req[c].at \in {"gate", "wait", "send"},
             req' = [req EXCEPT ![c].at = a, ![c].skip = s],
             UNCHANGED <<kind, strategy, breaker>>, saturated' \subseteq Provider
      PROVE  IInv' /\ AllKeep
  <2> DEFINE r == [req[c] EXCEPT !.at = a, !.skip = s]
  <2>1. req' = [req EXCEPT ![c] = r]
    BY <1>1, <1>3 DEF Request
  <2>2. r \in Request /\ r.attempt = req[c].attempt /\ r.attempts = req[c].attempts
        /\ r.owed = req[c].owed
    BY <1>1, <1>3 DEF Request
  <2>3. Flight(r) /\ Honest(r)
    BY <1>1, <1>3, <2>2 DEF Flight, Honest
  <2> HIDE DEF r
  <2>4. QED
    BY <1>3, <2>1, <2>3, QuietStep
<1>4. \A a : [req EXCEPT ![c].at = a] = [req EXCEPT ![c].at = a, ![c].skip = req[c].skip]
  BY <1>1 DEF Request
<1>5. CASE Gate(c)
  <2>1. PICK a \in {"wait", "send"} : req' = [req EXCEPT ![c].at = a, ![c].skip = FALSE]
    BY <1>1, <1>5 DEF Gate, Request
  <2>2. QED
    BY <1>1, <1>3, <1>5, <2>1 DEF Gate
<1>6. CASE WaitIsOver(c)
  BY <1>1, <1>3, <1>4, <1>6 DEF WaitIsOver
<1>7. CASE Success(c)
  <2>1. PICK a \in {"stream", "read"} : req' = [req EXCEPT ![c].at = a]
    BY <1>7 DEF Success
  <2>2. saturated' \subseteq Provider
    BY <1>1, <1>7 DEF Success
  <2>3. QED
    BY <1>3, <1>4, <1>7, <2>1, <2>2 DEF Success
<1>8. CASE Cancelled(c)
  BY <1>1, <1>8, QuietStep, IdleFlight DEF Cancelled, Finish
<1>9. CASE ReadBody(c)
  BY <1>1, <1>9, EndStep DEF ReadBody
<1>10. QED
  BY <1>2, <1>5, <1>6, <1>7, <1>8, <1>9

\* An answer is streamed, ends or breaks off.
LEMMA StreamStep ==
    ASSUME ProxyAssumption, IInv, NEW c \in Client,
           Chunk(c) \/ ErrorEvent(c) \/ StreamEnds(c) \/ StreamFails(c)
    PROVE  IInv' /\ AllKeep
<1>1. /\ req \in [Client -> Request]
      /\ req[c] \in Request /\ Flight(req[c]) /\ Honest(req[c])
      /\ req[c].at \in {"stream", "hold"} /\ req[c].model \in Model
      /\ breaker \in [Model -> BreakerState] /\ StrategyTypes
      /\ saturated \subseteq Provider
  BY ByRequest DEF Request, Chunk, ErrorEvent, StreamEnds, StreamFails, Streams, Interrupted
<1>2. req[c].attempts \in Nat /\ (req[c].attempts <= MaxRetries + 1 \/ req[c].attempts <= 2)
  BY <1>1 DEF Flight, Request
<1>3. CASE Chunk(c)
  <2> DEFINE r == [req[c] EXCEPT !.saw = @ \cup {"content"}, !.owed = TRUE]
  <2>1. req' = [req EXCEPT ![c] = r]
    BY <1>1, <1>3 DEF Chunk, Request
  <2>2. r \in Request
    BY <1>1 DEF Request
  <2>3. Flight(r) /\ Honest(r)
    BY <1>1, <2>2 DEF Flight, Honest, Request
  <2> HIDE DEF r
  <2>4. QED
    BY <1>1, <1>3, <2>1, <2>3, QuietStep DEF Chunk
<1>4. CASE ErrorEvent(c)
  <2>0. UNCHANGED <<kind, strategy, breaker>> /\ saturated' \subseteq Provider
    BY <1>1, <1>4 DEF ErrorEvent
  <2>1. ASSUME NEW t, RetryEarly(c, t), Again(c, Lift(c), FALSE) PROVE IInv' /\ AllKeep
    <3>1. ~req[c].owed
      BY <1>1, <2>1 DEF RetryEarly, Honest
    <3>2. Lift(c) \in Nat /\ (Lift(c) <= MaxRetries + 1 \/ Lift(c) <= 2)
      BY <1>2 DEF Lift
    <3>3. req[c].attempt < Lift(c)
      BY <1>1, <1>2, <2>1 DEF Lift, RetryEarly, Flight, Request
    <3>4. PICK r : req' = [req EXCEPT ![c] = r] /\ Flight(r) /\ Honest(r)
      BY <2>1, <3>1, <3>2, <3>3, AgainTypes
    <3>5. QED
      BY <2>0, <3>4, QuietStep
  <2>2. ASSUME NEW t, Holds(c, t), req' = [req EXCEPT ![c].at = "hold"] PROVE IInv' /\ AllKeep
    <3> DEFINE r == [req[c] EXCEPT !.at = "hold"]
    <3>1. req' = [req EXCEPT ![c] = r]
      BY <2>2
    <3>2. r \in Request
      BY <1>1 DEF Request
    <3>3. Flight(r) /\ Honest(r)
      BY <1>1, <3>2 DEF Flight, Honest, Request
    <3> HIDE DEF r
    <3>4. QED
      BY <2>0, <3>1, <3>3, QuietStep
  <2>3. ASSUME req' = [req EXCEPT ![c].saw = @ \cup {"error"}, ![c].owed = FALSE]
        PROVE  IInv' /\ AllKeep
    <3> DEFINE r == [req[c] EXCEPT !.saw = @ \cup {"error"}, !.owed = FALSE]
    <3>1. req' = [req EXCEPT ![c] = r]
      BY <1>1, <2>3 DEF Request
    <3>2. r \in Request
      BY <1>1 DEF Request
    <3>3. Flight(r) /\ Honest(r)
      BY <1>1, <3>2 DEF Flight, Honest, Request
    <3> HIDE DEF r
    <3>4. QED
      BY <2>0, <3>1, <3>3, QuietStep
  <2>4. QED
    BY <1>4, <2>1, <2>2, <2>3 DEF ErrorEvent
<1>5. CASE StreamEnds(c)
  BY <1>1, <1>5, EndStep DEF StreamEnds
<1>6. CASE StreamFails(c)
  <2> DEFINE m == req[c].model
  <2>0. kind' = kind /\ saturated' = saturated
    BY <1>6 DEF StreamFails
  <2>1. ASSUME NEW b \in Verdicts(breaker[m]), req[c].attempt < req[c].attempts,
               Reroute(c, [breaker EXCEPT ![m] = Condemned(b)], req[c].attempts, FALSE, FALSE)
        PROVE  IInv' /\ AllKeep
    <3> DEFINE d == Condemned(b)
    <3>1. d \in BreakerState /\ d.state = "open" /\ ~d.cooled
      BY CondemnedKeeps
    <3>2. Reroute(c, [breaker EXCEPT ![m] = d], req[c].attempts, FALSE, FALSE)
      BY <2>1
    <3> HIDE DEF d
    <3>3. /\ breaker' \in [Model -> BreakerState] /\ AllKeep
          /\ StrategyTypes'
          /\ \E r : req' = [req EXCEPT ![c] = r] /\ Flight(r) /\ Honest(r)
      BY <1>2, <2>1, <3>1, <3>2, RerouteTypes
    <3>4. QED
      BY <1>1, <2>0, <3>3, OneRequest
  <2>2. ASSUME req[c].attempt < req[c].attempts, UNCHANGED <<strategy, breaker>>,
               req' = [req EXCEPT ![c].at = "gate", ![c].attempt = @ + 1, ![c].saw = {},
                                  ![c].owed = FALSE]
        PROVE  IInv' /\ AllKeep
    <3> DEFINE n == req[c].attempt + 1
               r == [req[c] EXCEPT !.at = "gate", !.attempt = n, !.saw = {}, !.owed = FALSE]
    <3>1. req' = [req EXCEPT ![c] = r]
      BY <1>1, <2>2 DEF Request
    <3>2. n \in Nat /\ n \in 1..req[c].attempts
      BY <1>1, <1>2, <2>2 DEF Flight, Request
    <3> HIDE DEF n
    <3>3. r \in Request
      BY <1>1, <3>2 DEF Request
    <3>4. Flight(r) /\ Honest(r)
      BY <1>1, <1>2, <3>2, <3>3 DEF Flight, Honest, Request
    <3> HIDE DEF r
    <3>5. QED
      BY <1>1, <2>0, <2>2, <3>1, <3>4, QuietStep
  <2>3. ASSUME EndWith(c, TRUE, TRUE), UNCHANGED strategy PROVE IInv' /\ AllKeep
    BY <1>1, <2>0, <2>3, EndStep
  <2>4. QED
    BY <1>6, <2>1, <2>2, <2>3 DEF StreamFails
<1>7. QED
  BY <1>3, <1>4, <1>5, <1>6

\* Time passes, or an operator chooses a model.
LEMMA WorldStep ==
    ASSUME ProxyAssumption, IInv,
           \/ \E m \in Model : CoolDown(m) \/ ForceModel(m) \/ \E s \in Session : SwitchSession(s, m)
           \/ \E p \in Provider : SaturationEnds(p)
    PROVE  IInv' /\ AllKeep
<1>1. /\ breaker \in [Model -> BreakerState] /\ StrategyTypes
      /\ saturated \subseteq Provider /\ kind \in Kind
  BY ByRequest
<1>2. ASSUME kind' = kind, StrategyTypes', breaker' \in [Model -> BreakerState],
             saturated' \subseteq Provider, req' = req
      PROVE  IInv'
  BY <1>2 DEF IInv, TypeOK, NoSplice, NothingOwed, StrategyTypes, Streams
<1>3. ASSUME NEW m \in Model, CoolDown(m) PROVE IInv' /\ AllKeep
  <2>1. [breaker[m] EXCEPT !.cooled = TRUE] \in BreakerState
    BY <1>1 DEF BreakerState
  <2>2. breaker' \in [Model -> BreakerState]
    BY <1>1, <1>3, <2>1 DEF CoolDown
  <2>3. AllKeep
    BY <1>1, <1>3 DEF CoolDown, AllKeep, KeepsPromise, BreakerState
  <2>4. StrategyTypes'
    BY <1>1, <1>3 DEF CoolDown, StrategyTypes, strategy
  <2>5. QED
    BY <1>1, <1>2, <1>3, <2>2, <2>3, <2>4 DEF CoolDown
<1>4. ASSUME NEW m \in Model, ForceModel(m) \/ \E s \in Session : SwitchSession(s, m)
      PROVE  IInv' /\ AllKeep
  <2>1. StrategyTypes'
    BY <1>1, <1>4 DEF ForceModel, SwitchSession, StrategyTypes
  <2>2. QED
    BY <1>1, <1>2, <1>4, <2>1, NoBreaker DEF ForceModel, SwitchSession
<1>5. ASSUME NEW p \in Provider, SaturationEnds(p) PROVE IInv' /\ AllKeep
  BY <1>1, <1>2, <1>5, NoBreaker DEF SaturationEnds, StrategyTypes, strategy
<1>6. QED
  BY <1>3, <1>4, <1>5

LEMMA InitInv == ASSUME ProxyAssumption, Init PROVE IInv
<1>1. Fresh \in BreakerState
  BY DEF Fresh, BreakerState, ProxyAssumption
<1>2. StrategyTypes
  BY DEF Init, StrategyTypes, ProxyAssumption
<1>3. breaker \in [Model -> BreakerState] /\ req \in [Client -> Request]
  BY <1>1, IdleFlight DEF Init, Flight
<1>4. \A c \in Client : Flight(req[c]) /\ Honest(req[c])
  BY IdleFlight DEF Init
<1>5. kind \in Kind /\ saturated \subseteq Provider
  BY DEF Init
<1>6. QED
  BY <1>2, <1>3, <1>4, <1>5, ByRequest

LEMMA InvStep == ASSUME IInv, [Next]_vars PROVE IInv' /\ AllKeep
<1>0. ProxyAssumption
  BY ProxyAssumption
<1>1. CASE UNCHANGED vars
  BY <1>1, NoBreaker
     DEF vars, strategy, IInv, TypeOK, NoSplice, NothingOwed, Streams
<1>2. CASE Next
  BY <1>0, <1>2, GateStep, SendStep, StreamStep, WorldStep DEF Next
<1>3. QED
  BY <1>1, <1>2

LEMMA Invariant == Spec => []IInv
<1>1. Init => IInv
  BY InitInv, ProxyAssumption
<1>2. IInv /\ [Next]_vars => IInv'
  BY InvStep
<1>3. QED
  BY <1>1, <1>2, PTL DEF Spec

\* Breakers, strategies and requests keep their types, and no request has more
\* attempts than its provider's retries, or two (proxy.go forwardChat).
THEOREM TypeCorrect == Spec => []TypeOK
<1>1. IInv => TypeOK
  BY DEF IInv
<1>2. QED
  BY <1>1, Invariant, PTL

\* Between two attempts no client is owed the rest of an answer it has begun
\* to read (proxy.go forwardChat, pipeSSE).
THEOREM NothingSpliced == Spec => []NoSplice
<1>1. IInv => NoSplice
  BY DEF IInv
<1>2. QED
  BY <1>1, Invariant, PTL

\* Any number of requests that force, judge and probe the breakers at once keep
\* the promise of each breaker (proxy.go checkCircuitBreaker,
\* breakerStateForRoutingLocked, forwardChat).
THEOREM BreakersHold == Spec => BreakerHolds
<1>1. Init => Breakers!Init
  BY DEF Init, Fresh, Breakers!Init
<1>2. IInv /\ [Next]_vars => [Breakers!Next]_(Breakers!vars)
  <2> SUFFICES ASSUME IInv, [Next]_vars PROVE Breakers!Next
    OBVIOUS
  <2>1. AllKeep
    BY InvStep
  <2>2. QED
    BY <2>1 DEF AllKeep, KeepsPromise, Breakers!Next, Breakers!Trip, Breakers!CoolDown,
                Breakers!Probe, Breakers!Recover, Breakers!Rest
<1>3. QED
  BY <1>1, <1>2, Invariant, PTL DEF Spec, BreakerHolds, Breakers!Spec

-----------------------------------------------------------------------------
(* The plugin of the ship.                                                 *)

\* The requests of an answer to an error.
LEMMA ExecuteTypes ==
    ASSUME R!TypeOK, NEW action \in {"ignore", "retry", "switch-model"}, NEW d, R!Execute(action, d)
    PROVE  /\ wire' \subseteq {"clear", "prompt"} /\ chain' \subseteq {"clear", "switch", "prompt"}
           /\ hasSwitched' \in BOOLEAN
<1>1. /\ wire \subseteq {"clear", "prompt"} /\ chain \subseteq {"clear", "switch", "prompt"}
      /\ hasSwitched \in BOOLEAN
  BY DEF R!TypeOK
<1>2. CASE action = "ignore"
  BY <1>1, <1>2 DEF R!Execute
<1>3. CASE action = "retry"
  BY <1>1, <1>3 DEF R!Execute
<1>4. CASE action = "switch-model"
  BY <1>1, <1>4 DEF R!Execute
<1>5. QED
  BY <1>2, <1>3, <1>4

\* The policy answers with one of three actions.
LEMMA ActionTypes ==
    ASSUME NEW d, NEW source PROVE R!Action(d, source) \in {"ignore", "retry", "switch-model"}
BY DEF R!Action, R!decideAction

\* Requests that are answered.
LEMMA ServeTypes ==
    ASSUME R!TypeOK, \/ \E s \in {"clear", "switch", "prompt"} : R!Chain(s)
                     \/ \E r \in {"clear", "prompt"} : R!Serve(r)
    PROVE  R!TypeOK'
<1>1. ASSUME NEW r \in {"clear", "prompt"}, R!Serve(r) PROVE R!TypeOK'
  BY <1>1 DEF R!Serve, R!TypeOK
<1>2. ASSUME R!Chain("clear") PROVE R!TypeOK'
  BY <1>2 DEF R!Chain, R!TypeOK
<1>3. ASSUME R!Chain("switch") PROVE R!TypeOK'
  BY <1>3 DEF R!Chain, R!TypeOK
<1>4. ASSUME R!Chain("prompt") PROVE R!TypeOK'
  BY <1>4 DEF R!Chain, R!TypeOK
<1>5. QED
  BY <1>1, <1>2, <1>3, <1>4

\* The polls of the status, and what is done about what they find.
LEMMA PollTypes ==
    ASSUME R!TypeOK, NEW q \in Poller, R!Ask(q) \/ R!Throws(q) \/ R!Answered(q)
    PROVE  R!TypeOK'
<1> DEFINE S == {R!Idle, R!Busy} \cup {R!Parked(d) : d \in Err}
<1>1. \A x : poll' = [poll EXCEPT ![q] = x] => \A k \in Poller : poll'[k] = poll[k] \/ poll'[k] = x
  OBVIOUS
<1>2. CASE R!Ask(q)
  BY <1>2 DEF R!Ask, R!TypeOK
<1>3. CASE R!Throws(q)
  BY <1>3 DEF R!Throws, R!TypeOK
<1>4. CASE R!Answered(q)
  <2> DEFINE d == poll[q].err
  <2>1. d \in Err \cup {None}
    BY <1>4 DEF R!Answered, R!TypeOK, R!Idle, R!Busy, R!Parked
  <2>2. /\ \A k \in Poller : poll'[k] = None \/ poll'[k] \in S
        /\ sess' \in S /\ tail' \in Err \cup {None} /\ buffer' \subseteq Err
        /\ logCooldown' \in BOOLEAN
    BY <1>4 DEF R!Answered, R!TypeOK
  <2>3. /\ lastRetryDetail' \in Err \cup {None}
        /\ wire' \subseteq {"clear", "prompt"} /\ chain' \subseteq {"clear", "switch", "prompt"}
        /\ {retryCooldown', hasSwitched', silent'} \subseteq BOOLEAN
    <3>1. CASE d = None
      BY <1>4, <3>1 DEF R!Answered, R!TypeOK
    <3>2. CASE d # None /\ R!Repeats(d)
      BY <1>4, <3>2 DEF R!Answered, R!TypeOK
    <3>3. CASE d # None /\ ~R!Repeats(d)
      <4>1. /\ lastRetryDetail' = d /\ retryCooldown' = TRUE
            /\ R!Execute(R!Action(d, "retry-status"), d)
            /\ silent' = (R!Swallowed(d, R!Action(d, "retry-status")) /\ wire = {} /\ chain = {})
        BY <1>4, <3>3 DEF R!Answered
      <4>2. /\ wire' \subseteq {"clear", "prompt"} /\ chain' \subseteq {"clear", "switch", "prompt"}
            /\ hasSwitched' \in BOOLEAN
        BY <4>1, ActionTypes, ExecuteTypes
      <4>3. silent' \in BOOLEAN
        BY <4>1
      <4>4. QED
        BY <2>1, <4>1, <4>2, <4>3
    <3>4. QED
      BY <3>1, <3>2, <3>3
  <2>4. QED
    BY <2>2, <2>3 DEF R!TypeOK
<1>5. QED
  BY <1>2, <1>3, <1>4

\* The watch on the log, the timer of the events, and the cooldowns.
LEMMA WatchTypes ==
    ASSUME R!TypeOK, R!LogPoll \/ R!Aggregated \/ R!RetryCooldownEnds \/ R!LogCooldownEnds
    PROVE  R!TypeOK'
<1>1. CASE R!LogPoll
  <2> DEFINE d == R!FromLog(tail)  action == R!Action(d, "log-monitor")
  <2>1. /\ R!Execute(action, d) /\ logCooldown' = (action = "retry") /\ silent' = FALSE
        /\ UNCHANGED <<sess, tail, poll, lastRetryDetail, retryCooldown, buffer>>
    BY <1>1 DEF R!LogPoll
  <2>2. action \in {"ignore", "retry", "switch-model"}
    BY ActionTypes
  <2> HIDE DEF d, action
  <2>3. /\ wire' \subseteq {"clear", "prompt"} /\ chain' \subseteq {"clear", "switch", "prompt"}
        /\ hasSwitched' \in BOOLEAN
    BY <2>1, <2>2, ExecuteTypes
  <2>4. QED
    BY <2>1, <2>3 DEF R!TypeOK
<1>2. CASE R!Aggregated
  <2>1. silent' \in BOOLEAN /\ buffer' = {}
        /\ UNCHANGED <<sess, tail, wire, chain, poll, lastRetryDetail, retryCooldown, logCooldown, hasSwitched>>
    BY <1>2 DEF R!Aggregated
  <2>2. QED
    BY <2>1 DEF R!TypeOK
<1>3. CASE R!RetryCooldownEnds \/ R!LogCooldownEnds
  BY <1>3 DEF R!RetryCooldownEnds, R!LogCooldownEnds, R!TypeOK
<1>4. QED
  BY <1>1, <1>2, <1>3

\* opencode and its model.
LEMMA SessionTypes ==
    ASSUME R!TypeOK, R!Turns \/ R!Answers \/ R!LogGrows \/ \E d \in Err : R!Fails(d)
    PROVE  R!TypeOK'
<1>1. CASE R!Turns \/ R!Answers \/ R!LogGrows
  BY <1>1 DEF R!Turns, R!Answers, R!LogGrows, R!TypeOK
<1>2. ASSUME NEW d \in Err, R!Fails(d) PROVE R!TypeOK'
  BY <1>2 DEF R!Fails, R!TypeOK
<1>3. QED
  BY <1>1, <1>2

LEMMA RecoveryTypes == R!Spec => []R!TypeOK
<1>1. R!Init => R!TypeOK
  BY DEF R!Init, R!TypeOK
<1>2. R!TypeOK /\ [R!Next]_R!vars => R!TypeOK'
  <2>1. ASSUME R!TypeOK, UNCHANGED R!vars PROVE R!TypeOK'
    BY <2>1 DEF R!TypeOK, R!vars
  <2>2. ASSUME R!TypeOK, R!Next PROVE R!TypeOK'
    BY <2>2, ServeTypes, PollTypes, WatchTypes, SessionTypes DEF R!Next
  <2>3. QED
    BY <2>1, <2>2
<1>3. QED
  BY <1>1, <1>2, PTL DEF R!Spec

\* Requests, breakers and affinities of the proxy (modelproxy/proxy.go) and the
\* session, the requests and the variables of the plugin (starfleet-dispatch.ts)
\* keep to their types: whatever error is met, the policy answers with one of
\* its actions.
THEOREM ErrorsTypes == Spec /\ R!Spec => []TypesOK
<1>1. TypeOK /\ R!TypeOK => TypesOK
  BY DEF TypesOK
<1>2. QED
  BY <1>1, TypeCorrect, RecoveryTypes, PTL
=============================================================================
