--------------------------- MODULE ExclusiveProofs ---------------------------
(***************************************************************************)
(* Proofs about what keeps programs apart: the lock file (Flock), the      *)
(* queue of the bridge daemons (Bridge) and the claims on pull requests    *)
(* (PullRequests).  The three share no state.                              *)
(***************************************************************************)
EXTENDS Flock, PullRequests, Bridge,
        FiniteSetTheorems, FunctionTheorems, TLAPS

-----------------------------------------------------------------------------
\* What is inductive: the kernel's owner is the one process past the loop,
\* and nobody but that process puts a name into the file.
FlockInv == TypeOK /\ OwnerHolds /\ NoForeignLabel

LEMMA FlockInitially == Init => FlockInv
BY KindAssumption
   DEF Init, FlockInv, TypeOK, OwnerHolds, NoForeignLabel, PC, Holding

\* Every step keeps the types.
LEMMA FlockTypeStep == ASSUME TypeOK, [Next]_vars PROVE TypeOK'
<1> USE KindAssumption DEF TypeOK, PC, Holding, Goto
<1>1. CASE UNCHANGED vars
  BY <1>1 DEF vars
<1>2. ASSUME NEW p \in Proc, Open(p) PROVE TypeOK'
  BY <1>2 DEF Open
<1>3. ASSUME NEW p \in Proc, LockStep(p) PROVE TypeOK'
  <2>1. CASE Acquire(p) BY <2>1 DEF Acquire
  <2>2. CASE GiveUp(p) BY <2>2 DEF GiveUp
  <2>3. CASE ReportHolder(p) BY <2>3 DEF ReportHolder
  <2>4. CASE TruncateForLabel(p) BY <2>4 DEF TruncateForLabel
  <2>5. CASE WriteLabel(p) BY <2>5 DEF WriteLabel
  <2>6. QED BY <1>3, <2>1, <2>2, <2>3, <2>4, <2>5 DEF LockStep
<1>4. ASSUME NEW p \in Proc, Expire(p) PROVE TypeOK'
  BY <1>4 DEF Expire
<1>5. ASSUME NEW p \in Proc, CloseStep(p) PROVE TypeOK'
  <2>1. CASE Unlock(p) BY <2>1 DEF Unlock
  <2>2. CASE TruncateOnClose(p) BY <2>2 DEF TruncateOnClose
  <2>3. CASE ChildExit(p) BY <2>3 DEF ChildExit
  <2>4. CASE WrapperExit(p) BY <2>4 DEF WrapperExit
  <2>5. QED BY <1>5, <2>1, <2>2, <2>3, <2>4 DEF CloseStep
<1>6. ASSUME NEW p \in Proc, Crash(p) PROVE TypeOK'
  BY <1>6 DEF Crash
<1>7. QED BY <1>1, <1>2, <1>3, <1>4, <1>5, <1>6 DEF Next

\* Every step keeps the owner and the process past the loop the same one,
\* and leaves no other name in the file of a holder.
LEMMA FlockStep == ASSUME FlockInv, [Next]_vars
                     PROVE OwnerHolds' /\ NoForeignLabel'
<1> USE KindAssumption
    DEF FlockInv, TypeOK, OwnerHolds, NoForeignLabel, PC, Holding, Goto, Names
<1>1. CASE UNCHANGED vars
  BY <1>1 DEF vars
<1>2. ASSUME NEW p \in Proc, Open(p) PROVE OwnerHolds' /\ NoForeignLabel'
  BY <1>2 DEF Open
<1>3. ASSUME NEW p \in Proc, LockStep(p)
      PROVE OwnerHolds' /\ NoForeignLabel'
  <2>1. CASE Acquire(p) BY <2>1 DEF Acquire
  <2>2. CASE GiveUp(p) BY <2>2 DEF GiveUp
  <2>3. CASE ReportHolder(p) BY <2>3 DEF ReportHolder
  <2>4. CASE TruncateForLabel(p) BY <2>4 DEF TruncateForLabel
  <2>5. CASE WriteLabel(p) BY <2>5 DEF WriteLabel
  <2>6. QED BY <1>3, <2>1, <2>2, <2>3, <2>4, <2>5 DEF LockStep
<1>4. ASSUME NEW p \in Proc, Expire(p) PROVE OwnerHolds' /\ NoForeignLabel'
  BY <1>4 DEF Expire
<1>5. ASSUME NEW p \in Proc, CloseStep(p)
      PROVE OwnerHolds' /\ NoForeignLabel'
  <2>1. CASE Unlock(p) BY <2>1 DEF Unlock
  <2>2. CASE TruncateOnClose(p) BY <2>2 DEF TruncateOnClose
  <2>3. CASE ChildExit(p) BY <2>3 DEF ChildExit
  <2>4. CASE WrapperExit(p) BY <2>4 DEF WrapperExit
  <2>5. QED BY <1>5, <2>1, <2>2, <2>3, <2>4 DEF CloseStep
<1>6. ASSUME NEW p \in Proc, Crash(p) PROVE OwnerHolds' /\ NoForeignLabel'
  BY <1>6 DEF Crash
<1>7. QED BY <1>1, <1>2, <1>3, <1>4, <1>5, <1>6 DEF Next

LEMMA FlockInvariant == Spec => []FlockInv
<1>1. FlockInv /\ [Next]_vars => FlockInv'
  BY FlockTypeStep, FlockStep DEF FlockInv
<1>2. QED BY FlockInitially, <1>1, PTL DEF Spec

\* flock.go, Lock: every variable keeps its type, for any processes.
THEOREM LockTypes == Spec => []TypeOK
<1>1. FlockInv => TypeOK BY DEF FlockInv
<1>2. QED BY <1>1, FlockInvariant, PTL

\* flock.go, Lock: at most one process is past the polling loop, whatever
\* crashes, timeouts and late truncations happen.
THEOREM LockExcludes == Spec => []MutualExclusion
<1>1. FlockInv => MutualExclusion
  BY DEF FlockInv, TypeOK, OwnerHolds, MutualExclusion
<1>2. QED BY <1>1, FlockInvariant, PTL

\* flock.go, Lock / Close: a holder's label can be lost to the previous
\* holder's late truncation, but never turns into another process's.
THEOREM LabelNeverForeign == Spec => []NoForeignLabel
<1>1. FlockInv => NoForeignLabel BY DEF FlockInv
<1>2. QED BY <1>1, FlockInvariant, PTL

\* flock.go, withclonelock.go: the lock file implements one-at-a-time
\* critical sections: every step enters a section nobody is in, leaves one,
\* or is invisible.
THEOREM ImplementsSection == Spec => SectionSpec
<1>1. Init => Section!Init
  BY DEF Init, Section!Init, Inside, Holding
<1>2. ASSUME FlockInv, [Next]_vars PROVE [Section!Next]_Inside
  <2>0. FlockInv BY <1>2
  <2> USE KindAssumption, <2>0 DEF FlockInv, TypeOK, OwnerHolds, PC, Holding, Goto
  <2>1. CASE UNCHANGED vars
    BY <2>1 DEF vars, Inside
  <2>2. ASSUME NEW p \in Proc,
               \/ Open(p) \/ GiveUp(p) \/ ReportHolder(p)
               \/ TruncateForLabel(p) \/ WriteLabel(p) \/ Expire(p)
               \/ TruncateOnClose(p) \/ ChildExit(p)
        PROVE Inside' = Inside
    BY <2>2 DEF Open, GiveUp, ReportHolder, TruncateForLabel, WriteLabel,
                Expire, TruncateOnClose, ChildExit, Inside
  <2>3. ASSUME NEW p \in Proc, Acquire(p) PROVE Section!Enter(p)
    <3>1. \A q : q \notin Inside
      BY <2>3 DEF Acquire, Inside
    <3>2. \A q : q \in Inside' <=> q = p
      BY <2>3, <3>1 DEF Acquire, Inside
    <3>3. Inside = {} /\ Inside' = {p} BY <3>1, <3>2
    <3>4. QED BY <3>3 DEF Section!Enter
  <2>4. ASSUME NEW p \in Proc, Unlock(p) \/ WrapperExit(p)
        PROVE Section!Leave(p)
    <3>1. p \in Inside
      BY <2>4 DEF Unlock, WrapperExit, Inside
    <3>2. \A q : q \in Inside' <=> q \in Inside /\ q # p
      BY <2>4 DEF Unlock, WrapperExit, Inside
    <3>3. Inside' = Inside \ {p} BY <3>2
    <3>4. QED BY <3>1, <3>3 DEF Section!Leave
  <2>5. ASSUME NEW p \in Proc, Crash(p)
        PROVE Section!Leave(p) \/ Inside' = Inside
    <3>1. \A q : q \in Inside' <=> q \in Inside /\ q # p
      BY <2>5 DEF Crash, Inside
    <3>2. Inside' = Inside \ {p} BY <3>1
    <3>3. CASE p \in Inside BY <3>2, <3>3 DEF Section!Leave
    <3>4. CASE p \notin Inside
      <4>1. Inside' = Inside BY <3>2, <3>4
      <4>2. QED BY <4>1
    <3>5. QED BY <3>3, <3>4
  <2>6. ASSUME NEW p \in Proc,
               \/ Open(p) \/ LockStep(p) \/ Expire(p)
               \/ CloseStep(p) \/ Crash(p)
        PROVE Section!Enter(p) \/ Section!Leave(p) \/ Inside' = Inside
    BY <2>2, <2>3, <2>4, <2>5, <2>6 DEF LockStep, CloseStep
  <2>7. QED BY <1>2, <2>1, <2>6 DEF Next, Section!Next
<1>3. QED BY <1>1, <1>2, FlockInvariant, PTL DEF Spec, SectionSpec, Section!Spec

-----------------------------------------------------------------------------
\* A command that is under way holds the mutex of its server, found the
\* environment as the daemon left it and has put its own name there.
CommandsHold ==
    \A r \in Request : req[r].at \in {"running", "ran"} =>
        /\ req[r].to \in Server
        /\ execMu[req[r].to] = r
        /\ req[r].saved = NoName
        /\ env[req[r].to] = req[r].name

\* What waits has been accepted by a server.
QueuedSomewhere == \A r \in Request : req[r].at = "queued" => req[r].to \in Server

\* Where no command runs the environment is the daemon's own.
EnvRestored == \A p \in Server : execMu[p] = NoName => env[p] = NoName

\* IdentityIsOwn says nothing of commands that have not run yet: what makes
\* it inductive is who holds the mutex and what the environment is then.
BridgeInv == BridgeTypeOK /\ CommandsHold /\ QueuedSomewhere /\ EnvRestored /\ IdentityIsOwn

LEMMA BridgeInitially == ASSUME BridgeAssumption PROVE BridgeInit => BridgeInv
BY DEF BridgeAssumption, BridgeInit, BridgeInv, BridgeTypeOK, CommandsHold, QueuedSomewhere,
       EnvRestored, IdentityIsOwn, Unused, Req, Name

\* Nothing that is under way comes into being by the end of a server.
LEMMA LostInv ==
    ASSUME BridgeInv, NEW p \in Server, req' = Lost(p), UNCHANGED <<env, execMu>>
    PROVE  /\ req' \in [Request -> Req]
           /\ CommandsHold' /\ QueuedSomewhere' /\ EnvRestored' /\ IdentityIsOwn'
<1> USE DEF BridgeInv, BridgeTypeOK
<1>1. req' \in [Request -> Req]
  BY DEF Lost, Req
<1>2. \A r \in Request :
         \/ req'[r] = req[r]
         \/ req'[r].at = "lost"
  BY DEF Lost, Req
<1>3. QED
  BY <1>1, <1>2 DEF CommandsHold, QueuedSomewhere, EnvRestored, IdentityIsOwn

\* The steps of a server leave what its commands rely on alone.
LEMMA ServerStep ==
    ASSUME BridgeAssumption, BridgeInv, NEW p \in Server,
           \/ Start(p) \/ RemoveStale(p) \/ Listen(p) \/ Shutdown(p) \/ Exit(p) \/ Killed(p)
    PROVE  BridgeInv'
<1> USE DEF BridgeAssumption
<1>1. CASE Start(p) \/ RemoveStale(p) \/ Listen(p) \/ Shutdown(p)
  <2>1. BridgeTypeOK'
    BY <1>1 DEF BridgeInv, BridgeTypeOK, Start, RemoveStale, Listen, Shutdown
  <2>2. UNCHANGED <<env, execMu, req>>
    BY <1>1 DEF Start, RemoveStale, Listen, Shutdown
  <2>3. QED
    BY <2>1, <2>2 DEF BridgeInv, CommandsHold, QueuedSomewhere, EnvRestored, IdentityIsOwn
<1>2. CASE Exit(p) \/ Killed(p)
  <2>1. req' = Lost(p) /\ UNCHANGED <<env, execMu>>
    BY <1>2 DEF Exit, Killed
  <2>2. /\ req' \in [Request -> Req]
        /\ CommandsHold' /\ QueuedSomewhere' /\ EnvRestored' /\ IdentityIsOwn'
    BY <2>1, LostInv
  <2>3. BridgeTypeOK'
    BY <1>2, <2>1, <2>2 DEF BridgeInv, BridgeTypeOK, Exit, Killed
  <2>4. QED
    BY <2>2, <2>3 DEF BridgeInv
<1>3. QED
  BY <1>1, <1>2

\* They keep the types.
LEMMA RequestTypes ==
    ASSUME BridgeTypeOK, NEW r \in Request, req[r].at = "queued" => req[r].to \in Server,
           Refuse(r) \/ Override(r) \/ RunCommand(r), env[req[r].to] \in Name
    PROVE  BridgeTypeOK'
<1> USE DEF BridgeTypeOK, Req
<1>1. CASE Refuse(r)
  <2>1. req'[r] \in Req
    BY <1>1 DEF Refuse
  <2>2. QED
    BY <1>1, <2>1 DEF Refuse
<1>2. CASE Override(r)
  <2>1. req[r].to \in Server /\ req[r].name \in Name
    BY <1>2 DEF Override
  <2>2. [req[r] EXCEPT !.at = "running", !.saved = env[req[r].to]] \in Req
    OBVIOUS
  <2>3. req' \in [Request -> Req]
    BY <1>2, <2>2 DEF Override
  <2>4. env' \in [Server -> Name] /\ execMu' \in [Server -> Request \cup {NoName}]
    BY <1>2, <2>1 DEF Override
  <2>5. QED
    BY <1>2, <2>3, <2>4 DEF Override
<1>3. CASE RunCommand(r)
  <2>1. req'[r] \in Req
    BY <1>3 DEF RunCommand
  <2>2. QED
    BY <1>3, <2>1 DEF RunCommand
<1>4. QED
  BY <1>1, <1>2, <1>3

\* The steps of a connection: the mutex keeps two of them apart.
LEMMA RequestStep ==
    ASSUME BridgeAssumption, BridgeInv, NEW r \in Request,
           \/ Refuse(r) \/ Override(r) \/ RunCommand(r) \/ Restore(r)
           \/ \E n \in Name : Connect(r, n)
    PROVE  BridgeInv'
<1>0. ASSUME Refuse(r) \/ Override(r) \/ RunCommand(r) PROVE BridgeTypeOK'
  <2>1. req[r].at = "queued" => req[r].to \in Server
    BY DEF BridgeInv, QueuedSomewhere
  <2>2. req[r].to \in Server
    BY <1>0, <2>1 DEF BridgeInv, CommandsHold, Refuse, Override, RunCommand
  <2>3. QED
    BY <1>0, <2>1, <2>2, RequestTypes DEF BridgeInv, BridgeTypeOK
<1> USE DEF BridgeAssumption, BridgeInv, BridgeTypeOK, Req, Name, CommandsHold, QueuedSomewhere,
            EnvRestored, IdentityIsOwn
<1>1. CASE Refuse(r)
  <2>1. BridgeTypeOK'
    BY <1>0, <1>1
  <2>2. CommandsHold'
    BY <1>1 DEF Refuse
  <2>3. QueuedSomewhere' /\ EnvRestored'
    BY <1>1 DEF Refuse
  <2>4. IdentityIsOwn'
    BY <1>1 DEF Refuse
  <2>5. QED
    BY <2>1, <2>2, <2>3, <2>4
<1>2. CASE Override(r)
  <2>1. BridgeTypeOK'
    BY <1>0, <1>2
  <2>2. CommandsHold'
    BY <1>2 DEF Override, Mutex
  <2>3. QueuedSomewhere' /\ EnvRestored'
    BY <1>2 DEF Override, Mutex
  <2>4. IdentityIsOwn'
    BY <1>2 DEF Override, Mutex
  <2>5. QED
    BY <2>1, <2>2, <2>3, <2>4
<1>3. CASE RunCommand(r)
  <2>1. BridgeTypeOK'
    BY <1>0, <1>3
  <2>2. CommandsHold'
    BY <1>3 DEF RunCommand
  <2>3. QueuedSomewhere' /\ EnvRestored'
    BY <1>3 DEF RunCommand
  <2>4. IdentityIsOwn'
    BY <1>3 DEF RunCommand
  <2>5. QED
    BY <2>1, <2>2, <2>3, <2>4
<1>4. CASE Restore(r)
  <2>1. req[r].to \in Server /\ req[r].saved = NoName
    BY <1>4 DEF Restore
  <2>2. BridgeTypeOK'
    <3>1. [req[r] EXCEPT !.at = "done"] \in Req
      OBVIOUS
    <3>2. req' \in [Request -> Req]
      BY <1>4, <3>1 DEF Restore
    <3>3. QED
      BY <1>4, <2>1, <3>2 DEF Restore
  <2>3. CommandsHold' /\ QueuedSomewhere'
    BY <1>4, <2>1 DEF Restore
  <2>4. EnvRestored' /\ IdentityIsOwn'
    BY <1>4, <2>1 DEF Restore
  <2>5. QED
    BY <2>2, <2>3, <2>4
<1>5. ASSUME NEW n \in Name, Connect(r, n) PROVE BridgeInv'
  <2>1. sock \in Server
    BY <1>5 DEF Connect, Live
  <2>2. [Unused EXCEPT !.at = "queued", !.to = sock, !.name = n] \in Req
    BY <2>1 DEF Unused
  <2>3. req' \in [Request -> Req]
    BY <1>5, <2>2 DEF Connect
  <2>4. BridgeTypeOK'
    BY <1>5, <2>3 DEF Connect
  <2>5. req'[r].at = "queued" /\ req'[r].to = sock
    BY <1>5 DEF Connect, Unused
  <2>6. \A q \in Request \ {r} : req'[q] = req[q]
    BY <1>5 DEF Connect
  <2>7. UNCHANGED <<env, execMu>>
    BY <1>5 DEF Connect
  <2>8. CommandsHold' /\ IdentityIsOwn'
    BY <2>5, <2>6, <2>7
  <2>9. QueuedSomewhere' /\ EnvRestored'
    BY <2>1, <2>5, <2>6, <2>7
  <2>10. QED
    BY <2>4, <2>8, <2>9
<1>6. QED
  BY <1>1, <1>2, <1>3, <1>4, <1>5

LEMMA BridgeStep == ASSUME BridgeAssumption, BridgeInv, [BridgeNext]_bridgeVars PROVE BridgeInv'
<1>1. CASE UNCHANGED bridgeVars
  BY <1>1 DEF bridgeVars, BridgeInv, BridgeTypeOK, CommandsHold, QueuedSomewhere, EnvRestored,
              IdentityIsOwn
<1>2. CASE BridgeNext
  BY <1>2, ServerStep, RequestStep DEF BridgeNext
<1>3. QED
  BY <1>1, <1>2

LEMMA BridgeInvariant == ASSUME BridgeAssumption PROVE BridgeSpec => []BridgeInv
<1>1. BridgeInit => BridgeInv
  BY BridgeInitially
<1>2. BridgeInv /\ [BridgeNext]_bridgeVars => BridgeInv'
  BY BridgeStep
<1>3. QED
  BY <1>1, <1>2, PTL DEF BridgeSpec

\* Every variable of the bridge keeps its type, whatever servers start and
\* die (server.go).
THEOREM BridgeTypes == ASSUME BridgeAssumption PROVE BridgeSpec => []BridgeTypeOK
<1>1. BridgeInv => BridgeTypeOK
  BY DEF BridgeInv
<1>2. QED
  BY <1>1, BridgeInvariant, PTL

\* No command of the bridge acts under the name of another request, however
\* many connections are served at once (server.go runCaptured,
\* applyEnvOverrides).
THEOREM NamesAreOwn == ASSUME BridgeAssumption PROVE BridgeSpec => []IdentityIsOwn
<1>1. BridgeInv => IdentityIsOwn
  BY DEF BridgeInv
<1>2. QED
  BY <1>1, BridgeInvariant, PTL

-----------------------------------------------------------------------------
\* Whoever is past the lock of the registry holds it, and is not yet told
\* that the request is its own.
LockHeld ==
    \A a \in Agent : job[a].at \in {"locked", "write"} =>
        /\ registry = a
        /\ job[a].op \in ClaimOps
        /\ job[a].p \in PR
        /\ job[a].p \notin holds[a]

\* Nobody has a request whose claim is being written.
NobodysYet ==
    \A a, b \in Agent : job[a].at = "write" => job[a].p \notin holds[b]

\* Who has been told that a request is its own is named in the claim.
HoldersClaim ==
    \A a \in Agent : \A p \in holds[a] : claim[p] = [who |-> a, file |-> "fresh"]

\* What a command has in hand at each of its later stages.
InHand ==
    \A a \in Agent :
        /\ job[a].at \in {"fetched", "branch", "push"} => job[a].p \in PR /\ job[a].k \in Clone
        /\ job[a].at \in {"info", "merge"} => job[a].p \in PR

\* ClaimsExclude alone does not say why the next taker of a claim takes it
\* from nobody: the claim names its holder, and the lock is held throughout.
RequestsInv == RequestsTypeOK /\ LockHeld /\ NobodysYet /\ HoldersClaim /\ InHand

\* Each request can be opened with a commit of its own.
LEMMA OpenedType ==
    ASSUME PullRequestsAssumption
    PROVE  /\ Opened \in [PR -> 1..Cardinality(PR)]
           /\ Cardinality(PR) \in Ref
<1> DEFINE n == Cardinality(PR)
<1>1. n \in Nat /\ ExistsBijection(1..n, PR)
  BY FS_CardinalityType DEF PullRequestsAssumption
<1>2. ExistsBijection(PR, 1..n)
  BY <1>1, Fun_ExistsBijSymmetric
<1>3. PICK f : f \in Bijection(PR, 1..n)
  BY <1>2 DEF ExistsBijection
<1>4. /\ f \in [PR -> 1..n]
      /\ \A p, q \in PR : p # q => f[p] # f[q]
  BY <1>3 DEF Bijection, Injection, IsInjective
<1>5. Opened \in [PR -> 1..n]
  BY <1>4 DEF Opened
<1>6. QED
  BY <1>1, <1>5 DEF PullRequestsAssumption, Ref

\* There is room for another commit.
LEMMA NextRef == ASSUME MaxCommit \in Nat, NEW n \in Ref, n < MaxCommit PROVE n + 1 \in Ref
BY DEF Ref

\* A branch that moves to a commit.
LEMMA MovesTypes ==
    ASSUME tip \in [PR -> Ref], replaced \in [PR -> SUBSET Ref], NEW p \in PR, NEW c \in Ref, Moves(p, c)
    PROVE  tip' \in [PR -> Ref] /\ replaced' \in [PR -> SUBSET Ref]
BY DEF Moves

\* A clone that goes to the branch of a task.
LEMMA OnTaskBranch ==
    ASSUME 0 \in Ref, NEW c \in CloneState
    PROVE  [c EXCEPT !.on = None, !.head = 0, !.base = 0, !.crossed = TRUE] \in CloneState
<1> DEFINE d == [c EXCEPT !.on = None, !.head = 0]
<1>1. d \in CloneState
  BY DEF CloneState
<1>2. QED
  BY <1>1 DEF CloneState

\* What the program begins with has the types.
LEMMA InitTypes == ASSUME PullRequestsAssumption, RequestsInit PROVE RequestsTypeOK
<1>1. crew \in Crews /\ registry \in Agent \cup {None} /\ blind \subseteq Run
  BY DEF RequestsInit
<1>2. claim \in [PR -> Claim] /\ holds \in [Agent -> SUBSET PR]
  BY DEF RequestsInit, NoClaim, Claim
<1>3. made \in Ref /\ tip \in [PR -> Ref] /\ merged \in [PR -> BOOLEAN]
  BY OpenedType, FS_CardinalityType DEF RequestsInit, Ref, PullRequestsAssumption
<1>4. run \in [Run -> {"absent", "active", "green", "red", "cancelled", "deleted"}]
  BY DEF RequestsInit
<1>5. NoClone \in CloneState /\ Idle \in Job
  BY DEF NoClone, CloneState, Idle, Job, Ref, PullRequestsAssumption
<1>6. clone \in [Clone -> CloneState] /\ job \in [Agent -> Job]
  BY <1>5 DEF RequestsInit
<1>7. QED
  BY <1>1, <1>2, <1>3, <1>4, <1>6 DEF RequestsTypeOK, RequestsInit

\* The record of a command that has none.
LEMMA IdleType == ASSUME PullRequestsAssumption PROVE Idle \in Job
BY DEF Idle, Job, Ref, PullRequestsAssumption

\* The commands of the registry keep the types.
LEMMA ClaimTypes ==
    ASSUME PullRequestsAssumption, RequestsInv, NEW a \in Agent,
           \/ Truncate(a) \/ Write(a) \/ Refused(a) \/ Release(a)
           \/ \E p \in PR, op \in Op : Enter(a, op, p)
    PROVE  RequestsTypeOK'
<1> USE DEF RequestsInv, RequestsTypeOK, branches, repo, ci
<1>0. Idle \in Job
  BY IdleType
<1>1. CASE Truncate(a)
  <2>1. [job[a] EXCEPT !.at = "write"] \in Job
    BY DEF Job
  <2>2. QED
    BY <1>1, <2>1 DEF Truncate, Claim, Empty
<1>2. CASE Write(a)
  <2>1. job[a].p \in PR
    BY <1>2 DEF RequestsInv, LockHeld, Write
  <2>2. claim' \in [PR -> Claim] /\ holds' \in [Agent -> SUBSET PR]
    BY <1>2, <2>1 DEF Write, Claim
  <2>3. QED
    BY <1>0, <1>2, <2>2 DEF Write, Leave, Ends
<1>3. CASE Refused(a)
  BY <1>0, <1>3 DEF Refused, Leave, Ends
<1>4. CASE Release(a)
  BY <1>0, <1>4 DEF Release, Leave, Ends, NoClaim, Claim
<1>5. ASSUME NEW p \in PR, NEW op \in Op, Enter(a, op, p) PROVE RequestsTypeOK'
  <2>1. [Idle EXCEPT !.op = op, !.p = p, !.at = "locked"] \in Job
    BY <1>0 DEF Job
  <2>2. QED
    BY <1>5, <2>1 DEF Enter
<1>6. QED
  BY <1>1, <1>2, <1>3, <1>4, <1>5

\* So do the commands that work in clones.
LEMMA CloneTypes ==
    ASSUME PullRequestsAssumption, RequestsInv, NEW a \in Agent,
           \/ ToTaskBranch(a) \/ ToBranch(a) \/ CheckoutFails(a) \/ Push(a)
           \/ \E k \in Clone : Amend(a, k)
           \/ \E p \in PR, k \in Clone : Checkout(a, p, k)
    PROVE  RequestsTypeOK'
<1> USE DEF RequestsInv, RequestsTypeOK, claims, branches, repo, ci
<1>0. Idle \in Job /\ 0 \in Ref
  BY IdleType DEF Ref, PullRequestsAssumption
<1>1. CASE ToTaskBranch(a)
  <2>1. job[a].k \in Clone
    BY <1>1 DEF InHand, ToTaskBranch
  <2> DEFINE c == [clone[job[a].k] EXCEPT !.on = None, !.head = 0, !.base = 0, !.crossed = TRUE]
  <2>a. c \in CloneState
    BY <1>0, <2>1, OnTaskBranch
  <2>b. clone' = [clone EXCEPT ![job[a].k] = c]
    BY <1>1, <2>1 DEF ToTaskBranch, CloneState
  <2>2. clone' \in [Clone -> CloneState]
    BY <2>a, <2>b
  <2>3. [job[a] EXCEPT !.at = "branch"] \in Job
    BY DEF Job
  <2>4. QED
    BY <1>1, <2>2, <2>3 DEF ToTaskBranch
<1>2. CASE ToBranch(a)
  <2>1. job[a].k \in Clone /\ job[a].p \in PR
    BY <1>2 DEF InHand, ToBranch
  <2>2. tip[job[a].p] \in Ref /\ Shared(a, job[a].k) \in BOOLEAN
    BY <2>1 DEF Shared
  <2> DEFINE k == job[a].k  p == job[a].p
             c == [clone[k] EXCEPT !.seen[p] = tip[p], !.on = p, !.head = tip[p],
                                   !.base = tip[p], !.crossed = Shared(a, k)]
  <2> DEFINE refs == [clone[k].seen EXCEPT ![p] = tip[p]]
             d == [clone[k] EXCEPT !.seen = refs, !.on = p]
  <2>4. d \in CloneState
    <3>1. refs \in [PR -> Ref]
      BY <2>1, <2>2 DEF CloneState
    <3>2. clone[k] \in CloneState
      BY <2>1
    <3> HIDE DEF refs, RequestsInv, RequestsTypeOK
    <3>3. QED
      BY ONLY <2>1, <3>1, <3>2 DEF d, CloneState
  <2>5. c = [d EXCEPT !.head = tip[p], !.base = tip[p], !.crossed = Shared(a, k)]
    BY <2>1 DEF CloneState
  <2>a. c \in CloneState
    <3> HIDE DEF d, c
    <3>1. QED
      BY <2>2, <2>4, <2>5 DEF CloneState
  <2>b. clone' = [clone EXCEPT ![k] = c]
    BY <1>2 DEF ToBranch
  <2>3. clone' \in [Clone -> CloneState]
    BY <2>1, <2>a, <2>b
  <2>6. QED
    BY <1>0, <1>2, <2>3 DEF ToBranch, Ends
<1>3. CASE CheckoutFails(a)
  BY <1>0, <1>3 DEF CheckoutFails, Ends
<1>4. CASE Push(a)
  <2>1. job[a].k \in Clone /\ job[a].p \in PR
    BY <1>4 DEF InHand, Push
  <2>2. clone[job[a].k].head \in Ref
    BY <2>1 DEF CloneState
  <2> DEFINE k == job[a].k
             h == clone[k].head
             refs == [clone[k].seen EXCEPT ![job[a].p] = h]
             c == [clone[k] EXCEPT !.seen = refs,
                                   !.base = IF clone[k].on = job[a].p THEN h ELSE @]
  <2>a. c \in CloneState
    <3>1. refs \in [PR -> Ref]
      BY <2>1, <2>2 DEF CloneState
    <3>2. clone[k] \in CloneState
      BY <2>1
    <3> HIDE DEF refs, h, k, RequestsInv, RequestsTypeOK
    <3>3. QED
      BY ONLY <2>2, <3>1, <3>2 DEF c, h, k, CloneState
  <2>b. clone' \in {clone, [clone EXCEPT ![k] = c]}
    BY <1>4, <2>1 DEF Push, CloneState
  <2>c. tip' \in [PR -> Ref] /\ replaced' \in [PR -> SUBSET Ref]
    BY <1>4, <2>1, <2>2, MovesTypes DEF Push
  <2>3. clone' \in [Clone -> CloneState]
    BY <2>1, <2>a, <2>b
  <2>4. QED
    BY <1>0, <1>4, <2>c, <2>3 DEF Push, Ends
<1>5. ASSUME NEW k \in Clone, Amend(a, k) PROVE RequestsTypeOK'
  <2>1. clone[k].on \in PR
    BY <1>5 DEF Amend, CloneState
  <2>a. made \in Ref /\ made < MaxCommit /\ MaxCommit \in Nat
    BY <1>5 DEF Amend, PullRequestsAssumption
  <2>2. made + 1 \in Ref
    BY <2>a, NextRef
  <2>b. [clone[k] EXCEPT !.head = made + 1, !.edits = FALSE] \in CloneState
    BY <2>2 DEF CloneState
  <2>3. clone' \in [Clone -> CloneState]
    BY <1>5, <2>b DEF Amend, CloneState
  <2>4. [Idle EXCEPT !.op = "amend", !.p = clone[k].on, !.k = k, !.at = "push"] \in Job
    BY <1>0, <2>1 DEF Job, Op
  <2>5. QED
    BY <1>5, <2>2, <2>3, <2>4 DEF Amend
<1>6. ASSUME NEW p \in PR, NEW k \in Clone, Checkout(a, p, k) PROVE RequestsTypeOK'
  <2>a. [clone[k] EXCEPT !.seen = tip, !.crossed = TRUE] \in CloneState
    BY DEF CloneState
  <2>b. clone' = [clone EXCEPT ![k] = [clone[k] EXCEPT !.seen = tip, !.crossed = TRUE]]
    BY <1>6 DEF Checkout, CloneState
  <2>1. clone' \in [Clone -> CloneState]
    BY <2>a, <2>b
  <2>2. [Idle EXCEPT !.op = "checkout", !.p = p, !.k = k, !.at = "fetched"] \in Job
    BY <1>0 DEF Job, Op
  <2>3. QED
    BY <1>6, <2>1, <2>2 DEF Checkout
<1>7. QED
  BY <1>1, <1>2, <1>3, <1>4, <1>5, <1>6

\* So do merges, and the commands that cancel and delete runs.
LEMMA RunTypes ==
    ASSUME PullRequestsAssumption, RequestsInv, NEW a \in Agent,
           \/ CheckCI(a) \/ DoMerge(a) \/ ScanEnds(a) \/ Die(a)
           \/ \E p \in PR : Merge(a, p)
           \/ \E op \in Op : Scan(a, op) /\ UNCHANGED <<crew, claims, repo, ci, clone>>
           \/ \E r \in Run : Strike(a, r)
    PROVE  RequestsTypeOK'
<1> USE DEF RequestsInv, RequestsTypeOK, claims, branches, repo, ci
<1>0. Idle \in Job
  BY IdleType
<1>1. CASE CheckCI(a)
  <2>1. [job[a] EXCEPT !.at = "merge"] \in Job
    BY DEF Job
  <2>2. QED
    BY <1>0, <1>1, <2>1 DEF CheckCI, Ends
<1>2. CASE DoMerge(a)
  BY <1>0, <1>2 DEF DoMerge, Ends
<1>3. CASE ScanEnds(a)
  BY <1>0, <1>3 DEF ScanEnds, Ends
<1>4. CASE Die(a)
  BY <1>0, <1>4 DEF Die, Ends
<1>5. ASSUME NEW p \in PR, Merge(a, p) PROVE RequestsTypeOK'
  <2>1. [Idle EXCEPT !.op = "merge", !.p = p, !.at = "info"] \in Job
    BY <1>0 DEF Job, Op
  <2>2. QED
    BY <1>5, <2>1 DEF Merge
<1>6. ASSUME NEW op \in Op, Scan(a, op), UNCHANGED <<crew, claims, repo, ci, clone>>
      PROVE  RequestsTypeOK'
  <2>1. RunsFor(op) \subseteq Run
    BY DEF RunsFor
  <2>2. [Idle EXCEPT !.op = op, !.at = "listed", !.list = RunsFor(op)] \in Job
    BY <1>0, <2>1 DEF Job
  <2>3. ASSUME NEW f \in Tips PROVE [job[a] EXCEPT !.at = "judged", !.tips = f] \in Job
    <3>1. f \in [PR -> Ref]
      BY DEF Tips
    <3>2. QED
      BY <3>1 DEF Job
  <2>4. QED
    BY <1>6, <2>2, <2>3 DEF Scan
<1>7. ASSUME NEW r \in Run, Strike(a, r) PROVE RequestsTypeOK'
  <2>1. [job[a] EXCEPT !.list = @ \ {r}] \in Job
    BY DEF Job
  <2>2. QED
    BY <1>7, <2>1 DEF Strike
<1>8. QED
  BY <1>1, <1>2, <1>3, <1>4, <1>5, <1>6, <1>7

\* So do the world outside, and whoever edits in a clone.
LEMMA WorldTypes ==
    ASSUME PullRequestsAssumption, RequestsInv,
           \/ \E p \in PR : GoesStale(p) \/ OthersPush(p) \/ RunStarts(p)
           \/ \E r \in Run : RunEnds(r)
           \/ \E k \in Clone : Edit(k)
    PROVE  RequestsTypeOK'
<1> USE DEF RequestsInv, RequestsTypeOK, claims, branches, repo, ci
<1>1. ASSUME NEW p \in PR, GoesStale(p) PROVE RequestsTypeOK'
  BY <1>1 DEF GoesStale, Claim
<1>2. ASSUME NEW p \in PR, OthersPush(p) PROVE RequestsTypeOK'
  <2>1. made \in Ref /\ made < MaxCommit /\ MaxCommit \in Nat
    BY <1>2 DEF OthersPush, PullRequestsAssumption
  <2>2. made + 1 \in Ref
    BY <2>1, NextRef
  <2>3. tip' \in [PR -> Ref] /\ replaced' \in [PR -> SUBSET Ref]
    BY <1>2, <2>2, MovesTypes DEF OthersPush
  <2>4. QED
    BY <1>2, <2>2, <2>3 DEF OthersPush
<1>3. ASSUME NEW p \in PR, RunStarts(p) PROVE RequestsTypeOK'
  BY <1>3 DEF RunStarts
<1>4. ASSUME NEW r \in Run, RunEnds(r) PROVE RequestsTypeOK'
  BY <1>4 DEF RunEnds
<1>5. ASSUME NEW k \in Clone, Edit(k) PROVE RequestsTypeOK'
  <2>1. [clone[k] EXCEPT !.edits = TRUE] \in CloneState
    BY DEF CloneState
  <2>2. QED
    BY <1>5, <2>1 DEF Edit
<1>6. QED
  BY <1>1, <1>2, <1>3, <1>4, <1>5

\* What is left of the claims' invariant by a step that touches no claim and
\* takes no command into the registry.
LEMMA Elsewhere ==
    ASSUME PullRequestsAssumption, RequestsInv, NEW a \in Agent,
           UNCHANGED <<claim, holds>>,
           registry' \in {registry, IF registry = a THEN None ELSE registry},
           job' \in [Agent -> Job],
           \A b \in Agent \ {a} : job'[b] = job[b] /\ (registry = b => registry' = b),
           job'[a].at \notin {"locked", "write"}
    PROVE  LockHeld' /\ NobodysYet' /\ HoldersClaim'
<1>1. LockHeld'
  BY DEF RequestsInv, LockHeld
<1>2. NobodysYet' /\ HoldersClaim'
  BY DEF RequestsInv, NobodysYet, HoldersClaim
<1>3. QED
  BY <1>1, <1>2

\* A step of an agent that is not at the registry keeps the others' hands.
LEMMA HandsKept ==
    ASSUME RequestsInv, NEW a \in Agent, \A b \in Agent \ {a} : job'[b] = job[b],
           /\ job'[a].at \in {"fetched", "branch", "push"} => job'[a].p \in PR /\ job'[a].k \in Clone
           /\ job'[a].at \in {"info", "merge"} => job'[a].p \in PR
    PROVE  InHand'
BY DEF RequestsInv, InHand

\* Under the lock a claim is taken from nobody who has been told that it is
\* its own, but by a theft.
LEMMA ClaimStep ==
    ASSUME PullRequestsAssumption, RequestsInv, NEW a \in Agent,
           \/ Truncate(a) \/ Write(a) \/ Refused(a) \/ Release(a)
           \/ \E p \in PR, op \in Op : Enter(a, op, p)
    PROVE  LockHeld' /\ NobodysYet' /\ HoldersClaim' /\ InHand'
<1>0. /\ job \in [Agent -> Job] /\ claim \in [PR -> Claim] /\ holds \in [Agent -> SUBSET PR]
      /\ None \notin Agent
  BY DEF RequestsInv, RequestsTypeOK, PullRequestsAssumption
<1> USE DEF RequestsInv
<1>1. CASE Truncate(a)
  <2> DEFINE p == job[a].p
  <2>1. /\ job[a].at = "locked" /\ registry = a /\ p \in PR /\ p \notin holds[a]
        /\ claim' = [claim EXCEPT ![p] = Empty]
        /\ job' = [job EXCEPT ![a].at = "write"]
        /\ registry' = registry
    BY <1>1 DEF Truncate, LockHeld
  <2>2. \A b \in Agent : holds'[b] \subseteq holds[b] /\ p \notin holds'[b]
    <3>1. CASE job[a].op = "steal"
      BY <1>0, <1>1, <3>1 DEF Truncate
    <3>2. CASE job[a].op # "steal"
      <4>1. holds' = holds
        BY <1>1, <3>2 DEF Truncate
      <4>2. claim[p].file \in {"absent", "stale"} \/ claim[p].who = a
        BY <1>1, <3>2 DEF Truncate, MayTake
      <4>3. ASSUME NEW b \in Agent, p \in holds[b] PROVE FALSE
        <5>1. claim[p] = [who |-> b, file |-> "fresh"]
          BY <4>3 DEF HoldersClaim
        <5>2. QED
          BY <2>1, <4>2, <4>3, <5>1
      <4>4. QED
        BY <4>1, <4>3
    <3>3. QED
      BY <3>1, <3>2
  <2>3. \A b \in Agent : /\ job'[b].p = job[b].p /\ job'[b].op = job[b].op /\ job'[b].k = job[b].k
                         /\ job'[b].at = IF b = a THEN "write" ELSE job[b].at
    BY <1>0, <2>1 DEF Job
  <2>4. LockHeld'
    BY <2>1, <2>2, <2>3 DEF LockHeld
  <2>5. NobodysYet'
    BY <2>1, <2>2, <2>3 DEF NobodysYet
  <2>6. HoldersClaim'
    BY <1>0, <2>1, <2>2 DEF HoldersClaim
  <2>7. InHand'
    BY <2>3 DEF InHand
  <2>8. QED
    BY <2>4, <2>5, <2>6, <2>7
<1>2. CASE Write(a)
  <2> DEFINE p == job[a].p
  <2>1. /\ job[a].at = "write" /\ registry = a /\ p \in PR
        /\ \A b \in Agent : p \notin holds[b]
        /\ claim' = [claim EXCEPT ![p] = [who |-> a, file |-> "fresh"]]
        /\ holds' = [holds EXCEPT ![a] = @ \cup {p}]
        /\ job' = [job EXCEPT ![a] = Idle]
    BY <1>2 DEF Write, Leave, Ends, LockHeld, NobodysYet
  <2>2. \A b \in Agent : job[b].at \in {"locked", "write"} => b = a
    BY <2>1 DEF LockHeld
  <2>3. job'[a].at = "idle" /\ \A b \in Agent \ {a} : job'[b] = job[b]
    BY <1>0, <2>1 DEF Idle
  <2>4. LockHeld' /\ NobodysYet'
    BY <2>2, <2>3 DEF LockHeld, NobodysYet
  <2>5. HoldersClaim'
    BY <1>0, <2>1 DEF HoldersClaim
  <2>6. InHand'
    BY <2>3, HandsKept
  <2>7. QED
    BY <2>4, <2>5, <2>6
<1>3. CASE Refused(a)
  <2>1. job' = [job EXCEPT ![a] = Idle] /\ UNCHANGED <<claim, holds>>
    BY <1>3 DEF Refused, Leave, Ends
  <2>2. registry' = IF registry = a THEN None ELSE registry
    BY <1>3 DEF Refused, Leave
  <2>3. job'[a].at = "idle" /\ \A b \in Agent \ {a} : job'[b] = job[b]
    BY <1>0, <2>1 DEF Idle
  <2>4. job' \in [Agent -> Job]
    BY <1>0, <2>1, IdleType
  <2>5. QED
    BY <2>1, <2>2, <2>3, <2>4, Elsewhere, HandsKept
<1>4. CASE Release(a)
  <2> DEFINE R == Released(a)
  <2>1. /\ job[a].at = "locked" /\ registry = a /\ job[a].op \in {"release", "force", "releaseall"}
        /\ job' = [job EXCEPT ![a] = Idle]
        /\ claim' = [q \in PR |-> IF q \in R THEN NoClaim ELSE claim[q]]
    BY <1>4 DEF Release, Leave, Ends, LockHeld
  <2>2. \A b \in Agent : job[b].at \in {"locked", "write"} => b = a
    BY <2>1 DEF LockHeld
  <2>3. job'[a].at = "idle" /\ \A b \in Agent \ {a} : job'[b] = job[b]
    BY <1>0, <2>1 DEF Idle
  <2>4. LockHeld' /\ NobodysYet'
    BY <2>2, <2>3 DEF LockHeld, NobodysYet
  <2>5. \A b \in Agent : holds'[b] \subseteq holds[b] /\ holds'[b] \cap R = {}
    <3>1. \A b \in Agent : holds'[b] = IF b = a THEN holds[b] \ R
                                       ELSE IF job[a].op = "force" THEN holds[b] \ {job[a].p}
                                       ELSE holds[b]
      BY <1>4 DEF Release
    <3>2. CASE job[a].op = "force"
      BY <3>1, <3>2 DEF Released
    <3>3. CASE job[a].op # "force"
      <4>1. R \subseteq Own(a)
        BY <2>1, <3>3 DEF Released
      <4>2. ASSUME NEW b \in Agent, b # a, NEW q \in holds[b] PROVE q \notin R
        <5>1. claim[q] = [who |-> b, file |-> "fresh"]
          BY DEF HoldersClaim
        <5>2. QED
          BY <4>1, <4>2, <5>1 DEF Own
      <4>3. QED
        BY <3>1, <3>3, <4>2
    <3>4. QED
      BY <3>2, <3>3
  <2>6. HoldersClaim'
    BY <1>0, <2>1, <2>5 DEF HoldersClaim
  <2>7. InHand'
    BY <2>3, HandsKept
  <2>8. QED
    BY <2>4, <2>6, <2>7
<1>5. ASSUME NEW p \in PR, NEW op \in Op, Enter(a, op, p)
      PROVE  LockHeld' /\ NobodysYet' /\ HoldersClaim' /\ InHand'
  <2>1. /\ registry = None /\ registry' = a /\ op \in ClaimOps
        /\ holds' = [holds EXCEPT ![a] = @ \ {p}]
        /\ job' = [job EXCEPT ![a] = [Idle EXCEPT !.op = op, !.p = p, !.at = "locked"]]
        /\ claim' = claim
    BY <1>5 DEF Enter, Free
  <2>2. \A b \in Agent : job[b].at \notin {"locked", "write"}
    BY <1>0, <2>1 DEF LockHeld
  <2>3. /\ job'[a].at = "locked" /\ job'[a].op = op /\ job'[a].p = p
        /\ \A b \in Agent \ {a} : job'[b] = job[b]
    BY <1>0, <2>1 DEF Idle
  <2>4. LockHeld'
    BY <1>0, <2>1, <2>2, <2>3 DEF LockHeld
  <2>5. NobodysYet'
    BY <2>2, <2>3 DEF NobodysYet
  <2>6. HoldersClaim'
    BY <1>0, <2>1 DEF HoldersClaim
  <2>7. InHand'
    BY <2>3, HandsKept
  <2>8. QED
    BY <2>4, <2>5, <2>6, <2>7
<1>6. QED
  BY <1>1, <1>2, <1>3, <1>4, <1>5

\* A command that is not at the registry, or dies, leaves the claims alone.
LEMMA OtherStep ==
    ASSUME PullRequestsAssumption, RequestsInv, RequestsTypeOK', NEW a \in Agent,
           \/ ToTaskBranch(a) \/ ToBranch(a) \/ CheckoutFails(a) \/ Push(a)
           \/ CheckCI(a) \/ DoMerge(a) \/ ScanEnds(a) \/ Die(a)
           \/ \E p \in PR : Merge(a, p)
           \/ \E op \in Op : Scan(a, op) /\ UNCHANGED <<crew, claims, repo, ci, clone>>
           \/ \E r \in Run : Strike(a, r)
           \/ \E k \in Clone : Amend(a, k)
           \/ \E p \in PR, k \in Clone : Checkout(a, p, k)
    PROVE  LockHeld' /\ NobodysYet' /\ HoldersClaim' /\ InHand'
<1>0. job \in [Agent -> Job] /\ job' \in [Agent -> Job]
  BY DEF RequestsInv, RequestsTypeOK
<1> DEFINE Moved(j) ==
              /\ \A b \in Agent \ {a} : job'[b] = job[b]
              /\ job'[a].at = j.at /\ job'[a].p = j.p /\ job'[a].k = j.k
           InPlace(j) ==
              /\ j.at \notin {"locked", "write"}
              /\ j.at \in {"fetched", "branch", "push"} => j.p \in PR /\ j.k \in Clone
              /\ j.at \in {"info", "merge"} => j.p \in PR
<1>1. ASSUME \/ UNCHANGED claims
             \/ UNCHANGED <<claim, holds>> /\ registry' = IF registry = a THEN None ELSE registry,
             NEW j, Moved(j), InPlace(j)
      PROVE  LockHeld' /\ NobodysYet' /\ HoldersClaim' /\ InHand'
  <2>1. LockHeld' /\ NobodysYet' /\ HoldersClaim'
    BY <1>0, <1>1, Elsewhere DEF claims
  <2>2. InHand'
    BY <1>1, HandsKept
  <2>3. QED
    BY <2>1, <2>2
<1>2. ASSUME job' = [job EXCEPT ![a] = Idle] PROVE Moved(Idle) /\ InPlace(Idle)
  BY <1>0, <1>2 DEF Idle
<1>3. CASE ToTaskBranch(a)
  <2> DEFINE j == [job[a] EXCEPT !.at = "branch"]
  <2>1. Moved(j) /\ InPlace(j)
    BY <1>0, <1>3 DEF ToTaskBranch, RequestsInv, InHand, Job
  <2>2. QED
    BY <1>1, <1>3, <2>1 DEF ToTaskBranch
<1>4. CASE ToBranch(a) \/ CheckoutFails(a) \/ Push(a) \/ DoMerge(a) \/ ScanEnds(a)
  <2>1. UNCHANGED claims /\ job' = [job EXCEPT ![a] = Idle]
    BY <1>4 DEF ToBranch, CheckoutFails, Push, DoMerge, ScanEnds, Ends
  <2>2. QED
    BY <1>1, <1>2, <2>1
<1>5. CASE Die(a)
  <2>1. job' = [job EXCEPT ![a] = Idle]
    BY <1>5 DEF Die, Ends
  <2>2. QED
    BY <1>1, <1>2, <1>5, <2>1 DEF Die
<1>6. CASE CheckCI(a)
  <2>1. CASE job' = [job EXCEPT ![a] = Idle]
    BY <1>1, <1>2, <1>6, <2>1 DEF CheckCI
  <2>2. CASE job' = [job EXCEPT ![a].at = "merge"]
    <3> DEFINE j == [job[a] EXCEPT !.at = "merge"]
    <3>1. Moved(j) /\ InPlace(j)
      BY <1>0, <1>6, <2>2 DEF CheckCI, RequestsInv, InHand, Job
    <3>2. QED
      BY <1>1, <1>6, <3>1 DEF CheckCI
  <2>3. QED
    BY <1>6, <2>1, <2>2 DEF CheckCI, Ends
<1>7. ASSUME NEW p \in PR, Merge(a, p)
      PROVE  LockHeld' /\ NobodysYet' /\ HoldersClaim' /\ InHand'
  <2> DEFINE j == [Idle EXCEPT !.op = "merge", !.p = p, !.at = "info"]
  <2>1. Moved(j) /\ InPlace(j)
    BY <1>0, <1>7 DEF Merge, Idle
  <2>2. QED
    BY <1>1, <1>7, <2>1 DEF Merge
<1>8. ASSUME NEW op \in Op, Scan(a, op), UNCHANGED <<crew, claims, repo, ci, clone>>
      PROVE  LockHeld' /\ NobodysYet' /\ HoldersClaim' /\ InHand'
  <2>1. CASE job' = [job EXCEPT ![a] = [Idle EXCEPT !.op = op, !.at = "listed", !.list = RunsFor(op)]]
    <3> DEFINE j == [Idle EXCEPT !.op = op, !.at = "listed", !.list = RunsFor(op)]
    <3>1. Moved(j) /\ InPlace(j)
      BY <1>0, <2>1 DEF Idle
    <3>2. QED
      BY <1>1, <1>8, <3>1
  <2>2. ASSUME NEW f, job' = [job EXCEPT ![a].at = "judged", ![a].tips = f]
        PROVE  LockHeld' /\ NobodysYet' /\ HoldersClaim' /\ InHand'
    <3> DEFINE j == [job[a] EXCEPT !.at = "judged"]
    <3>1. Moved(j) /\ InPlace(j)
      BY <1>0, <2>2 DEF Job
    <3>2. QED
      BY <1>1, <1>8, <3>1
  <2>3. QED
    BY <1>8, <2>1, <2>2 DEF Scan
<1>9. ASSUME NEW r \in Run, Strike(a, r)
      PROVE  LockHeld' /\ NobodysYet' /\ HoldersClaim' /\ InHand'
  <2>1. Moved(job[a]) /\ InPlace(job[a])
    BY <1>0, <1>9 DEF Strike, Job
  <2>2. QED
    BY <1>1, <1>9, <2>1 DEF Strike
<1>10. ASSUME NEW k \in Clone, Amend(a, k)
       PROVE  LockHeld' /\ NobodysYet' /\ HoldersClaim' /\ InHand'
  <2> DEFINE j == [Idle EXCEPT !.op = "amend", !.p = clone[k].on, !.k = k, !.at = "push"]
  <2>1. clone[k].on \in PR
    BY <1>10 DEF Amend, RequestsInv, RequestsTypeOK, CloneState
  <2>2. Moved(j) /\ InPlace(j)
    BY <1>0, <1>10, <2>1 DEF Amend, Idle
  <2>3. QED
    BY <1>1, <1>10, <2>2 DEF Amend
<1>11. ASSUME NEW p \in PR, NEW k \in Clone, Checkout(a, p, k)
       PROVE  LockHeld' /\ NobodysYet' /\ HoldersClaim' /\ InHand'
  <2> DEFINE j == [Idle EXCEPT !.op = "checkout", !.p = p, !.k = k, !.at = "fetched"]
  <2>1. Moved(j) /\ InPlace(j)
    BY <1>0, <1>11 DEF Checkout, Idle
  <2>2. QED
    BY <1>1, <1>11, <2>1 DEF Checkout
<1>12. QED
  BY <1>3, <1>4, <1>5, <1>6, <1>7, <1>8, <1>9, <1>10, <1>11

\* The hour of a claim passes, and the world moves.
LEMMA WorldStep ==
    ASSUME PullRequestsAssumption, RequestsInv,
           \/ \E p \in PR : GoesStale(p) \/ OthersPush(p) \/ RunStarts(p)
           \/ \E r \in Run : RunEnds(r)
           \/ \E k \in Clone : Edit(k)
    PROVE  LockHeld' /\ NobodysYet' /\ HoldersClaim' /\ InHand'
<1>1. ASSUME NEW p \in PR, GoesStale(p)
      PROVE  LockHeld' /\ NobodysYet' /\ HoldersClaim' /\ InHand'
  <2>1. /\ \A b \in Agent : holds'[b] = holds[b] \ {p}
        /\ claim' = [claim EXCEPT ![p].file = "stale"]
        /\ UNCHANGED <<registry, job>>
    BY <1>1 DEF GoesStale
  <2>2. LockHeld' /\ NobodysYet' /\ InHand'
    BY <2>1 DEF RequestsInv, LockHeld, NobodysYet, InHand
  <2>3. HoldersClaim'
    BY <2>1 DEF RequestsInv, RequestsTypeOK, HoldersClaim
  <2>4. QED
    BY <2>2, <2>3
<1>2. CASE UNCHANGED <<claims, job>>
  BY <1>2 DEF RequestsInv, LockHeld, NobodysYet, HoldersClaim, InHand, claims
<1>3. QED
  BY <1>1, <1>2 DEF OthersPush, RunStarts, RunEnds, Edit, claims

LEMMA RequestsInitially == ASSUME PullRequestsAssumption, RequestsInit PROVE RequestsInv
<1>1. RequestsTypeOK
  BY InitTypes
<1>2. \A a \in Agent : job[a].at = "idle" /\ holds[a] = {}
  BY DEF RequestsInit, Idle
<1>3. QED
  BY <1>1, <1>2 DEF RequestsInv, LockHeld, NobodysYet, HoldersClaim, InHand

LEMMA RequestsStep == ASSUME PullRequestsAssumption, RequestsInv, [RequestsNext]_requestsVars PROVE RequestsInv'
<1>1. CASE UNCHANGED requestsVars
  BY <1>1 DEF requestsVars, RequestsInv, RequestsTypeOK, LockHeld, NobodysYet, HoldersClaim, InHand
<1>2. CASE RequestsNext
  <2>1. RequestsTypeOK'
    BY <1>2, ClaimTypes, CloneTypes, RunTypes, WorldTypes DEF RequestsNext
  <2>2. LockHeld' /\ NobodysYet' /\ HoldersClaim' /\ InHand'
    BY <1>2, <2>1, ClaimStep, OtherStep, WorldStep DEF RequestsNext
  <2>3. QED
    BY <2>1, <2>2 DEF RequestsInv
<1>3. QED
  BY <1>1, <1>2

LEMMA RequestsInvariant == ASSUME PullRequestsAssumption PROVE RequestsSpec => []RequestsInv
<1>1. RequestsInit => RequestsInv
  BY RequestsInitially
<1>2. RequestsInv /\ [RequestsNext]_requestsVars => RequestsInv'
  BY RequestsStep
<1>3. QED
  BY <1>1, <1>2, PTL DEF RequestsSpec

\* Claims, clones, runs and the commands of every agent keep their types
\* (prclaim, ghpr).
THEOREM ClaimTypesHold == ASSUME PullRequestsAssumption PROVE RequestsSpec => []RequestsTypeOK
<1>1. RequestsInv => RequestsTypeOK
  BY DEF RequestsInv
<1>2. QED
  BY <1>1, RequestsInvariant, PTL

\* No two agents have been told that one request is theirs, however many ask,
\* release and die, but by a theft or after an hour (prclaim/commands.go).
THEOREM ClaimsKeepApart == ASSUME PullRequestsAssumption PROVE RequestsSpec => []ClaimsExclude
<1>1. RequestsInv => ClaimsExclude
  <2> SUFFICES ASSUME HoldersClaim, NEW a \in Agent, NEW b \in Agent,
                      NEW p \in holds[a], p \in holds[b]
               PROVE  a = b
    BY DEF RequestsInv, ClaimsExclude
  <2>1. /\ claim[p] = [who |-> a, file |-> "fresh"]
        /\ claim[p] = [who |-> b, file |-> "fresh"]
    BY DEF HoldersClaim
  <2>2. QED
    BY <2>1
<1>2. QED
  BY <1>1, RequestsInvariant, PTL
-----------------------------------------------------------------------------
\* In a clone where nothing else was at work the tracking ref of the branch
\* says what was checked out there.
LeaseKnown ==
    \A k \in Clone : ~clone[k].crossed /\ clone[k].on # None =>
        clone[k].seen[clone[k].on] = clone[k].base

\* What is about to be pushed out of such a clone is the branch it is on.
PushesOwn ==
    \A a \in Agent : job[a].at = "push" /\ ~clone[job[a].k].crossed =>
        clone[job[a].k].on = job[a].p

\* PushAmendsTip speaks of the commit that a checkout found, the lease only of
\* the tracking ref: the two have to agree, and on the same branch.
LeaseInv == LeaseKnown /\ PushesOwn

\* No command comes to the point of pushing.
NoneArrives ==
    \A a \in Agent : job'[a].at = "push" =>
        job[a].at = "push" /\ job'[a].p = job[a].p /\ job'[a].k = job[a].k

\* A step that leaves the clones alone and brings no command there.
LEMMA LeaseRests == ASSUME LeaseInv, clone' = clone, NoneArrives PROVE LeaseInv'
BY DEF LeaseInv, LeaseKnown, PushesOwn, NoneArrives

\* An agent that ends its command, or is elsewhere in it.
LEMMA NotThere ==
    ASSUME NEW a \in Agent, RequestsTypeOK, NEW j, job' = [job EXCEPT ![a] = j], j.at # "push"
    PROVE  NoneArrives
<1>1. job \in [Agent -> Job]
  BY DEF RequestsTypeOK
<1>2. QED
  BY <1>1 DEF NoneArrives

\* The commands of the registry, of CI and of merges leave the clones alone.
LEMMA LeaseElsewhere ==
    ASSUME PullRequestsAssumption, RequestsInv, LeaseInv, NEW a \in Agent,
           \/ Truncate(a) \/ Write(a) \/ Refused(a) \/ Release(a)
           \/ CheckCI(a) \/ DoMerge(a) \/ ScanEnds(a) \/ Die(a) \/ CheckoutFails(a)
           \/ \E p \in PR : Merge(a, p)
           \/ \E p \in PR, op \in Op : Enter(a, op, p)
           \/ \E op \in Op : Scan(a, op) /\ UNCHANGED <<crew, claims, repo, ci, clone>>
           \/ \E r \in Run : Strike(a, r)
    PROVE  LeaseInv'
<1>0. RequestsTypeOK /\ job \in [Agent -> Job]
  BY DEF RequestsInv, RequestsTypeOK
<1>1. ASSUME clone' = clone, NEW j, job' = [job EXCEPT ![a] = j], j.at # "push" PROVE LeaseInv'
  BY <1>0, <1>1, NotThere, LeaseRests
<1>2. Idle.at # "push"
  BY DEF Idle
<1>3. ASSUME clone' = clone, NEW st, st # "push", job' = [job EXCEPT ![a].at = st]
      PROVE  LeaseInv'
  <2> DEFINE j == [job[a] EXCEPT !.at = st]
  <2>1. job' = [job EXCEPT ![a] = j] /\ j.at # "push"
    BY <1>0, <1>3 DEF Job
  <2>2. QED
    BY <1>1, <1>3, <2>1
<1>4. CASE Truncate(a)
  BY <1>3, <1>4 DEF Truncate
<1>5. CASE Write(a) \/ Refused(a) \/ Release(a) \/ DoMerge(a) \/ ScanEnds(a) \/ Die(a) \/ CheckoutFails(a)
  BY <1>1, <1>2, <1>5 DEF Write, Refused, Release, DoMerge, ScanEnds, Die, CheckoutFails, Leave, Ends
<1>6. CASE CheckCI(a)
  BY <1>1, <1>2, <1>3, <1>6 DEF CheckCI, Ends
<1>7. ASSUME NEW p \in PR, Merge(a, p) PROVE LeaseInv'
  <2> DEFINE j == [Idle EXCEPT !.op = "merge", !.p = p, !.at = "info"]
  <2>1. j.at = "info"
    BY DEF Idle
  <2>2. QED
    BY <1>1, <1>7, <2>1 DEF Merge
<1>8. ASSUME NEW p \in PR, NEW op \in Op, Enter(a, op, p) PROVE LeaseInv'
  <2> DEFINE j == [Idle EXCEPT !.op = op, !.p = p, !.at = "locked"]
  <2>1. j.at = "locked"
    BY DEF Idle
  <2>2. QED
    BY <1>1, <1>8, <2>1 DEF Enter
<1>9. ASSUME NEW op \in Op, Scan(a, op), UNCHANGED <<crew, claims, repo, ci, clone>> PROVE LeaseInv'
  <2> DEFINE j == [Idle EXCEPT !.op = op, !.at = "listed", !.list = RunsFor(op)]
  <2>1. j.at = "listed"
    BY DEF Idle
  <2>2. CASE job' = [job EXCEPT ![a] = j]
    BY <1>1, <1>9, <2>1, <2>2
  <2>3. ASSUME NEW f, job' = [job EXCEPT ![a].at = "judged", ![a].tips = f] PROVE LeaseInv'
    <3> DEFINE i == [job[a] EXCEPT !.at = "judged", !.tips = f]
    <3>1. job' = [job EXCEPT ![a] = i] /\ i.at = "judged"
      BY <1>0, <2>3 DEF Job
    <3>2. QED
      BY <1>1, <1>9, <3>1
  <2>4. QED
    BY <1>9, <2>2, <2>3 DEF Scan
<1>10. ASSUME NEW r \in Run, Strike(a, r) PROVE LeaseInv'
  <2> DEFINE j == [job[a] EXCEPT !.list = @ \ {r}]
  <2>1. job' = [job EXCEPT ![a] = j] /\ j.at # "push" /\ clone' = clone
    BY <1>0, <1>10 DEF Strike, Job
  <2>2. QED
    BY <1>1, <2>1
<1>11. QED
  BY <1>4, <1>5, <1>6, <1>7, <1>8, <1>9, <1>10

\* A checkout that nobody shares leaves the ref and the commit equal; while
\* one is under way, the clone counts as crossed.
LEMMA LeaseInClones ==
    ASSUME PullRequestsAssumption, RequestsInv, LeaseInv, NEW a \in Agent,
           \/ ToTaskBranch(a) \/ ToBranch(a) \/ Push(a)
           \/ \E k \in Clone : Amend(a, k)
           \/ \E p \in PR, k \in Clone : Checkout(a, p, k)
    PROVE  LeaseInv'
<1>0. /\ job \in [Agent -> Job] /\ clone \in [Clone -> CloneState] /\ None \notin PR
      /\ \A b \in Agent : job[b].at \in {"fetched", "branch", "push"} =>
                              job[b].p \in PR /\ job[b].k \in Clone
  BY DEF RequestsInv, RequestsTypeOK, InHand, PullRequestsAssumption
<1> USE DEF LeaseInv, LeaseKnown, PushesOwn
<1>1. CASE ToTaskBranch(a)
  <2> DEFINE k == job[a].k
  <2>1. k \in Clone /\ clone'[k].crossed /\ \A i \in Clone \ {k} : clone'[i] = clone[i]
    BY <1>0, <1>1 DEF ToTaskBranch, CloneState
  <2>2. NoneArrives
    BY <1>0, <1>1 DEF ToTaskBranch, NoneArrives, Job
  <2>3. QED
    BY <1>0, <2>1, <2>2 DEF NoneArrives
<1>2. CASE ToBranch(a)
  <2> DEFINE k == job[a].k  p == job[a].p
  <2>1. /\ k \in Clone /\ p \in PR
        /\ job' = [job EXCEPT ![a] = Idle]
    BY <1>0, <1>2 DEF ToBranch, Ends
  <2>2. /\ clone'[k].on = p /\ clone'[k].seen[p] = tip[p] /\ clone'[k].base = tip[p]
        /\ clone'[k].crossed = Shared(a, k)
        /\ \A i \in Clone \ {k} : clone'[i] = clone[i]
    BY <1>0, <1>2, <2>1 DEF ToBranch, CloneState
  <2>3. LeaseKnown'
    BY <2>2
  <2>4. \A b \in Agent : job'[b].at = "push" => b # a /\ job'[b] = job[b]
    BY <1>0, <2>1 DEF Idle
  <2>5. ASSUME NEW b \in Agent, job'[b].at = "push", ~clone'[job'[b].k].crossed
        PROVE  clone'[job'[b].k].on = job'[b].p
    <3>1. b # a /\ job'[b] = job[b] /\ job[b].k \in Clone
      BY <1>0, <2>4, <2>5
    <3>2. CASE job[b].k = k
      BY <2>2, <2>5, <3>1, <3>2 DEF Shared
    <3>3. CASE job[b].k # k
      BY <2>2, <2>5, <3>1, <3>3
    <3>4. QED
      BY <3>2, <3>3
  <2>6. QED
    BY <2>3, <2>5
<1>3. CASE Push(a)
  <2> DEFINE k == job[a].k  p == job[a].p  head == clone[job[a].k].head
  <2>1. /\ k \in Clone /\ p \in PR /\ job[a].at = "push"
        /\ job' = [job EXCEPT ![a] = Idle]
    BY <1>0, <1>3 DEF Push, Ends
  <2>2. NoneArrives
    BY <1>0, <2>1 DEF NoneArrives, Idle
  <2>3. CASE clone' = clone
    BY <2>2, <2>3, LeaseRests
  <2>4. CASE clone' = [clone EXCEPT ![k].seen[p] = head,
                                    ![k].base = IF clone[k].on = p THEN head ELSE @]
    <3>1. /\ clone'[k].on = clone[k].on /\ clone'[k].crossed = clone[k].crossed
          /\ clone'[k].seen = [clone[k].seen EXCEPT ![p] = head]
          /\ clone'[k].base = IF clone[k].on = p THEN head ELSE clone[k].base
          /\ \A i \in Clone \ {k} : clone'[i] = clone[i]
      BY <1>0, <2>1, <2>4 DEF CloneState
    <3>2. clone[k].seen \in [PR -> Ref] /\ clone[k].on \in PR \cup {None}
      BY <1>0, <2>1 DEF CloneState
    <3>3. LeaseKnown'
      BY <2>1, <3>1, <3>2
    <3>4. PushesOwn'
      BY <1>0, <2>2, <3>1 DEF NoneArrives
    <3>5. QED
      BY <3>3, <3>4
  <2>5. QED
    BY <1>3, <2>3, <2>4 DEF Push
<1>4. ASSUME NEW k \in Clone, Amend(a, k) PROVE LeaseInv'
  <2> DEFINE j == [Idle EXCEPT !.op = "amend", !.p = clone[k].on, !.k = k, !.at = "push"]
  <2>1. /\ \A i \in Clone : /\ clone'[i].on = clone[i].on /\ clone'[i].seen = clone[i].seen
                            /\ clone'[i].base = clone[i].base /\ clone'[i].crossed = clone[i].crossed
    BY <1>0, <1>4 DEF Amend, CloneState
  <2>2. job'[a].p = clone[k].on /\ job'[a].k = k /\ \A b \in Agent \ {a} : job'[b] = job[b]
    BY <1>0, <1>4 DEF Amend, Idle
  <2>3. QED
    BY <1>0, <2>1, <2>2
<1>5. ASSUME NEW p \in PR, NEW k \in Clone, Checkout(a, p, k) PROVE LeaseInv'
  <2> DEFINE c == [clone[k] EXCEPT !.seen = tip, !.crossed = TRUE]
  <2>a. clone' = [clone EXCEPT ![k] = c]
    BY <1>0, <1>5 DEF Checkout, CloneState
  <2>b. c.crossed = TRUE
    BY <1>0 DEF CloneState
  <2>1. clone'[k].crossed /\ \A i \in Clone \ {k} : clone'[i] = clone[i]
    BY <1>0, <2>a, <2>b
  <2>2. job'[a].at = "fetched" /\ \A b \in Agent \ {a} : job'[b] = job[b]
    BY <1>0, <1>5 DEF Checkout, Idle
  <2>3. QED
    BY <1>0, <2>1, <2>2
<1>6. QED
  BY <1>1, <1>2, <1>3, <1>4, <1>5

\* Nor does the world outside reach into a clone, but for edits.
LEMMA LeaseOutside ==
    ASSUME PullRequestsAssumption, RequestsInv, LeaseInv,
           \/ \E p \in PR : GoesStale(p) \/ OthersPush(p) \/ RunStarts(p)
           \/ \E r \in Run : RunEnds(r)
           \/ \E k \in Clone : Edit(k)
           \/ UNCHANGED requestsVars
    PROVE  LeaseInv'
<1>1. CASE UNCHANGED <<clone, job>>
  BY <1>1, LeaseRests DEF NoneArrives
<1>2. ASSUME NEW k \in Clone, Edit(k) PROVE LeaseInv'
  <2>1. clone \in [Clone -> CloneState] /\ job' = job
    BY <1>2 DEF RequestsInv, RequestsTypeOK, Edit
  <2>2. /\ \A i \in Clone : /\ clone'[i].on = clone[i].on /\ clone'[i].seen = clone[i].seen
                            /\ clone'[i].base = clone[i].base /\ clone'[i].crossed = clone[i].crossed
    BY <1>2, <2>1 DEF Edit, CloneState
  <2>3. QED
    BY <2>1, <2>2 DEF RequestsInv, InHand, LeaseInv, LeaseKnown, PushesOwn
<1>3. QED
  BY <1>1, <1>2 DEF GoesStale, OthersPush, RunStarts, RunEnds, requestsVars

LEMMA LeaseStep ==
    ASSUME PullRequestsAssumption, RequestsInv, LeaseInv, [RequestsNext]_requestsVars
    PROVE  LeaseInv'
BY LeaseElsewhere, LeaseInClones, LeaseOutside DEF RequestsNext

LEMMA LeaseInitially == ASSUME PullRequestsAssumption, RequestsInit PROVE LeaseInv
BY DEF RequestsInit, LeaseInv, LeaseKnown, PushesOwn, NoClone, Idle

\* Only a push ends a command that was about to push and moves a branch.
LEMMA OnlyPushPushes ==
    ASSUME PullRequestsAssumption, RequestsInv, RequestsNext, NEW a \in Agent,
           job[a].at = "push", job'[a] # job[a], tip' # tip
    PROVE  Push(a)
<1>0. job \in [Agent -> Job]
  BY DEF RequestsInv, RequestsTypeOK
<1>1. ASSUME NEW b \in Agent, Push(b) PROVE b = a
  BY <1>0, <1>1 DEF Push, Ends
<1>2. \A b \in Agent :
        ~(\/ Truncate(b) \/ Write(b) \/ Refused(b) \/ Release(b)
          \/ ToTaskBranch(b) \/ ToBranch(b) \/ CheckoutFails(b)
          \/ CheckCI(b) \/ DoMerge(b) \/ ScanEnds(b) \/ Die(b)
          \/ (\E p \in PR : Merge(b, p))
          \/ (\E p \in PR, op \in Op : Enter(b, op, p))
          \/ (\E op \in Op : Scan(b, op) /\ UNCHANGED <<crew, claims, repo, ci, clone>>)
          \/ (\E r \in Run : Strike(b, r))
          \/ (\E k \in Clone : Amend(b, k))
          \/ (\E p \in PR, k \in Clone : Checkout(b, p, k)))
  BY DEF Truncate, Write, Refused, Release, ToTaskBranch, ToBranch, CheckoutFails, CheckCI, DoMerge,
         ScanEnds, Die, Merge, Enter, Scan, Strike, Amend, Checkout, branches, repo
<1>3. ~(\/ \E p \in PR : GoesStale(p) \/ OthersPush(p) \/ RunStarts(p)
        \/ \E r \in Run : RunEnds(r)
        \/ \E k \in Clone : Edit(k))
  <2>1. ~\E p \in PR : OthersPush(p)
    BY DEF OthersPush
  <2>2. QED
    BY <2>1 DEF GoesStale, RunStarts, RunEnds, Edit, branches, repo
<1>4. QED
  BY <1>1, <1>2, <1>3 DEF RequestsNext

\* pr-amend-push replaces the very commit that was checked out to be amended,
\* unless another command was at work in the clone (ghpr/amendpush.go).
THEOREM AmendsWhatItSaw == ASSUME PullRequestsAssumption PROVE RequestsSpec => PushAmendsTip
<1>1. ASSUME RequestsInv, LeaseInv, [RequestsNext]_requestsVars, NEW a \in Agent,
             job[a].at = "push", job'[a] # job[a], tip' # tip, ~clone[job[a].k].crossed
      PROVE  clone[job[a].k].on = job[a].p /\ tip[job[a].p] = clone[job[a].k].base
  <2>1. RequestsNext
    BY <1>1 DEF requestsVars
  <2>2. Lease(job[a].k, job[a].p)
    BY <1>1, <2>1, OnlyPushPushes DEF Push, branches
  <2>3. job[a].k \in Clone /\ job[a].p \in PR /\ None \notin PR
    BY <1>1 DEF RequestsInv, InHand, PullRequestsAssumption
  <2>4. QED
    BY <1>1, <2>2, <2>3 DEF LeaseInv, LeaseKnown, PushesOwn, Lease
<1>2. RequestsInit => LeaseInv
  BY LeaseInitially
<1>3. RequestsInv /\ LeaseInv /\ [RequestsNext]_requestsVars => LeaseInv'
  BY LeaseStep
<1> DEFINE Amends == \A a \in Agent :
          LET k == job[a].k  p == job[a].p IN
          (job[a].at = "push" /\ job'[a] # job[a] /\ tip' # tip /\ ~clone[k].crossed) =>
              (clone[k].on = p /\ tip[p] = clone[k].base)
<1>4. RequestsInv /\ LeaseInv /\ [RequestsNext]_requestsVars => [Amends]_requestsVars
  BY <1>1
<1>5. QED
  BY <1>2, <1>3, <1>4, RequestsInvariant, PTL DEF RequestsSpec, PushAmendsTip

-----------------------------------------------------------------------------
\* The commit of a run is at the tip of its branch, or was replaced there.
HadTip(r) == tip[r[1]] = r[2] \/ r[2] \in replaced[r[1]]

\* No run begins before its commit is pushed.
RunsHadTips == \A r \in Run : run[r] # "absent" => HadTip(r)

\* Of two runs of a branch the earlier one is of a commit that was replaced.
BornInTurn ==
    /\ born \in Seq(Run)
    /\ \A i \in 1..Len(born) : run[born[i]] # "absent"
    /\ \A i, j \in 1..Len(born) : (i < j /\ born[i][1] = born[j][1]) =>
           born[i][2] \in replaced[born[i][1]]

\* What is listed has begun.
ListedBegan == \A a \in Agent : \A r \in job[a].list : run[r] # "absent"

\* A run that a tip speaks against is of a commit that was replaced.
JudgedRightly ==
    \A a \in Agent : job[a].at = "judged" =>
        \A r \in job[a].list : job[a].tips[r[1]] \in {0, r[2]} \/ r[2] \in replaced[r[1]]

\* TipKeepsRun is about the tips of now, the commands judge by the tips of
\* then: what carries over is that a commit once replaced is so for ever.
RunsInv == RunsHadTips /\ BornInTurn /\ ListedBegan /\ JudgedRightly /\ TipKeepsRun

\* What the lists and tips of the commands become when nobody scans.
ListsRest ==
    \A a \in Agent : \/ job'[a].list = {}
                     \/ /\ job'[a].list \subseteq job[a].list /\ job'[a].tips = job[a].tips
                        /\ job'[a].at = "judged" => job[a].at = "judged"

\* A command that is none of CI has an empty list and keeps it.
LEMMA ListKept ==
    ASSUME RequestsTypeOK, NEW a \in Agent, NEW j, job' = [job EXCEPT ![a] = j],
           \/ j.list = {}
           \/ j.list = job[a].list /\ j.tips = job[a].tips /\ (j.at = "judged" => job[a].at = "judged")
    PROVE  ListsRest
<1>1. job \in [Agent -> Job]
  BY DEF RequestsTypeOK
<1>2. QED
  BY <1>1 DEF ListsRest

\* A step that leaves branches and runs alone.
LEMMA RunsRest ==
    ASSUME RunsInv, UNCHANGED <<branches, ci>>, ListsRest
    PROVE  RunsInv'
<1> USE DEF RunsInv, branches, ci
<1>1. RunsHadTips' /\ BornInTurn' /\ TipKeepsRun'
  BY DEF RunsHadTips, HadTip, BornInTurn, TipKeepsRun
<1>2. ListedBegan' /\ JudgedRightly'
  BY DEF ListsRest, ListedBegan, JudgedRightly
<1>3. QED
  BY <1>1, <1>2

\* A push: what was at the tip is replaced, by something new or by something
\* that was there before.
LEMMA RunsMove ==
    ASSUME RequestsTypeOK, RunsInv, NEW p \in PR, NEW c \in Ref, Moves(p, c), UNCHANGED ci, ListsRest
    PROVE  RunsInv'
<1>1. /\ tip \in [PR -> Ref] /\ replaced \in [PR -> SUBSET Ref] /\ job \in [Agent -> Job]
      /\ born' = born /\ run' = run /\ blind' = blind
      /\ \A r \in Run : r[1] \in PR /\ r[2] \in Commit
  BY DEF RequestsTypeOK, ci, Run
<1>2. /\ \A q \in PR : replaced[q] \subseteq replaced'[q]
      /\ \A q \in PR : tip'[q] = tip[q] \/ tip[q] \in replaced'[q]
  BY <1>1 DEF Moves
<1>3. RunsHadTips'
  BY <1>1, <1>2 DEF RunsInv, RunsHadTips, HadTip
<1>4. \A i \in 1..Len(born) : born[i] \in Run
  BY DEF RunsInv, BornInTurn
<1>5. BornInTurn'
  BY <1>1, <1>2, <1>4 DEF RunsInv, BornInTurn
<1>6. ListedBegan'
  BY <1>1 DEF RunsInv, ListedBegan, ListsRest
<1>7. JudgedRightly'
  <2> SUFFICES ASSUME NEW a \in Agent, job'[a].at = "judged", NEW r \in job'[a].list
               PROVE  job'[a].tips[r[1]] \in {0, r[2]} \/ r[2] \in replaced'[r[1]]
    BY DEF JudgedRightly
  <2>1. r \in job[a].list /\ job'[a].tips = job[a].tips /\ job[a].at = "judged"
    BY DEF ListsRest
  <2>2. r \in Run
    BY <1>1, <2>1 DEF Job
  <2>3. QED
    BY <1>1, <1>2, <2>1, <2>2 DEF RunsInv, JudgedRightly
<1>8. TipKeepsRun'
  <2> SUFFICES ASSUME NEW r \in Run, tip'[r[1]] = r[2], run[r] \in {"cancelled", "deleted"},
                      r \notin blind
               PROVE  r[2] \in replaced'[r[1]]
    BY <1>1 DEF TipKeepsRun
  <2>1. HadTip(r)
    BY DEF RunsInv, RunsHadTips
  <2>2. CASE tip[r[1]] = r[2]
    BY <1>1, <1>2, <2>2 DEF RunsInv, TipKeepsRun
  <2>3. CASE r[2] \in replaced[r[1]]
    BY <1>1, <1>2, <2>3
  <2>4. QED
    BY <2>1, <2>2, <2>3 DEF HadTip
<1>9. QED
  BY <1>3, <1>5, <1>6, <1>7, <1>8 DEF RunsInv

\* A run begins at the tip of its branch: earlier ones were of other commits.
LEMMA RunsBegin == ASSUME RequestsTypeOK, RunsInv, NEW p \in PR, RunStarts(p) PROVE RunsInv'
<1> DEFINE r == <<p, tip[p]>>  n == Len(born)
<1>1. /\ run \in [Run -> {"absent", "active", "green", "red", "cancelled", "deleted"}]
      /\ r \in Run /\ run[r] = "absent" /\ r[1] = p /\ r[2] = tip[p]
      /\ born' = Append(born, r)
      /\ run' = [run EXCEPT ![r] = "active"]
      /\ UNCHANGED <<tip, replaced, job, blind>>
  BY DEF RequestsTypeOK, RunStarts, branches, repo
<1>2. /\ born \in Seq(Run) /\ n \in Nat
      /\ \A i \in 1..n : born[i] \in Run /\ run[born[i]] # "absent"
  BY DEF RunsInv, BornInTurn
<1>3. /\ born' \in Seq(Run) /\ Len(born') = n + 1 /\ born'[n + 1] = r
      /\ \A i \in 1..n : born'[i] = born[i]
  BY <1>1, <1>2
<1> HIDE DEF r, n
<1>4. RunsHadTips' /\ ListedBegan' /\ JudgedRightly' /\ TipKeepsRun'
  <2>1. \A s \in Run : run'[s] = run[s] \/ (s = r /\ run'[s] = "active")
    BY <1>1
  <2>2. RunsHadTips'
    BY <1>1, <2>1 DEF RunsInv, RunsHadTips, HadTip
  <2>3. TipKeepsRun'
    BY <1>1, <2>1 DEF RunsInv, TipKeepsRun
  <2>4. ListedBegan'
    BY <1>1 DEF RunsInv, ListedBegan
  <2>5. JudgedRightly'
    BY <1>1 DEF RunsInv, JudgedRightly
  <2>6. QED
    BY <2>2, <2>3, <2>4, <2>5
<1>5. \A i \in 1..(n + 1) : run'[born'[i]] # "absent"
  BY <1>1, <1>2, <1>3
<1>6. ASSUME NEW i \in 1..(n + 1), NEW j \in 1..(n + 1), i < j, born'[i][1] = born'[j][1]
      PROVE  born'[i][2] \in replaced[born'[i][1]]
  <2>1. i \in 1..n /\ born'[i] = born[i]
    BY <1>2, <1>3, <1>6
  <2>2. CASE j \in 1..n
    BY <1>2, <1>3, <1>6, <2>1, <2>2 DEF RunsInv, BornInTurn, n
  <2>3. CASE j = n + 1
    <3>1. born[i] \in Run /\ born[i] # r /\ born[i][1] = p /\ HadTip(born[i])
      BY <1>1, <1>2, <1>3, <1>6, <2>1, <2>3 DEF RunsInv, RunsHadTips
    <3>2. born[i] = <<born[i][1], born[i][2]>>
      BY <3>1 DEF Run
    <3>3. born[i][2] # tip[p]
      BY <3>1, <3>2 DEF r
    <3>4. QED
      BY <2>1, <3>1, <3>3 DEF HadTip
  <2>4. QED
    BY <1>2, <2>2, <2>3
<1>7. BornInTurn'
  BY <1>1, <1>3, <1>5, <1>6 DEF BornInTurn
<1>8. QED
  BY <1>4, <1>7 DEF RunsInv

\* A run that is, becomes another thing that is.
LEMMA RunsGoOn ==
    ASSUME RequestsTypeOK, RunsInv, NEW r \in Run, run[r] # "absent", NEW st, st # "absent",
           run' = [run EXCEPT ![r] = st], UNCHANGED <<branches, born>>, ListsRest,
           blind \subseteq blind', r \notin blind' => st \notin {"cancelled", "deleted"} \/ r[2] \in replaced[r[1]]
                                                      \/ tip[r[1]] # r[2]
    PROVE  RunsInv'
<1>1. /\ run \in [Run -> {"absent", "active", "green", "red", "cancelled", "deleted"}]
      /\ job \in [Agent -> Job] /\ tip' = tip /\ replaced' = replaced /\ born' = born
  BY DEF RequestsTypeOK, branches
<1>2. \A s \in Run : run'[s] = IF s = r THEN st ELSE run[s]
  BY <1>1
<1>3. RunsHadTips'
  BY <1>1, <1>2 DEF RunsInv, RunsHadTips, HadTip
<1>4. \A i \in 1..Len(born) : born[i] \in Run
  BY DEF RunsInv, BornInTurn
<1>5. BornInTurn'
  BY <1>1, <1>2, <1>4 DEF RunsInv, BornInTurn
<1>6. ListedBegan'
  <2>1. \A a \in Agent : \A s \in job'[a].list : s \in job[a].list /\ s \in Run
    BY <1>1 DEF ListsRest, Job
  <2>2. QED
    BY <1>2, <2>1 DEF RunsInv, ListedBegan
<1>7. JudgedRightly'
  BY <1>1 DEF RunsInv, JudgedRightly, ListsRest
<1>8. TipKeepsRun'
  BY <1>1, <1>2 DEF RunsInv, TipKeepsRun
<1>9. QED
  BY <1>3, <1>5, <1>6, <1>7, <1>8 DEF RunsInv

\* What ci-cancel-stale and ci-prune take is of a commit that was replaced,
\* or they took it blindly.
LEMMA OutdatedIsReplaced ==
    ASSUME RequestsTypeOK, RunsInv, NEW a \in Agent, job[a].at = "judged", NEW r \in job[a].list,
           Outdated(a, r), ~Blindly(a, r)
    PROVE  r[2] \in replaced[r[1]]
<1> DEFINE t == job[a].tips[r[1]]
<1>1. CASE t # 0
  BY <1>1 DEF Outdated, RunsInv, JudgedRightly
<1>2. CASE t = 0
  <2>1. PICK s \in Superseding(a, r) : s[1] = r[1]
    BY <1>2 DEF Outdated, Blindly
  <2>2. PICK i \in DOMAIN born, j \in DOMAIN born : i < j /\ born[i] = r /\ born[j] = s
    BY <2>1 DEF Superseding, Later
  <2>3. DOMAIN born = 1..Len(born)
    BY DEF RunsInv, BornInTurn
  <2>4. QED
    BY <2>1, <2>2, <2>3 DEF RunsInv, BornInTurn
<1>3. QED
  BY <1>1, <1>2

LEMMA RunsStruck ==
    ASSUME RequestsTypeOK, RunsInv, NEW a \in Agent, NEW r \in Run, Strike(a, r)
    PROVE  RunsInv'
<1>1. /\ job[a].at = "judged" /\ r \in job[a].list /\ run[r] # "absent"
      /\ UNCHANGED <<branches, born>>
  BY DEF Strike, repo, RunsInv, ListedBegan
<1>2. ListsRest
  <2>1. job \in [Agent -> Job]
    BY DEF RequestsTypeOK
  <2>2. \A b \in Agent : /\ job'[b].list \subseteq job[b].list /\ job'[b].tips = job[b].tips
                         /\ job'[b].at = job[b].at
    BY <2>1 DEF Strike, Job
  <2>3. QED
    BY <2>2 DEF ListsRest
<1>3. CASE UNCHANGED <<run, blind>>
  BY <1>1, <1>2, <1>3, RunsRest DEF ci
<1>4. CASE /\ Outdated(a, r)
           /\ run' = [run EXCEPT ![r] = IF job[a].op = "cancel" THEN "cancelled" ELSE "deleted"]
           /\ blind' = IF Blindly(a, r) THEN blind \cup {r} ELSE blind
  <2> DEFINE st == IF job[a].op = "cancel" THEN "cancelled" ELSE "deleted"
  <2>1. r \notin blind' => r[2] \in replaced[r[1]]
    BY <1>1, <1>4, OutdatedIsReplaced
  <2>2. run' = [run EXCEPT ![r] = st] /\ st # "absent" /\ blind \subseteq blind'
    BY <1>4
  <2> HIDE DEF st
  <2>3. QED
    BY <1>1, <1>2, <2>1, <2>2, RunsGoOn
<1>5. QED
  BY <1>3, <1>4 DEF Strike

\* The list is made of runs that have begun; a tip that is read afterwards
\* speaks against a run only if its commit has been replaced by then.
LEMMA RunsScanned ==
    ASSUME RequestsTypeOK, RunsInv, NEW a \in Agent, NEW op \in Op,
           Scan(a, op), UNCHANGED <<crew, claims, repo, ci, clone>>
    PROVE  RunsInv'
<1>0. /\ job \in [Agent -> Job] /\ tip' = tip /\ replaced' = replaced /\ run' = run
      /\ born' = born /\ blind' = blind
  BY DEF RequestsTypeOK, repo, branches, ci
<1>1. RunsHadTips' /\ BornInTurn' /\ TipKeepsRun'
  BY <1>0 DEF RunsInv, RunsHadTips, HadTip, BornInTurn, TipKeepsRun
<1>2. CASE job' = [job EXCEPT ![a] = [Idle EXCEPT !.op = op, !.at = "listed", !.list = RunsFor(op)]]
  <2>1. /\ job'[a].list = RunsFor(op) /\ job'[a].at = "listed"
        /\ \A b \in Agent \ {a} : job'[b] = job[b]
    BY <1>0, <1>2 DEF Idle
  <2>2. \A r \in RunsFor(op) : run[r] # "absent"
    BY DEF RunsFor
  <2>3. ListedBegan'
    BY <1>0, <2>1, <2>2 DEF RunsInv, ListedBegan
  <2>4. JudgedRightly'
    BY <1>0, <2>1 DEF RunsInv, JudgedRightly
  <2>5. QED
    BY <1>1, <2>3, <2>4 DEF RunsInv
<1>3. ASSUME NEW f \in Tips, job' = [job EXCEPT ![a].at = "judged", ![a].tips = f]
      PROVE  RunsInv'
  <2>1. /\ job'[a].list = job[a].list /\ job'[a].tips = f
        /\ \A b \in Agent \ {a} : job'[b] = job[b]
    BY <1>0, <1>3 DEF Job
  <2>2. ListedBegan'
    BY <1>0, <2>1 DEF RunsInv, ListedBegan
  <2>3. ASSUME NEW r \in job[a].list
        PROVE  f[r[1]] \in {0, r[2]} \/ r[2] \in replaced[r[1]]
    <3>1. r \in Run /\ r[1] \in PR
      BY <1>0 DEF Job, Run
    <3>2. HadTip(r)
      BY <3>1 DEF RunsInv, RunsHadTips, ListedBegan
    <3>3. f[r[1]] \in {0, tip[r[1]]}
      BY <3>1 DEF Tips
    <3>4. QED
      BY <3>2, <3>3 DEF HadTip
  <2>4. JudgedRightly'
    BY <1>0, <2>1, <2>3 DEF RunsInv, JudgedRightly
  <2>5. QED
    BY <1>1, <2>2, <2>4 DEF RunsInv
<1>4. QED
  BY <1>2, <1>3 DEF Scan

\* Everybody else leaves the runs alone, and most leave the branches.
LEMMA RunsElsewhere ==
    ASSUME PullRequestsAssumption, RequestsInv, RunsInv, NEW a \in Agent,
           \/ Truncate(a) \/ Write(a) \/ Refused(a) \/ Release(a)
           \/ ToTaskBranch(a) \/ ToBranch(a) \/ CheckoutFails(a) \/ Push(a)
           \/ CheckCI(a) \/ DoMerge(a) \/ ScanEnds(a) \/ Die(a)
           \/ \E p \in PR : Merge(a, p)
           \/ \E p \in PR, op \in Op : Enter(a, op, p)
           \/ \E k \in Clone : Amend(a, k)
           \/ \E p \in PR, k \in Clone : Checkout(a, p, k)
    PROVE  RunsInv'
<1>0. RequestsTypeOK /\ job \in [Agent -> Job] /\ Idle.list = {}
  BY DEF RequestsInv, RequestsTypeOK, Idle
<1>1. ASSUME NEW j, job' = [job EXCEPT ![a] = j], j.list = {} PROVE ListsRest
  BY <1>0, <1>1, ListKept
<1>2. ASSUME NEW st, st # "judged", job' = [job EXCEPT ![a].at = st] PROVE ListsRest
  <2> DEFINE j == [job[a] EXCEPT !.at = st]
  <2>1. job' = [job EXCEPT ![a] = j] /\ j.list = job[a].list /\ j.tips = job[a].tips /\ j.at # "judged"
    BY <1>0, <1>2 DEF Job
  <2>2. QED
    BY <1>0, <2>1, ListKept
<1>3. CASE Push(a)
  <2>1. ListsRest
    BY <1>0, <1>1, <1>3 DEF Push, Ends
  <2>2. CASE UNCHANGED branches
    BY <1>3, <2>1, <2>2, RunsRest DEF Push
  <2>3. CASE Moves(job[a].p, clone[job[a].k].head)
    <3>1. job[a].p \in PR /\ clone[job[a].k].head \in Ref
      BY <1>3 DEF Push, RequestsInv, RequestsTypeOK, InHand, CloneState
    <3>2. QED
      BY <1>0, <1>3, <2>1, <2>3, <3>1, RunsMove DEF Push
  <2>4. QED
    BY <1>3, <2>2, <2>3 DEF Push
<1>4. CASE Truncate(a) \/ ToTaskBranch(a)
  <2>1. ListsRest
    BY <1>2, <1>4 DEF Truncate, ToTaskBranch
  <2>2. QED
    BY <1>4, <2>1, RunsRest DEF Truncate, ToTaskBranch, repo
<1>5. CASE Write(a) \/ Refused(a) \/ Release(a) \/ ToBranch(a) \/ CheckoutFails(a)
           \/ DoMerge(a) \/ ScanEnds(a) \/ Die(a)
  <2>1. job' = [job EXCEPT ![a] = Idle] /\ UNCHANGED <<branches, ci>>
    BY <1>5 DEF Write, Refused, Release, ToBranch, CheckoutFails, DoMerge, ScanEnds, Die, Leave, Ends, repo
  <2>2. QED
    BY <1>0, <1>1, <2>1, RunsRest
<1>6. CASE CheckCI(a)
  <2>1. ListsRest
    BY <1>0, <1>1, <1>2, <1>6 DEF CheckCI, Ends
  <2>2. QED
    BY <1>6, <2>1, RunsRest DEF CheckCI, repo
<1>7. ASSUME NEW p \in PR, Merge(a, p) PROVE RunsInv'
  <2> DEFINE j == [Idle EXCEPT !.op = "merge", !.p = p, !.at = "info"]
  <2>1. j.list = {}
    BY DEF Idle
  <2>2. QED
    BY <1>1, <1>7, <2>1, RunsRest DEF Merge, repo
<1>8. ASSUME NEW p \in PR, NEW op \in Op, Enter(a, op, p) PROVE RunsInv'
  <2> DEFINE j == [Idle EXCEPT !.op = op, !.p = p, !.at = "locked"]
  <2>1. j.list = {}
    BY DEF Idle
  <2>2. QED
    BY <1>1, <1>8, <2>1, RunsRest DEF Enter, repo
<1>9. ASSUME NEW k \in Clone, Amend(a, k) PROVE RunsInv'
  <2> DEFINE j == [Idle EXCEPT !.op = "amend", !.p = clone[k].on, !.k = k, !.at = "push"]
  <2>1. j.list = {}
    BY DEF Idle
  <2>2. QED
    BY <1>1, <1>9, <2>1, RunsRest DEF Amend
<1>10. ASSUME NEW p \in PR, NEW k \in Clone, Checkout(a, p, k) PROVE RunsInv'
  <2> DEFINE j == [Idle EXCEPT !.op = "checkout", !.p = p, !.k = k, !.at = "fetched"]
  <2>1. j.list = {}
    BY DEF Idle
  <2>2. QED
    BY <1>1, <1>10, <2>1, RunsRest DEF Checkout, repo
<1>11. QED
  BY <1>3, <1>4, <1>5, <1>6, <1>7, <1>8, <1>9, <1>10

LEMMA RunsOutside ==
    ASSUME PullRequestsAssumption, RequestsInv, RunsInv,
           \/ \E p \in PR : GoesStale(p) \/ OthersPush(p) \/ RunStarts(p)
           \/ \E r \in Run : RunEnds(r)
           \/ \E k \in Clone : Edit(k)
           \/ UNCHANGED requestsVars
    PROVE  RunsInv'
<1>0. RequestsTypeOK
  BY DEF RequestsInv
<1>1. ASSUME job' = job PROVE ListsRest
  BY <1>1 DEF ListsRest
<1>2. ASSUME NEW p \in PR, OthersPush(p) PROVE RunsInv'
  <2>1. made + 1 \in Ref
    BY <1>0, <1>2, NextRef DEF OthersPush, RequestsTypeOK, PullRequestsAssumption
  <2>2. QED
    BY <1>0, <1>1, <1>2, <2>1, RunsMove DEF OthersPush
<1>3. ASSUME NEW r \in Run, RunEnds(r) PROVE RunsInv'
  <2>1. PICK st \in {"green", "red"} : run' = [run EXCEPT ![r] = st]
    BY <1>3 DEF RunEnds
  <2>2. run[r] # "absent" /\ UNCHANGED <<branches, born, job, blind>>
    BY <1>3 DEF RunEnds, repo
  <2>3. QED
    BY <1>0, <1>1, <2>1, <2>2, RunsGoOn
<1>4. CASE UNCHANGED <<branches, ci, job>>
  BY <1>1, <1>4, RunsRest
<1>5. QED
  BY <1>0, <1>2, <1>3, <1>4, RunsBegin DEF GoesStale, Edit, repo, branches, ci, requestsVars

LEMMA RunsStep ==
    ASSUME PullRequestsAssumption, RequestsInv, RunsInv, [RequestsNext]_requestsVars
    PROVE  RunsInv'
<1>1. RequestsTypeOK
  BY DEF RequestsInv
<1>2. QED
  BY <1>1, RunsElsewhere, RunsScanned, RunsStruck, RunsOutside DEF RequestsNext

LEMMA RunsInitially == ASSUME PullRequestsAssumption, RequestsInit PROVE RunsInv
<1>1. /\ \A r \in Run : run[r] = "absent"
      /\ \A a \in Agent : job[a].list = {} /\ job[a].at = "idle"
      /\ born = <<>>
  BY DEF RequestsInit, Idle
<1>2. born \in Seq(Run) /\ Len(born) = 0
  BY <1>1
<1>3. BornInTurn
  BY <1>2 DEF BornInTurn
<1>4. QED
  BY <1>1, <1>3 DEF RunsInv, RunsHadTips, ListedBegan, JudgedRightly, TipKeepsRun

\* Neither ci-cancel-stale nor ci-prune takes the run of what is at the tip of
\* a branch, however branches move between list, judgement and deletion, but
\* where it could not read the tip, or an old commit has been brought back
\* (ghpr/cancelstaleci.go, prunestaleci.go).
THEOREM TipsKeepTheirRuns == ASSUME PullRequestsAssumption PROVE RequestsSpec => []TipKeepsRun
<1>1. RequestsInit => RunsInv
  BY RunsInitially
<1>2. RequestsInv /\ RunsInv /\ [RequestsNext]_requestsVars => RunsInv'
  BY RunsStep
<1>3. RunsInv => TipKeepsRun
  BY DEF RunsInv
<1>4. QED
  BY <1>1, <1>2, <1>3, RequestsInvariant, PTL DEF RequestsSpec
=============================================================================
