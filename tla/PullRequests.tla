---------------------------- MODULE PullRequests ----------------------------
(***************************************************************************)
(* Work on pull requests: the claims by which agents keep out of each      *)
(* other's way (prclaim), the clones they work in and push from, and the   *)
(* commands that judge, cancel and delete runs of CI and merge (ghpr).     *)
(* The repository, its branches and its CI are external.  A branch has one *)
(* run of CI for each commit that is pushed to it: there is one workflow.  *)
(* Nobody asks for a claim before a push: pr-checkout merely prints whose  *)
(* it is.                                                                  *)
(***************************************************************************)
EXTENDS Naturals, Sequences, FiniteSets

CONSTANTS
    Agent,
    PR,         \* pull requests, each with a head branch of its own
    Branch,     \* name of that branch: forks may use one name twice
    Clone,      \* working clones; "repair" is shared unless an agent names one
    Crews,      \* bound: the commands each agent runs, and on which requests
    MaxCommit,  \* bound: commits that are ever made
    MaxRun,     \* bound: runs of CI that ever begin
    None

Op == {"claim", "steal", "release", "force", "releaseall",
       "checkout", "amend", "merge", "cancel", "prune"}

PullRequestsAssumption ==
    /\ None \notin Agent \cup PR
    /\ IsFiniteSet(PR)
    /\ MaxRun \in Nat /\ MaxCommit \in Nat /\ MaxCommit >= Cardinality(PR)
    /\ Crews \subseteq [Agent -> SUBSET (Op \X PR)]

VARIABLES
    crew,
    claim,      \* the claim file of each request
    registry,   \* who holds the lock of the registry
    holds,      \* requests each agent has been told are its own
    made,       \* commits there are, in the repository or in a clone
    tip,        \* head of each branch in the repository
    born,       \* runs of CI, in the order in which they began
    run,        \* what has become of each
    merged,
    clone,
    job,        \* the command each agent runs
    blind,      \* runs that were judged without knowing the tip of their branch
    replaced    \* what has been the tip of each branch and was replaced there

requestsVars == <<crew, claim, registry, holds, made, tip, born, run, merged, clone, job, blind, replaced>>

ci == <<born, run, blind>>
branches == <<tip, replaced>>
repo == <<made, branches, merged>>
claims == <<claim, registry, holds>>

Commit == 1..MaxCommit
Ref == 0..MaxCommit

Run == PR \X Commit

NoClaim == [who |-> None, file |-> "absent"]

\* os.WriteFile truncates first: an empty claim is nobody's and long stale.
Empty == [who |-> None, file |-> "stale"]

Claim == [who : Agent \cup {None}, file : {"absent", "fresh", "stale"}]

\* on: the branch checked out, None for the branch of a task; head: its
\* commit; base: the commit that checkout found; seen: the tracking refs.
\* crossed: another command has been at work in the clone since that checkout
\* began.
CloneState ==
    [on : PR \cup {None}, head : Ref, base : Ref, seen : [PR -> Ref],
     edits : BOOLEAN, crossed : BOOLEAN]

Job ==
    [op : Op \cup {None}, p : PR \cup {None}, k : Clone \cup {None},
     at : {"idle", "locked", "write", "fetched", "branch", "push", "info", "merge", "listed", "judged"},
     list : SUBSET Run, tips : [PR -> Ref]]

Idle == [op |-> None, p |-> None, k |-> None, at |-> "idle", list |-> {},
         tips |-> [p \in PR |-> 0]]

Starts(a, op, p) == job[a].at = "idle" /\ <<op, p>> \in crew[a]

Ends(a) == job' = [job EXCEPT ![a] = Idle]

-----------------------------------------------------------------------------
(* Claims.  DoClaim, DoRelease and DoReleaseAll run under the lock.        *)

Free_Always == TRUE

Free == registry = None

ClaimOps == {"claim", "steal", "release", "force", "releaseall"}

\* Until it is told better, an agent that asks again is sure of nothing.
Enter(a, op, p) ==
    /\ Starts(a, op, p) /\ op \in ClaimOps
    /\ Free
    /\ registry' = a
    /\ holds' = [holds EXCEPT ![a] = @ \ {p}]
    /\ job' = [job EXCEPT ![a] = [Idle EXCEPT !.op = op, !.p = p, !.at = "locked"]]
    /\ UNCHANGED <<crew, claim, repo, ci, clone>>

\* Not held, one's own, stale, or to be stolen.
MayTake(a) ==
    LET c == claim[job[a].p] IN
    \/ c.file \in {"absent", "stale"}
    \/ c.who = a
    \/ job[a].op = "steal"

Leave(a) ==
    /\ registry' = IF registry = a THEN None ELSE registry
    /\ Ends(a)

\* The victim of a theft is not told; it may know that it can be robbed.
Truncate(a) ==
    LET p == job[a].p IN
    /\ job[a].at = "locked" /\ job[a].op \in {"claim", "steal"}
    /\ MayTake(a)
    /\ claim' = [claim EXCEPT ![p] = Empty]
    /\ holds' = IF job[a].op = "steal"
                THEN [b \in Agent |-> holds[b] \ {p}] ELSE holds
    /\ job' = [job EXCEPT ![a].at = "write"]
    /\ UNCHANGED <<crew, registry, repo, ci, clone>>

Write(a) ==
    LET p == job[a].p IN
    /\ job[a].at = "write"
    /\ claim' = [claim EXCEPT ![p] = [who |-> a, file |-> "fresh"]]
    /\ holds' = [holds EXCEPT ![a] = @ \cup {p}]
    /\ Leave(a)
    /\ UNCHANGED <<crew, repo, ci, clone>>

\* Exit 3: held by another agent, or not one's own to release.
Refused(a) ==
    /\ job[a].at = "locked"
    /\ \/ job[a].op = "claim" /\ ~MayTake(a)
       \/ /\ job[a].op = "release"
          /\ claim[job[a].p].file = "absent" \/ claim[job[a].p].who # a
    /\ Leave(a)
    /\ UNCHANGED <<crew, claim, holds, repo, ci, clone>>

Own(a) == {p \in PR : claim[p].file # "absent" /\ claim[p].who = a}

\* What a release removes; FORCE=1 robs the holder.
Released(a) ==
    CASE job[a].op = "release"    -> {job[a].p} \cap Own(a)
      [] job[a].op = "force"      -> {job[a].p}
      [] job[a].op = "releaseall" -> Own(a)

Release(a) ==
    /\ job[a].at = "locked" /\ job[a].op \in {"release", "force", "releaseall"}
    /\ job[a].op = "release" => Released(a) # {}
    /\ claim' = [p \in PR |-> IF p \in Released(a) THEN NoClaim ELSE claim[p]]
    /\ holds' = [b \in Agent |->
                    IF b = a THEN holds[b] \ Released(a)
                    ELSE IF job[a].op = "force" THEN holds[b] \ {job[a].p} ELSE holds[b]]
    /\ Leave(a)
    /\ UNCHANGED <<crew, repo, ci, clone>>

\* A claim is stale an hour after it was made or refreshed, and its holder
\* can tell.
GoesStale(p) ==
    /\ claim[p].file = "fresh"
    /\ claim' = [claim EXCEPT ![p].file = "stale"]
    /\ holds' = [b \in Agent |-> holds[b] \ {p}]
    /\ UNCHANGED <<crew, registry, repo, ci, clone, job>>

-----------------------------------------------------------------------------
(* The repository and its CI: external. *)

\* A branch goes to a commit, perhaps the one it is at.
Moves(p, c) ==
    /\ tip' = [tip EXCEPT ![p] = c]
    /\ replaced' = [replaced EXCEPT ![p] = @ \cup ({tip[p]} \ {c})]

\* Somebody else pushes to the branch.
OthersPush(p) ==
    /\ ~merged[p] /\ made < MaxCommit
    /\ made' = made + 1
    /\ Moves(p, made + 1)
    /\ UNCHANGED <<crew, claims, merged, ci, clone, job>>

\* Bound: CI runs only where somebody has a command for it.
Watched == \E a \in Agent, p \in PR : {<<"cancel", p>>, <<"prune", p>>, <<"merge", p>>} \cap crew[a] # {}

\* A run begins some time after its commit was pushed.
RunStarts(p) ==
    LET r == <<p, tip[p]>> IN
    /\ Watched /\ Len(born) < MaxRun
    /\ r \in Run /\ run[r] = "absent"
    /\ born' = Append(born, r)
    /\ run' = [run EXCEPT ![r] = "active"]
    /\ UNCHANGED <<crew, claims, repo, clone, job, blind>>

RunEnds(r) ==
    /\ run[r] = "active"
    /\ \E st \in {"green", "red"} : run' = [run EXCEPT ![r] = st]
    /\ UNCHANGED <<crew, claims, repo, born, clone, job, blind>>

-----------------------------------------------------------------------------
(* Clones: pr-checkout and pr-amend-push. *)

\* EnsureAgentClone fetches every branch and goes to the branch of the task.
\* That fails when edits are in the way; edits that are not are taken along.
Checkout(a, p, k) ==
    /\ Starts(a, "checkout", p)
    /\ clone' = [clone EXCEPT ![k].seen = tip, ![k].crossed = TRUE]
    /\ job' = [job EXCEPT ![a] = [Idle EXCEPT !.op = "checkout", !.p = p, !.k = k,
                                              !.at = "fetched"]]
    /\ UNCHANGED <<crew, claims, repo, ci>>

Shared(a, k) == \E b \in Agent \ {a} : job[b].k = k

ToTaskBranch(a) ==
    LET k == job[a].k IN
    /\ job[a].at = "fetched"
    /\ clone' = [clone EXCEPT ![k].on = None, ![k].head = 0, ![k].base = 0,
                              ![k].crossed = TRUE]
    /\ job' = [job EXCEPT ![a].at = "branch"]
    /\ UNCHANGED <<crew, claims, repo, ci>>

\* Then it fetches the branch of the request and checks it out.
ToBranch(a) ==
    LET k == job[a].k  p == job[a].p IN
    /\ job[a].at = "branch"
    /\ clone' = [clone EXCEPT ![k] =
                    [@ EXCEPT !.seen[p] = tip[p], !.on = p, !.head = tip[p],
                              !.base = tip[p], !.crossed = Shared(a, k)]]
    /\ Ends(a)
    /\ UNCHANGED <<crew, claims, repo, ci>>

\* The network, gh, or edits that a checkout would overwrite.
CheckoutFails(a) ==
    /\ job[a].at \in {"fetched", "branch"}
    /\ Ends(a)
    /\ UNCHANGED <<crew, claims, repo, ci, clone>>

\* Whoever works in the clone edits files.
Edit(k) ==
    /\ clone[k].on # None /\ ~clone[k].edits
    /\ clone' = [clone EXCEPT ![k].edits = TRUE]
    /\ UNCHANGED <<crew, claims, repo, ci, job>>

\* RunPRAmendPush takes the branch from HEAD and amends the commit there with
\* what is staged; with nothing staged it fails.
Amend(a, k) ==
    LET p == clone[k].on IN
    /\ p # None /\ Starts(a, "amend", p)
    /\ clone[k].edits /\ made < MaxCommit
    /\ made' = made + 1
    /\ clone' = [clone EXCEPT ![k].head = made + 1, ![k].edits = FALSE]
    /\ job' = [job EXCEPT ![a] = [Idle EXCEPT !.op = "amend", !.p = p, !.k = k, !.at = "push"]]
    /\ UNCHANGED <<crew, claims, branches, merged, ci>>

Lease_Forced(k, p) == TRUE

\* push --force-with-lease: the branch is what the tracking ref says.
Lease(k, p) == tip[p] = clone[k].seen[p]

\* HEAD, whichever it is by now, goes to the branch that was checked out.  Left
\* out is the push of a task's branch, which another command had checked out.
Push(a) ==
    LET k == job[a].k  p == job[a].p  head == clone[job[a].k].head IN
    /\ job[a].at = "push"
    /\ IF Lease(k, p) /\ head # 0
       THEN /\ Moves(p, head)
            /\ clone' = [clone EXCEPT ![k].seen[p] = head,
                                      ![k].base = IF clone[k].on = p THEN head ELSE @]
       ELSE UNCHANGED <<branches, clone>>
    /\ Ends(a)
    /\ UNCHANGED <<crew, claims, made, merged, ci>>

-----------------------------------------------------------------------------
(* pr merge and pr wait-green. *)

Merge(a, p) ==
    /\ Starts(a, "merge", p) /\ ~merged[p]
    /\ job' = [job EXCEPT ![a] = [Idle EXCEPT !.op = "merge", !.p = p, !.at = "info"]]
    /\ UNCHANGED <<crew, claims, repo, ci, clone>>

\* checkPRCI: no checks is an error, and every one must have succeeded.
CheckCI(a) ==
    LET r == <<job[a].p, tip[job[a].p]>> IN
    /\ job[a].at = "info"
    /\ IF r \in Run /\ run[r] = "green"
       THEN job' = [job EXCEPT ![a].at = "merge"] ELSE Ends(a)
    /\ UNCHANGED <<crew, claims, repo, ci, clone>>

\* gh merges the head there is by now; what verifyMergeContent finds out
\* afterwards changes nothing.
DoMerge(a) ==
    /\ job[a].at = "merge"
    /\ merged' = [merged EXCEPT ![job[a].p] = TRUE]
    /\ Ends(a)
    /\ UNCHANGED <<crew, claims, made, branches, ci, clone>>

-----------------------------------------------------------------------------
(* ci-cancel-stale and ci-prune. *)

RunsFor(op) ==
    {r \in Run : run[r] \in IF op = "cancel" THEN {"active"} ELSE {"green", "red", "cancelled"}}

\* The tip of each branch, or 0 where it could not be read.
Tips == {f \in [PR -> Ref] : \A p \in PR : f[p] \in {0, tip[p]}}

StartsScan(a, op) == op \in {"cancel", "prune"} /\ \E p \in PR : Starts(a, op, p)

Scan_TipsFirst(a, op) ==
    \/ /\ StartsScan(a, op)
       /\ \E f \in Tips :
             job' = [job EXCEPT ![a] = [Idle EXCEPT !.op = op, !.at = "listed", !.tips = f]]
    \/ /\ job[a].at = "listed" /\ job[a].op = op
       /\ job' = [job EXCEPT ![a].at = "judged", ![a].list = RunsFor(op)]

\* Both list the runs first and read the tips of their branches after that.
Scan(a, op) ==
    \/ /\ StartsScan(a, op)
       /\ RunsFor(op) # {}
       /\ job' = [job EXCEPT ![a] = [Idle EXCEPT !.op = op, !.at = "listed", !.list = RunsFor(op)]]
    \/ /\ job[a].at = "listed" /\ job[a].op = op
       /\ \E f \in Tips : job' = [job EXCEPT ![a].at = "judged", ![a].tips = f]

Later(r, s) == \E i, j \in DOMAIN born : i < j /\ born[i] = r /\ born[j] = s

\* Newer runs in the list that stand for the branch of r when its tip is not
\* known: the group is made with the repository of r, whatever the other's.
Superseding(a, r) == {s \in job[a].list : Branch[s[1]] = Branch[r[1]] /\ Later(r, s)}

Outdated(a, r) ==
    LET t == job[a].tips[r[1]] IN
    IF t # 0 THEN t # r[2]
    ELSE job[a].op = "prune" \/ Superseding(a, r) # {}

\* A prune takes a tip it cannot read for a branch that is gone, and a run may
\* be superseded by one of another repository.
Blindly(a, r) ==
    /\ job[a].tips[r[1]] = 0
    /\ job[a].op = "prune" \/ \A s \in Superseding(a, r) : s[1] # r[1]

\* One run after another is cancelled, unless it has ended, or deleted.
Strike(a, r) ==
    /\ job[a].at = "judged" /\ r \in job[a].list
    /\ job' = [job EXCEPT ![a].list = @ \ {r}]
    /\ IF Outdated(a, r) /\ (job[a].op = "cancel" => run[r] = "active")
       THEN /\ run' = [run EXCEPT ![r] = IF job[a].op = "cancel" THEN "cancelled" ELSE "deleted"]
            /\ blind' = IF Blindly(a, r) THEN blind \cup {r} ELSE blind
       ELSE UNCHANGED <<run, blind>>
    /\ UNCHANGED <<crew, claims, repo, born, clone>>

ScanEnds(a) ==
    /\ job[a].at = "judged" /\ job[a].list = {}
    /\ Ends(a)
    /\ UNCHANGED <<crew, claims, repo, ci, clone>>

\* A process dies; the lock of the registry goes with it.
Die(a) ==
    /\ job[a].at # "idle"
    /\ registry' = IF registry = a THEN None ELSE registry
    /\ Ends(a)
    /\ UNCHANGED <<crew, claim, holds, repo, ci, clone>>

-----------------------------------------------------------------------------
NoClone ==
    [on |-> None, head |-> 0, base |-> 0, seen |-> [p \in PR |-> 0],
     edits |-> FALSE, crossed |-> FALSE]

\* Each request has been opened with a commit of its own.
Opened == CHOOSE f \in [PR -> 1..Cardinality(PR)] :
              \A p, q \in PR : p # q => f[p] # f[q]

RequestsInit ==
    /\ crew \in Crews
    /\ claim = [p \in PR |-> NoClaim]
    /\ registry = None
    /\ holds = [a \in Agent |-> {}]
    /\ made = Cardinality(PR)
    /\ tip = Opened
    /\ born = <<>>
    /\ run = [r \in Run |-> "absent"]
    /\ merged = [p \in PR |-> FALSE]
    /\ clone = [k \in Clone |-> NoClone]
    /\ job = [a \in Agent |-> Idle]
    /\ blind = {}
    /\ replaced = [p \in PR |-> {}]

RequestsNext ==
    \/ \E a \in Agent :
          \/ Truncate(a) \/ Write(a) \/ Refused(a) \/ Release(a)
          \/ ToTaskBranch(a) \/ ToBranch(a) \/ CheckoutFails(a) \/ Push(a)
          \/ CheckCI(a) \/ DoMerge(a) \/ ScanEnds(a) \/ Die(a)
          \/ \E p \in PR : Merge(a, p)
          \/ \E p \in PR, op \in Op : Enter(a, op, p)
          \/ \E op \in Op : Scan(a, op) /\ UNCHANGED <<crew, claims, repo, ci, clone>>
          \/ \E r \in Run : Strike(a, r)
          \/ \E k \in Clone : Amend(a, k) \/ \E p \in PR : Checkout(a, p, k)
    \/ \E p \in PR : GoesStale(p) \/ OthersPush(p) \/ RunStarts(p)
    \/ \E r \in Run : RunEnds(r)
    \/ \E k \in Clone : Edit(k)

RequestsSpec == RequestsInit /\ [][RequestsNext]_requestsVars

-----------------------------------------------------------------------------
RequestsTypeOK ==
    /\ crew \in Crews
    /\ claim \in [PR -> Claim]
    /\ registry \in Agent \cup {None}
    /\ holds \in [Agent -> SUBSET PR]
    /\ made \in Ref
    /\ tip \in [PR -> Ref]
    /\ run \in [Run -> {"absent", "active", "green", "red", "cancelled", "deleted"}]
    /\ merged \in [PR -> BOOLEAN]
    /\ clone \in [Clone -> CloneState]
    /\ job \in [Agent -> Job]
    /\ blind \subseteq Run
    /\ replaced \in [PR -> SUBSET Ref]

\* A claim keeps others out: no two agents have been told that a request is
\* theirs, as long as nobody used --steal or FORCE=1 and the hour of the claim
\* is not over, whoever dies while it writes one.
ClaimsExclude ==
    \A a, b \in Agent : a # b => holds[a] \cap holds[b] = {}

\* What is at the tip of a branch keeps its run of CI: neither command takes
\* it, however the branch moves meanwhile, unless it judges blindly.  (A commit
\* that was replaced and has been brought back by a push may be without.)
TipKeepsRun ==
    \A r \in Run :
        (tip[r[1]] = r[2] /\ run[r] \in {"cancelled", "deleted"}) =>
            r \in blind \/ r[2] \in replaced[r[1]]

\* A forced push replaces only the commit that was checked out to be amended,
\* unless another command was at work in the clone since then.
PushAmendsTip ==
    [][\A a \in Agent :
          LET k == job[a].k  p == job[a].p IN
          (job[a].at = "push" /\ job'[a] # job[a] /\ tip' # tip /\ ~clone[k].crossed) =>
              (clone[k].on = p /\ tip[p] = clone[k].base)]_requestsVars
=============================================================================
