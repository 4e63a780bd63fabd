-------------------------------- MODULE Sops --------------------------------
(***************************************************************************)
(* The standing instructions of the fleet: one fragment file each, and an  *)
(* index that has the text of all of them and is what ships load.  The     *)
(* commands and the web console write a fragment and then make the index   *)
(* anew, without a lock; only the commit of a fragment is made under the   *)
(* lock of the clone (Flock), so a commit is one step here.  So are those  *)
(* of ws-commit, by which ships commit whatever they have changed.  A      *)
(* fragment is its slug, title and text, each by a version; the order is   *)
(* left out.                                                               *)
(***************************************************************************)
EXTENDS Naturals

CONSTANTS
    Slug,       \* fragments, by the path below sop.d
    Actor,      \* whoever runs a command or is served by the console
    Crews,      \* bound: the commands of each actor; a run has one of them
    MaxVersion  \* bound: texts ever written

VARIABLES
    crew,
    frag,       \* the file of each slug
    made,       \* versions there have been
    index,      \* text of each slug in the index; 0 if it is not there
    head,       \* what the last commit has of each slug
    staged,     \* what the index of git has of it
    job         \* the command of each actor

vars == <<crew, frag, made, index, head, staged, job>>

Op == {"write", "misname", "new", "create", "adopt", "update", "reindex", "remove", "ws", "all"}

SopsAssumption ==
    /\ Slug # {}
    /\ MaxVersion \in Nat \ {0}
    /\ Crews \subseteq [Actor -> SUBSET (Op \X Slug)]

Version == 0..MaxVersion

\* name: the slug in the header, by which the file is looked up again.
Fragment == [name : Slug, title : Version, text : Version]

Gone == [name |-> "none", title |-> 0, text |-> 0]

There(s) == frag[s] # Gone

\* title: that found; text: that written; metas: the names a reindex has found; list: the texts it
\* will write; alone: nobody else has written a fragment or the index meanwhile; ok: it has
\* reported success, so far.
Job ==
    [at : {"idle", "load", "put", "scan", "inline", "index", "commit", "over"},
     op : Op, slug : Slug, title : Version, text : Version, metas : SUBSET Slug,
     list : [Slug -> Version], alone : BOOLEAN, ok : BOOLEAN]

Blank == [s \in Slug |-> 0]

\* What the index should have: the text of each fragment whose slug is in a
\* header, which is its own unless one is misnamed.
Inlined ==
    [s \in Slug |-> IF There(s) /\ \E t \in Slug : There(t) /\ frag[t].name = s
                    THEN frag[s].text ELSE 0]

Commits(op) == op \in {"create", "adopt", "update"}

\* ws-commit, of one path or (-a) of all that is tracked.
IsWsCommit(op) == op \in {"ws", "all"}

Step(a, j) == job' = [job EXCEPT ![a] = j]

\* a goes on as j, and the others are no longer alone.
Disturb(a, j) == job' = [b \in Actor |-> IF b = a THEN j ELSE [job[b] EXCEPT !.alone = FALSE]]

Fail(j) == [j EXCEPT !.at = "over", !.ok = FALSE]

-----------------------------------------------------------------------------
(* commands.go and web.go. *)

First(op) == CASE op \in {"write", "misname", "new", "create", "adopt"} -> "put"
               [] op = "update" -> "load"
               [] op = "reindex" -> "scan"
               [] IsWsCommit(op) -> "commit"

\* DoNew refuses what is there, and so does apiSOPCreate; with is_starfleet
\* the latter looks in the directory of our own fragments.
Refused(op, s) == op \in {"new", "create"} /\ There(s)

Begin(a, op, s) ==
    /\ job[a].at \in {"idle", "over"} /\ <<op, s>> \in crew[a] /\ op # "remove"
    /\ made < MaxVersion
    /\ LET j == [at |-> First(op), op |-> op, slug |-> s, title |-> 0, text |-> 0, metas |-> {},
                 list |-> Blank, ok |-> TRUE,
                 alone |-> ~IsWsCommit(op) /\ \A b \in Actor \ {a} : job[b].at \in {"idle", "over"}]
       IN Step(a, IF Refused(op, s) THEN Fail(j) ELSE j)
    /\ UNCHANGED <<crew, frag, made, index, head, staged>>

\* apiSOPUpdate keeps the fields that it is not given, as they are now, of
\* the fragment that has the slug in its header.
LoadMeta(a) ==
    LET found == {s \in Slug : There(s) /\ frag[s].name = job[a].slug} IN
    /\ job[a].at = "load"
    /\ IF found = {} THEN Step(a, Fail(job[a]))
       ELSE \E s \in found :
               Step(a, [job[a] EXCEPT !.at = "put", !.title = frag[s].title])
    /\ UNCHANGED <<crew, frag, made, index, head, staged>>

\* What the command leaves in the file: the console's updates keep the title;
\* a raw write may have any slug in its header.
Written(a, v) ==
    {[name |-> n, title |-> IF job[a].op = "update" THEN job[a].title ELSE v, text |-> v] :
        n \in IF job[a].op = "misname" THEN Slug \ {job[a].slug} ELSE {job[a].slug}}

AfterPut_NoReindex == "over"

AfterPut == "scan"

\* DoWrite replaces the file, and DoReindex follows.
Put(a) ==
    LET v == made + 1  s == job[a].slug IN
    /\ job[a].at = "put" /\ v \in Version
    /\ \E f \in Written(a, v) : frag' = [frag EXCEPT ![s] = f]
    /\ made' = v
    /\ Disturb(a, [job[a] EXCEPT !.at = AfterPut, !.title = 0, !.text = v])
    /\ UNCHANGED <<crew, index, head, staged>>

\* The user removes a fragment's file.
Remove(a, s) ==
    /\ job[a].at \in {"idle", "over"} /\ <<"remove", s>> \in crew[a] /\ There(s)
    /\ frag' = [frag EXCEPT ![s] = Gone]
    /\ Disturb(a, [job[a] EXCEPT !.at = "idle"])
    /\ UNCHANGED <<crew, made, index, head, staged>>

-----------------------------------------------------------------------------
(* DoReindex. *)

\* loadAllFragments: the slugs in the headers.
Scan(a) ==
    /\ job[a].at = "scan"
    /\ Step(a, [job[a] EXCEPT !.at = "inline", !.metas = {frag[s].name : s \in {t \in Slug : There(t)}}])
    /\ UNCHANGED <<crew, frag, made, index, head, staged>>

\* Each is read from where its slug leads; if one is not there, no index is
\* written at all.
Inline(a) ==
    LET m == job[a].metas IN
    /\ job[a].at = "inline"
    /\ Step(a, IF \E s \in m : ~There(s) THEN Fail([job[a] EXCEPT !.metas = {}])
               ELSE [job[a] EXCEPT !.at = "index", !.metas = {},
                                   !.list = [s \in Slug |-> IF s \in m THEN frag[s].text ELSE 0]])
    /\ UNCHANGED <<crew, frag, made, index, head, staged>>

WriteIndex(a) ==
    /\ job[a].at = "index"
    /\ index' = job[a].list
    /\ Disturb(a, [job[a] EXCEPT !.at = IF Commits(job[a].op) THEN "commit" ELSE "over",
                                 !.list = Blank])
    /\ UNCHANGED <<crew, frag, made, head, staged>>

-----------------------------------------------------------------------------
(* DoCommit of sop and of ws-commit, under the lock of the clone. *)

\* The index file in the fragment's stead.
Paths_Index(a) == {}

\* The paths that are added: the fragment's, or all that git knows.
Paths(a) == IF job[a].op = "all" THEN {s \in Slug : staged[s] # Gone} ELSE {job[a].slug}

Added(a) == [s \in Slug |-> IF s \in Paths(a) THEN frag[s] ELSE staged[s]]

\* sop looks at its own path only.
NothingStaged(a) ==
    \A s \in IF IsWsCommit(job[a].op) THEN Slug ELSE Paths(a) : Added(a)[s] = head[s]

\* git add fails for what is neither there nor known; nothing staged is success;
\* git commit takes all that is staged.  The pull or the push may fail after it.
Commit(a) ==
    /\ job[a].at = "commit"
    /\ IF \E s \in Paths(a) : ~There(s) /\ staged[s] = Gone
       THEN Step(a, Fail(job[a])) /\ UNCHANGED <<head, staged>>
       ELSE /\ staged' = Added(a)
            /\ IF NothingStaged(a)
               THEN Step(a, [job[a] EXCEPT !.at = "over"]) /\ UNCHANGED head
               ELSE /\ head' = Added(a)
                    /\ \E ok \in BOOLEAN : Step(a, [job[a] EXCEPT !.at = "over", !.ok = ok])
    /\ UNCHANGED <<crew, frag, made, index>>

\* The command dies, or the commit itself fails, with the paths added or not.
Die(a) ==
    /\ job[a].at \notin {"idle", "over"}
    /\ staged' \in {staged} \cup (IF job[a].at = "commit" THEN {Added(a)} ELSE {})
    /\ Step(a, Fail(job[a]))
    /\ UNCHANGED <<crew, frag, made, index, head>>

Idle == [at |-> "idle", op |-> "reindex", slug |-> CHOOSE s \in Slug : TRUE, title |-> 0,
         text |-> 0, metas |-> {}, list |-> Blank, alone |-> FALSE, ok |-> TRUE]

\* Some of the fragments are there, indexed and committed.
Init ==
    /\ crew \in Crews
    /\ \E S \in SUBSET Slug :
          frag = [s \in Slug |-> IF s \in S THEN [name |-> s, title |-> 0, text |-> 1] ELSE Gone]
    /\ made = 1
    /\ index = [s \in Slug |-> frag[s].text]
    /\ head = frag /\ staged = frag
    /\ job = [a \in Actor |-> Idle]

Next ==
    \E a \in Actor :
        \/ \E op \in Op, s \in Slug : Begin(a, op, s)
        \/ \E s \in Slug : Remove(a, s)
        \/ LoadMeta(a) \/ Put(a) \/ Scan(a) \/ Inline(a) \/ WriteIndex(a) \/ Commit(a) \/ Die(a)

Spec == Init /\ [][Next]_vars

-----------------------------------------------------------------------------
\* sop, git: fragments, index, commits and commands keep to their types.
TypeOK ==
    /\ frag \in [Slug -> Fragment \cup {Gone}]
    /\ made \in Version /\ index \in [Slug -> Version]
    /\ head \in [Slug -> Fragment \cup {Gone}] /\ staged \in [Slug -> Fragment \cup {Gone}]
    /\ job \in [Actor -> Job]

\* DoWrite, DoNew, DoReindex and the console: a command that has succeeded
\* without another one in its way leaves an index that has the text of every
\* fragment as it is now, by the slugs in their headers.
IndexIsTrue ==
    \A a \in Actor : job[a].at = "over" /\ job[a].ok /\ job[a].alone => index = Inlined

\* apiSOPCreate, apiSOPUpdate: what the console has reported as done is in the
\* repository, as long as it is what the file has, whatever else is written,
\* staged and committed meanwhile.
ConsoleCommits ==
    \A a \in Actor :
        LET s == job[a].slug IN
        /\ job[a].at = "over" /\ job[a].ok /\ Commits(job[a].op)
        /\ There(s) /\ frag[s].text = job[a].text
        => head[s] = frag[s]
=============================================================================
