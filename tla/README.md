# starfleetctl: models and proofs

`starfleetctl` runs a fleet of AI coding agents ("ships") in one workspace. The
ships are processes of opencode or Claude Code; they talk over a bus made of
files, agree on names and pull requests through lock files, are woken by a timer
daemon, reach their models through a local HTTP proxy, and are told what arrived
on the bus by a plugin that runs inside each of them. Almost everything is a
short-lived process that reads some files, decides, and writes them back. So the
correctness of the whole rests on three things: what is under a lock and what is
not, what a process leaves behind when it dies between two file operations, and
what a long-running process still believes that has changed.

These modules model that, at the grain of single file operations and of the
points where a handler awaits. TLC checks them on small instances; TLAPS proves
the main safety properties for every value of the constants.

## 1. Inventory

Paths are under `src/`. "Hard" is what tests hardly reach.

| Part | State | Operations | Hard | Module |
|---|---|---|---|---|
| `internal/flock`, `withclonelock` | kernel lock, content of the lock file | Lock (polling, deadline, label), Close, run a command under the lock | order of unlock and truncate, crash of the holder, deadline against a change of holder | `Flock` |
| `internal/comms`: messages | `msgs/<ship>/{unseen,seen}/<id>.json`, temp files, `.seq` | post, ack, init, prune, purge | crash between renames, lost counter, cleaning by what the previous removal has left | `CommsBus` |
| `internal/comms`: status board | `status/<ship>.json` | status, touch, clear, exit, init, prune, health update | one unlocked read-modify-write beside seven locked ones; torn reads | `StatusFile` |
| `starfleet-dispatch.ts`: delivery | `submitted`, backlog, session, `pollRunning` | init, poll, hook at the start of a turn, commands | handlers interleave at each await; death loses memory, not the bus | `Delivery` |
| `starfleet-dispatch.ts`, `comms/error.go`: recovery | cooldowns, error buffer, chain of models | status poll, log monitor, session errors, policy, retry, switch, report | three detectors of one fault; answers that arrive late | `Recovery` |
| `internal/timer` | `var/timers/*.json`, `conf/timers/*.json` | set, cancel, clear, pause, resume, run now, worker pass | list, then act on the list; no lock | `Timers` |
| `internal/shipnames` | reservations, flagship | assign, reserve, release, gc | a reservation without a heartbeat counts as dead | `ShipNames` (with `Fleet`) |
| `internal/session` | PID files, pipes, stop markers | launch, supervise, stop, restart, respawn, autoscale | exit handler of an old process against a new launch | `Fleet` |
| daemons: `modelproxy/daemon.go`, `web/autostart.go`, `timer/worker.go` | PID file, port, signals | start, autostart, stop, restart, notify | two starters, stale PID, hung server, lost signals | `Daemons` |
| `internal/modelproxy`: requests | per provider: breaker, saturation; affinity; requests in flight | route, retry, re-route, stream, record | late results in a new breaker window, failure after the first byte | `ModelProxy`, `Breaker` |
| `internal/modelproxy`: health | `model-health.json`, catalogue cache | list, probe, write | one temporary name for all writers; old verdicts overtake new ones | `ModelHealth` |
| `internal/task`, `dashboard` | topic files, git | capture, assign, begin, log, progress, done, rm, purge, sweep-stale | read-modify-write without lock, failure after the first of two commits | `Task` |
| `internal/sop`, `wscommit` | fragments, generated index, git's index | write, new, create, update, remove, reindex, ws-commit | index made from what is being changed; shared index of git | `Sops` |
| `internal/prclaim`, `ghpr` | claims, clones, heads, runs of CI | claim, steal, release, checkout, amend-push, merge, cancel-stale, prune | stale claims, leases, head moves under a decision | `PullRequests` |
| `internal/bridged` | a socket, one environment | serve, run a command in the process | goroutines with one environment; stale socket removal | `Bridge` |
| `internal/bootstrap` | fourteen files and directories of a workspace | seventeen checks, each with verify and fix | interruption, a fix that breaks what an earlier check saw, user's content | `Bootstrap` |
| `internal/filestore` | file and `.meta` | put, upload, remove, prune | two files per entry without lock; the time as text | `FileStore` |
| `internal/reports` | `.eml` and older `.json` | submit, list, read, delete, rename old | conversion against deletion; a text that is parsed back | `Reports` |
| `internal/web`: settings | YAML files | save from the editor | merge of trees whose kinds differ; two pages | `Settings` |
| `internal/web`: the rest | none of its own | HTTP over the parts above | its handlers are further callers | in the modules above |
| ask/reply, monitor, attachments, telemetry, hook, ocsessions, worktree, config, logs, genesis, helpers, `cmd` | | | see section 9 | none |

What makes each part correct, in a line: **flock**: one process in the section at
a time. **Messages**: an id names one message, a post that returned is with everyone
it was for, nobody loses what it has not read. **Board**: an update never takes back
what another has just written. **Delivery**: every message reaches the model or is
executed, once. **Recovery**: a ship with an error is not left alone with it.
**Timers**: a timer is as its user left it, what is due fires, once if it is one-time.
**Ships**: a name belongs to one live ship, and comes free; a stopped ship stays
stopped. **Daemons**: what has crashed serves again. **Proxy**: an open breaker lets
nothing through, a request ends, no answer is spliced of two. **Health**: the verdicts
come to be true. **Tasks**: what a command reports as done is committed; a task whose
ship is gone is interrupted. **Instructions**: the index says what there is. **Pull
requests**: one agent works on a request; nothing is overwritten that was not seen.
**Bridge**: a command acts under its own name. **Bootstrap**: it repairs what it can and
keeps what is the user's. **Files, reports, settings**: what was stored, sent or saved is
there.

`PROJECT.json` lists every component with its status and, under "hazards", the
forty lines that matter most, each with the property that covers it. Section 8
names the further ones.

## 2. Modules and how they compose

    abstract            components                    side by side   proofs            checked by

    ExclusiveSection <- Flock  PullRequests  Bridge                  ExclusiveProofs   MCExclusive
                        Delivery                                     DeliveryProofs    (and MCDelivery)
    Mailbox          <- CommsBus  StatusFile                         CommsProofs       MCComms
    Breaker          <- ModelProxy  Recovery          ModelErrors    ModelProxyProofs  MCModelProxy
                        Fleet (of ShipNames)  Daemons Processes      FleetProofs       MCProcesses
                        Task  Sops  Bootstrap         Workspace      WorkspaceProofs,  MCWorkspace
                                                                     BootstrapProofs
                        Timers  ModelHealth  FileStore Files         FilesProofs       MCFiles
                        Reports  Settings

`ExclusiveSection`, `Mailbox` and `Breaker` are abstract specifications: `SectionSpec`,
`MailboxSpec` and `BreakerHolds` say that `Flock`, `CommsBus` and `ModelProxy` implement
them. `ShipNames` is a part of `Fleet`, which shares its state: launches reserve and
release names.

The other modules take from each other what is checked there. `CommsBus`, `StatusFile`
and `PullRequests` take from `Flock` that at most one process is inside and that a death
frees the lock. `Delivery` takes from `CommsBus` that a posted message is in the mailbox
until it is acked; the directives of `Task` and `Timers` are posts of `CommsBus`. `Timers`
takes its worker from `Daemons`, `ModelHealth` its loop, and `Recovery` speaks to opencode
about what `ModelProxy` answers.

`Workspace`, `Files`, `Processes` and `ModelErrors` put components side by side that share
no state but are of one kind: one module is extended, the others are instances with
variables and constants of their own, and what all of them promise is named there, so
that the runs check and the proofs state the same definitions. `MCExclusive` and `MCComms`
do so themselves, since `Flock`, `PullRequests`, `Bridge` and `Delivery`, and `CommsBus` and
`StatusFile`, have names such that one module can extend them all. In a run a
variable `active`, chosen at the start, says which of them moves, so that a run explores
the sum of their state spaces and not the product, and nothing is claimed about their
interplay.

Every module is written to be proved about as well as checked: constants with named
assumptions, an action per operation, no recursive operator. Definitions named
`<operation>_<slip>` are faulty variants of the definition that follows, used by no
specification: each is a slip that the property named beside it in `PROJECT.json`
("mutants") catches.

## 3. What the modules model

### Locks and claims: Flock, PullRequests, Bridge

`Flock` is one lock file (`flock.go`, `withclonelock.go`). The kernel's lock (`owner`) and
the content of the file (`file`) are separate variables since they live and die
separately: the lock goes with the process, the content stays. `pc` follows a process
through the polling loop (`Acquire`, `Expire`, `GiveUp`, `ReportHolder`: try first, look at
the clock second), the labelling (`TruncateForLabel`, `WriteLabel`) and `Close` (`Unlock`, then
`TruncateOnClose`). `Wrapper` processes are with-clone-lock: they label, run a child and
never clear. `Crash` may hit anywhere. `SectionSpec` is the refinement of
`ExclusiveSection`. Seen on the way: `Close` truncates after unlocking and may erase the
label of its successor (`flock.go:52` against the comment at `:34-36`), so a waiter that times
out may name nobody; the label of a dead process stays until the next labelled
acquisition; and when with-clone-lock alone is killed its command runs on without the
lock, since the descriptor is close-on-exec.

`PullRequests` is the claim registry under its lock, with the truncation and the write
of a claim apart, agent clones and the shared clone "repair", pr-checkout, pr-amend-push
with its lease, merge, ci-cancel-stale and ci-prune, against others who push, runs of
CI that start and end, and claims that grow stale. `ClaimsExclude`: two agents that were
told a request is theirs, and were not robbed of it by a theft or after an hour, do not
exist. `PushAmendsTip`: a push replaces the commit that was checked out to be amended and
no other, unless another command was at work in the clone since.
`TipKeepsRun`: neither CI command removes the run of the head of a branch, unless it
could not learn that head (`blind`) or the head is an old commit that a push out of a
shared clone has brought back (`replaced`). `Scan` reads the tips in one step, where the code
reads them one by one (`prunestaleci.go:138-150`): any of them may be unread, and the step
may come at any time. A push of the branch of a task, which another command has checked
out in the clone meanwhile, is left out of `Push`. Seen: nobody re-checks a claim before a push; a
reader without the lock may see a half-written claim as free; agents without a ship id
share `user@host`; the second fetch of pr-checkout can renew the lease under old work
when the checkout after it fails; a merge looks at the state before it merges;
ci-cancel-stale groups runs without a branch of their own by repository
(`cancelstaleci.go:177-190`), and ci-prune takes every failed lookup for a deleted branch
(`prunestaleci.go:235-253`).

`Bridge` is the daemon that runs commands in its own process: probe, removal of a dead
socket, listen, shutdown, and one goroutine per connection that takes a mutex, sets
`STARFLEET_SHIP_ID`, runs and restores. `IdentityIsOwn`: a command acts under the name of
its request, or the daemon's own. Seen: a client gives up after thirty seconds while
its command runs on; two starters can remove each other's socket, and a shutdown
unlinks whoever listens at the path.

### The bus: CommsBus, StatusFile

In `CommsBus` a message file is the number of the post that wrote it; its name is
`idOf[post]`, and files of one name overwrite each other. Operations under the bus lock
are cut at each file operation that another process could observe after a death: `.seq`
truncated and written, one temp file per recipient, one rename per recipient, one ack,
one removal. `op` is the operation that holds the lock; `Crash` frees it and leaves the
files. `DoInit`, `DoPrune` and `DoPurgeOld` list first and decide on each file when they
reach it, newest first, as the code does. `HealthUpdate` is the one that takes no lock; it is one step here (in `StatusFile` it is
not), so a status that is torn when a prune reads the board (`health.go:477`, `records.go:173`),
and a live ship taken for gone for it, is outside what `UnreadIsKept` says.
`Clear` stands for every removal of a status file. Properties: `IdNamesOneMessage`
(files of one id are copies of one message, whatever crashed, was pruned, or was lost
of `.seq`), `PostReaches`, `UnreadIsKept` (no cleaning takes what a live ship has not read),
`MailboxSpec` (each copy goes none, unread, read, removed, never back). Seen: `DoInit`
removes one copy of a broadcast that all have read, which counted as that ship's ack,
and so keeps the other copies for ever (`commands.go:519,526`); after a purge of the
highest ids and the loss of `.seq` an id is used again, harmless for the files but not
for ids remembered elsewhere; a failed rename leaves a partial delivery and an error,
so "atomically" (`commands.go:159,187`) holds per recipient; a prune drops unread
directives of ships that are not live; `InboxCounts` counts temp files.

`StatusFile` is one status file and every writer of it, cut at lock, read, truncate,
write, remove and unlock. A writer merges what it has read with its own fields
(`Merged`); a file that was truncated reads as `Torn`. `DoHealthUpdate` takes no lock; with
`--touch` it goes on into `DoTouch`, which does; `DoExit` calls it under the lock.
`LockedReadsLast` and `PruneIsRight`: a locked update starts from the current content, and
a prune removes what is stale, unless `DoHealthUpdate` wrote in between (the ghost
`writer`). So what is lost on the board is lost to that one call (`health.go:298`, against
`doc/architecture.md:58`), which also drops the record's Class and Toast.

### The plugin: Delivery, Recovery

`Delivery` is the dispatch plugin of one ship and the ship's copies of its messages. The
plugin is single-threaded, so a step is what runs between two awaits. `ListInbox`, `Handled`,
`Accept`/`ClaimInjected` or `Reject` are the parts of `poll`; `BeginTurn` and `GoOn` those of the
hook at the start of a turn; `Load` is the start of the plugin with its `init`, which marks the
whole inbox as seen and returns it as a backlog; `ProcessDies` loses `submitted` and the
backlog but not the files. A call of the bus may
be killed by its five seconds (`Mark`, and the second half of `Load`); a prompt may be
rejected, and always is without a session. `Runs(m)` is the decision of handleMessage:
execute, or leave to the model. `NotStranded`: what is claimed was done, or a turn has it
in hand, or a death took it. `OnceOnly`: nothing is done twice, unless a turn took what a
poll had listed or the process died between deed and mark (the ghost `again`).
`EachReaches`: in the end every posted message has been dealt with, even if no user ever
starts a turn. Left
out: heartbeats, titles and identity text, an agent's own `comms ack`, prunes by other
ships. Assumed: opencode passes the session to the hook, as the comment there says.

`Recovery` is the same plugin when a model fails. An error is the set of marks by which
the regular expressions tell errors apart. The status poll, the log monitor and
`session.error` detect; the policy of `comms/error.go` answers; `Execute` retries, clears and
switches the model, or reports. `NotLeftParked`: as long as an error for which there is
an action keeps the session parked, requests for it go out, again and again, whatever
polls overlap and whatever is refused. Seen: the clear and the prompt
of a retry are not awaited and one may overtake the other; the event of the clear itself
resets `hasSwitched` in the middle of a switch; the log monitor never recognises a line it
has reported (it stores text and tag, and compares the text), so an old line is reported
again while it is among the last eighty; "stream interrupted" matches the expression for
a user's abort and is ignored; the tag quota can never result, as its mark is also that
of limit; one abort among several aggregated errors suppresses them all. The entry
`comms error handle`, which the plugin no longer calls, is not modelled.

### Models: ModelProxy, ModelHealth

`ModelProxy` is a chat request from its routing to its answer: the four strategies,
retries, re-routes, the saturation gate, the hold with keepalives, streams that fail
after their first byte, breakers per model, session affinity, the operator's switches.
The rates that `checkCircuitBreaker` compares are a choice; which strategy is used is
chosen at the start. `BreakerHolds` is the refinement of `Breaker`: a tripped
breaker keeps its model out of rotation for a whole cooldown, then it is on probation,
and only from there is it closed. `NoSplice`: a client that has read content is told of
the break before another attempt begins. `RequestEnds`, unless breakers go on cooling down
while a request goes round, since each re-route gives it its attempts anew. Seen: a stream that hangs is
never ended, against the comment at `proxy.go:1309`; a stream whose last attempt fails is
recorded as a success and closes a half-open breaker (`:1671-1673`), and so does a failed
read of the body (`:1682`); a client that goes away opens the breaker; a success never
judges the breaker; a JSON error may follow in a committed stream, and `[DONE]` twice; the
"sort by priority" of the fallback does not sort; a success that was under way clears the
saturation another request has recorded (`:1791`); a direct request with a single attempt
falls through to 502.

`ModelHealth` is `check.go` and its callers: the proxy's loop, the console, the timer and
the command line. A check takes the catalogue (from the cache of a minute or from the
provider), lists, probes with retries, and writes through one temporary name. A writer
keeps its file open while the name moves on, so a rename may give the name to another's
half-written file. `FileCatchesUp`: if the provider stays as it is and nobody else checks,
the file comes to say what the provider does, whatever overlapping writers have left.
Seen: "persists atomically" (`check.go:116`) holds for one writer; an older report may
overwrite a newer one; a failed listing empties the catalogue for a minute and the
file; a busy answer to the capability probe counts as "no tools"; the loop uses the
configuration of its start.

### Processes: Fleet with ShipNames, Daemons

`Fleet` launches ships from the web daemon and from commands: the check whether the name
runs, the reservation, the fork, the PID file; the supervisor with its boot and exit
handler; stop, restart, respawn and kills; the end of the web daemon, which is the
parent of what it launched. A stop is cut as the code is: `SetMarker`, `OpenPipe`, `Tell`, then
`LookAtPid` and `DropPid`; it may be cut off anywhere (`CutOff`), and everything else goes on
between its steps. `ShipNames` assigns names from a pool by reservations and
heartbeats, reclaims those of the dead, and collects. `OneShipPerName`: two ships run
under one name only if one was started by a way that does not look, two launches had
both looked before either was recorded, or a stop removed the PID file of the first (the
ghost `doubled`). `StopIsHonoured`: a ship
stopped through its pipe is not reported as crashed when it ends, unless the name was
doubled or the exit handler of an earlier ship took the marker between the first two
steps of that stop and no stop has set it again (`robbed`). That this last case is real is
finding 3 of section 7, `MarkerTellsStop`. `NamesComeFree`: the name
of a ship that is no more can be assigned again, unless its last heartbeat said idle. Seen: the exit handler clears the stop marker, so
that a respawn restarts stopped ships (`launch.go:1423`, `autoscale.go:255-256`, `:333`); the
cap of the autoscaler never holds, as `fleetCounts` reads `.tsv` heartbeats that nobody
writes any more (`autoscale.go:159`, `:300`), and gc releases the reservations of live ships
for the same reason (`shipnames/commands.go:374`); two ships assigned one after the other,
both before their first heartbeat, get one name (`:181`); a stop during boot leaves a
marker and a running ship; a zombie with a PID file keeps its name "running"; a restart
may kill a remembered child whose name another launch has taken; a stop removes a PID file
that a launch has written since it looked (`launch.go:972-973`). Left out: the spare
name of an empty pool, the shell's trap, the flagship's reservation, transcripts.

`Daemons` is the life of the web server, the proxy and the timer worker: `Start` and
`Autostart` with their probes, PID files that are written by the parent or the child,
ports that belong to this workspace or to another, `Stop`, `Restart` and notify with their
signals, and processes that boot, serve, hang, close and die. The number of a dead daemon
that is still in the PID file may answer again (`Reuse`): for a stranger, or for the zombie
that the web server keeps of a worker it has started and never waits for (`web.go:2346`).
`ServesAgain`: with cron repeating autostart, a daemon that is gone serves again, whatever
the commands did, unless another hangs on its port or, for the worker, the number in the
PID file answers for somebody else. Neither exception is an approval. A web server that
hangs fails the probe and is, against the comment, not replaced: finding 5,
`HungIsReplaced`. A hung proxy is never noticed, since its probe is a TCP connection. And a
worker whose number was reused, or was left to a zombie, is not started again as long as
that number answers (`worker.go:143-150`). Seen: the
PID file may be overwritten with the pid of a child that lost the race for the port, so
that a later Stop kills nothing; two timer workers can run (`worker.go:52`), and one that
closes removes the other's PID file; a SIGTERM behind a pending SIGHUP is dropped, as the
channel holds one (`:85`), and a SIGHUP before `signal.Notify` kills; StopWorker and
NotifyWorker do not ask, as the other stops do, whether the number is a starfleetctl's, and
signal a stranger. Left out: a number in a PID file that a new daemon of this workspace gets.
`RestartComesBack` is finding 4 of section 7.

### Files of the workspace: Task, Sops, Bootstrap

`Task` has topics, each a file and its state in git. A command loads, writes (truncating),
and commits, with capture, assign and move committing in several steps and a directive
to the ship at the end. The console, a ship and the sweeping timer act at once;
commits fail and processes die. `NothingUncommitted`: what differs from
the last commit is still to be committed by a command under way, or by one whose commit
failed or that died before it, or was written again where a move had taken it away: the
commit of a move runs `git rm --cached` on the old path whatever is there
(`Unlisted`, `topic_commands.go:250`), which leaves a topic that another command has
recreated on disk and out of git. `StuckIsInterrupted`: a task does not stay with a ship whose
heartbeat has expired. Seen: load and write are not one step, so updates are lost, a removal can be undone
and a purge delete a re-opened topic; capture returns when its commit fails and never
tells the ship; sweep-stale judges by the board it read at its start and may interrupt
a task that is done or reassigned; ships that died idle are never stale; `DoTopicMove`
overwrites; `git commit` without a path takes the whole index. Left out: what a
`git pull --rebase --autostash` does to the files while it runs (`topic_commands.go:142`,
`:229`, `:267`).

`Sops` has the fragments of the standing instructions, the index generated from them, and
git's index: write, misname, new, create, adopt, update, remove, reindex, and the two
ws-commits, by a ship and the console. A reindex scans, inlines and writes in three
steps; a commit is one step under the lock; a death may leave paths staged.
`IndexIsTrue`: a command that has succeeded with no other in its way leaves an index with
the text of every fragment. `ConsoleCommits`: what the console reports as done is in the
repository, as long as the file has it. Seen: a fragment whose header names a slug
that leads nowhere breaks every later reindex (against `fragment.go:177-178`); racing
reindexes do not converge, the older list may be written last; adopting looks for the
program's own fragments in another directory and overwrites; the generated index and the
program's own fragments are git-ignored, so that `git add` of them fails.

`Bootstrap` has the seventeen checks in their order over the contents they tell apart:
the content of a file is a set of entries, "user" among them. A run verifies, fixes and
verifies again, file by file; runs are interrupted, run side by side, and files are
edited meanwhile. `RepairSuffices`: after a run that was alone and finished, everything
is in place that can be. What cannot is `Hopeless`: a torn project.yaml or settings.json,
permissions without the pattern the fix looks for, no .gitignore. `UsersAreKept`: what is
the user's is still there, except in an `opencode.json` that did not parse, for plugin
entries that are no strings, and where a scalar stands in the place of a map (which
"never overwriting explicit user values", `checks.go:853-854`, does not except). Seen: a missing index gets a bare header;
an empty project.yaml or web.yaml counts as present; a fresh checkout fails the hook
check; `DoInstallStarfleet` deletes the user's files in its directory; a misnamed fragment
makes the reindex fail.

### Other files: Timers, FileStore, Reports, Settings

`Timers` has timer files in two directories, clients and one worker. A command is get,
then delete or truncate and write; the worker's pass is list, then fire and advance or
delete each due timer *from the list*, which is read in one step, each file as it is
then. Ghosts: `asked`, what the last command on a file
wanted; `disturbed`, somebody acted on a content that had changed since it was read, or
died between; `fires`. `UserWins` and `OnceFiresOnce` hold for every undisturbed file, so the
races of this unlocked store are exactly the outdated rewrites: a cancelled timer that
the worker was advancing comes back (`worker.go:287` against the promise of `run.go:48`), and a
pause is undone. `DueFires`: a due timer is fired, changed, or the worker is not running.

`FileStore` is Put, upload, Remove and Prune over a file and its `.meta`. `ExpiredIsPruned`
is finding 6, and since nothing ever expires there is little else to say of it: only a
client that works on the same name takes or tears what is stored, which is so by the
shape of the code, and only the types are checked and proved. Seen: an upload needs the file to exist already (against `doc/reports.md:143`)
and stores it as `stf-upload-<name>` while answering with the name.

`Reports` are mails: submitted, listed, read, deleted, converted from an older JSON form,
from commands and the console. A file is what `Write` makes of a draft, line by line in
kind only (text, header, empty), and what the parser makes of that. `ReportReadsBack`: a
report that is there is whole and reads as it was sent, but for commas in tags and empty
lines at the end, if its subject is one line. `DeletedIsGone`: what was deleted does not
return by a conversion that was under way. Seen: reading an old report fails while
the list shows it; temp files of a dead process stay; an older text that looks like
headers is read as a mail.

`Settings` is the console's save of a settings file: parse what there is, merge the
text's tree into it, write. `SaveTakesEffect`: a save that nobody has crossed puts the page's
values into the file, beside the comments and keys that the text does not have, except
where the kinds of values differ: a word that is replaced by a list or a mapping is saved
as an empty one, since the node that is made of it has no content (`web.go:2119-2127`, against
"It replaces the content", `:2038`). Seen: a key deleted in the text stays, edited comments are discarded, an empty file cannot be
saved.

## 4. Runs

| Run | Instance | What it shows |
|---|---|---|
| `exclusive` | two labelled users with timeouts and with-clone-lock; agents a and b, two requests on one branch, one shared clone, at most 4 commits and 2 runs of CI, one agent cancelling runs while the other amends and pushes; two bridge servers, two requests; two messages, two polls, a turn, with one death, one killed call, one rejection | `SectionSpec`, `ClaimsExclude`, `TipKeepsRun`, `PushAmendsTip`, `IdentityIsOwn`, `NotStranded`, `OnceOnly`, `EachReaches` |
| `comms` | "store": two ships, one post, one tick = TTL, failing writes; "names": two posts, everybody idle; "status": two processes, one tick = TTL | `PostReaches`, `IdNamesOneMessage`, `UnreadIsKept`, `MailboxSpec`, `LockedReadsLast`, `PruneIsRight` |
| `model_failures` | two clients, two models, two failures to trip a breaker; two overlapping polls, four sets of errors | types, `NoSplice`, `BreakerHolds`, `RequestEnds`, `NotLeftParked` |
| `processes` | one name, web launcher and a command, two processes, and beside launches by commands a stop; three pids, cron and a hand, six crews of commands | types, `OneShipPerName`, `StopIsHonoured`, `NamesComeFree`, `ServesAgain` |
| `workspace` | a ship, the console and the sweeping worker on two topics; a ship and the console on two fragments; one bootstrap process that runs twice, one edit, one crash, over fresh and furnished workspaces with one oddity | types, `NothingUncommitted`, `IndexIsTrue`, `ConsoleCommits`, `RepairSuffices`, `UsersAreKept`, `StuckIsInterrupted` |
| `files` | timers: two clients, worker, one name, a one-time and a fleet timer, two commands, one tick; health: the loop and a checker that does not probe, two models, three worlds, one change; store: one name, two clients; reports: two new, one old, four drafts; settings: two keys, two pages, three saves | types, `UserWins`, `OnceFiresOnce`, `ReportReadsBack`, `DeletedIsGone`, `SaveTakesEffect`, `DueFires`, `FileCatchesUp` |
| `delivery_inject` | one message | violation of `CommandsAreNotInjected` (finding 1) |
| `plugin_silent` | the plugin of `model_failures` | violation of `NoErrorIsSwallowed` (finding 2) |
| `fleet_stop` | one name, two launchers, two processes, a stop | violation of `MarkerTellsStop` (finding 3) |
| `daemons_api` | the web server, its restart button, no cron | violation of `RestartComesBack` (finding 4) |
| `daemons_hung` | the web server, cron | violation of `HungIsReplaced` (finding 5) |
| `store_expiry` | the store of `files` | violation of `ExpiredIsPruned` (finding 6) |

The types of every component are proved for every instance (section 6); the runs of
`exclusive` and `comms` do not repeat them, the others check them of all their
parts at once (`TypesOK`). Deadlock is checked in `comms`; elsewhere every
actor may be done or dead, and the system rightly stops.

Why the bounds are enough:

- Two processes and a third that dies or waits is what each of these races needs. A
  second message is needed where one message's number or file may be taken for
  another's ("names") or where a list is worked through while it changes (`Delivery`); a
  second ship where one copy decides about another ("store").
- Clocks count in units of the one duration that matters: fresh and stale are all that
  is told apart. Age matters to one message only and a second message to its id only,
  hence the two parts of the store.
- Crews, in `exclusive`, `processes`, `workspace` and `files`, are the combinations of commands
  that work on the same thing; any two commands not in one crew touch different state.
  What they leave out is more than two commands of one actor on one thing.
- In the timers of `files` the two commands are a set and a pause or cancel against the pass; any
  number of them is covered by the theorems.
- The breaker trips after two failures instead of three, and requests are not retried
  within an attempt (`MaxRetries` 0; re-routes are in): a third failure or a retry adds
  length and no new state of the breaker.
- `Bootstrap` starts from contents with at most one oddity, since each check reads one or two
  files; debris of a crash is added by the run itself.
- Messages, names, texts, ids are model values or members of small sets. Crashes are
  unbounded but in `Delivery`, `ModelHealth` and `Bootstrap`, where one is allowed: enough to lose
  memory once and to meet what it left.

In `exclusive` only the branch of p1 moves where an agent cancels runs (`OneBranchMoves`), and
the second poll begins only beside the first (`InOrder`), since the two are alike. Two
requests that both move are looked at in the crews without a cancel.

In `processes` there is a stop beside one launch by a command and the ends of its ships,
in a part of its own ("stops"); launches of all other kinds are in the part without it.

Symmetry is used in `comms` only, which has no liveness property: of the two ships, which
differ in nothing, and of the two processes.

## 5. Fairness

Nothing makes a process call anything, crash, or start a turn. What is fair, and why:

- `Timers`: only the worker is driven, by its two-second poll (`worker.go`); clients may stop
  anywhere.
- `Delivery`: the poll timer fires while the plugin is loaded, what is awaited arrives, and a
  ship that has died is started again by its restart loop. Strong fairness says that the
  session is found sooner or later, since opencode creates it with the first turn and the
  plugin asks on every poll.
- `Recovery`: the interval timer asks (weak) and opencode answers now and then although
  single polls fail (strong); the cooldown's `setTimeout` ends. The requests it sends need
  not arrive.
- `ModelProxy`: the goroutine of each request goes on, and each breaker's cooldown passes.
  That a stream which hangs ends is left to the upstream and the client: nothing in the
  proxy does it.
- `ModelHealth`: the ticker goes on, requests have timeouts, the minute of the cache passes.
- `Fleet`: launches and processes run on once begun, and heartbeats grow old.
- `Daemons`: cron repeats autostart, commands and processes go on, and disturbances
  (crashes, hangs, foreign stops) end at some time.
- `Task`: the sweeping worker runs, and does not die for ever.

## 6. Proofs

All theorems are for arbitrary constants under the modules' named assumptions:
distinctness of the "nobody" values, naturals for the bounds, some sets finite, the
inputs of the right type. The assumptions of `StatusFile`, `PullRequests` and `Bridge` are
stated in each theorem and assumed by the MC modules for their instances; the others are
`ASSUME`s of the modules or of those that put them side by side. A theorem about a
component that is an instance (`S!Spec`, `B!Spec`, `F!Spec`, ...) is about that component
alone; the theorems about `TypesOK` are of all of them.

| Module | Proved besides types | The invariant, and why it is needed |
|---|---|---|
| `ExclusiveProofs`: locks | `MutualExclusion`, `NoForeignLabel`, `SectionSpec` | `OwnerHolds` and who a label may name: exclusion itself says nothing about who the kernel thinks holds the lock. Every step is a step of `ExclusiveSection` or a stutter. |
| the bridge | `IdentityIsOwn` | A command under way holds its server's mutex, found no name in the environment and put its own there (`CommandsHold`); what is queued is queued at a server; a free mutex means a restored environment (`EnvRestored`). |
| claims | `ClaimsExclude` | Who works on the registry holds its lock (`LockHeld`); an empty claim file is nobody's yet (`NobodysYet`); who was told has the claim (`HoldersClaim`); what a writer is about to say (`InHand`). |
| pushes | `PushAmendsTip` | In an uncrossed clone the tracking ref is the commit checked out (`LeaseKnown`), and what is about to be pushed is the branch it is on (`PushesOwn`): the property speaks of the one, the lease of the other. |
| runs of CI | `TipKeepsRun` | Commands judge by lists and tips of then. What carries over is that a commit once replaced is so for ever: a run began at a tip (`RunsHadTips`), the earlier of two runs of a branch is of a replaced commit (`BornInTurn`), and a tip read after the list speaks only against such runs (`JudgedRightly`). |
| `CommsProofs`: messages | `IdNamesOneMessage`, `PostReaches` | Files come from posts already counted; the id of the post under way belongs to no other file (it was free when chosen, and the lock is held since); recipients already renamed have their copy; what init is about to ack is unread. |
| | `MailboxSpec`, `UnreadIsKept` | Each step moves each copy at most one stage on (`FateInv`): a copy is in one directory (`OneFate`), what the post under way has not renamed was never there (`NotSentYet`), what a cleaning has listed is still where it was listed, as nobody else has the lock (`ListedIsThere`, `PurgeListed`). |
| the board | `LockedReadsLast`, `PruneIsRight` | Who is past its lock holds it; what is known of the file between read and truncate, with `writer` for the exception. |
| `DeliveryProofs` | `NotStranded`, `OnceOnly` | A process that is down has no memory; handlers work on posted messages; who has a message in hand (`OnceInv`): one poll runs at a time, its lists are disjoint, what a turn has still to do is pending or was claimed meanwhile. |
| `ModelProxyProofs` | `NoSplice`, `BreakerHolds` | A request that may try again owes its client nothing (`NothingOwed`). For the refinement, per step: every breaker makes a step of its own or rests (`KeepsPromise`, `AllKeep`), since one step may move several. |
| `FleetProofs` | `OneShipPerName`, `StopIsHonoured` | Two launches of one name have doubled it (`OneLaunch`); a launch that looked found nobody, and still nobody is there (`LookedInVain`, `ForkedAlone`); whoever is up is in the PID file, unless doubled: so that the next to look will see it. For the action property: a stop has in hand a ship of its name (`StopBound`), its marker is there until it tells that ship, unless it was robbed (`StopMarked`), and a ship that was told has its marker until its exit handler reads it (`ToldIsMarked`). |
| `WorkspaceProofs`: tasks | `NothingUncommitted` | A command's list has the file it is about to write (`Remembered`), and a command in its last stages has a topic in hand (`InHand`); what the commit of a move takes out of git is gone from the disk or has lapsed. |
| instructions | `IndexIsTrue`, `ConsoleCommits` | What an undisturbed command knows of the fragments is what there is (`KnowsTheFragments`); what it staged or found unchanged stays so (`StaysStaged`); texts are new when written (`WrittenBefore`). |
| `BootstrapProofs` | `RepairSuffices`, `UsersAreKept` | `RepairInv`, in the terms of a run that is alone: the checks that are past pass, or cannot be repaired (`PastOK`); each later fix keeps what an earlier one brought about (`Stays`); within a check, the files done are as they should be (`Progress`). Behind it are lemmas about the checks themselves: a fix improves what it touches (`FixesImprove`), no fix undoes an earlier check (`EarlierStay`), only what a loss is named for is lost (`FailsLost`). |
| `FilesProofs`: timers | `UserWins`, `OnceFiresOnce` | The shape of each operation (`ShapeInv`) and, for each undisturbed file, what its content and a pending rewrite of it agree on (`CalmInv`). |
| reports | `ReportReadsBack`, `DeletedIsGone` | Ids under way are nobody else's (`IdsAreFresh`), a report has one file (`OneForm`), what was deleted has none (`DeletedOnce`); and, of the operators, that what `Parsed` makes of `Formatted` is the draft but for empty lines at its end. |
| settings | `SaveTakesEffect` | What an uncrossed save has read is what it merges into and what is there when it ends (`SavesAlone`). |

Each proof that a step preserves the invariant has one step per action. Facts about
finite sets (`FS_...`) and functions come from the library. Every invariant was checked by
TLC on a small instance before it was proved.

Attempts at proofs have corrected the models where no run had shown it: `PushAmendsTip` held only
for want of a fifth commit, as it also spoke of pushes by others (it is now about the
step of the command); `TipKeepsRun` held only because no run had a command that
amends beside one that cancels; arms of `CASE` overlapped in `Bootstrap`'s `Fixed` and in
its two fixes of the settings, where TLA+ leaves open which is meant; an edit of a file
in a directory that is gone has to make the directory; the index of `Sops` has the text
of a fragment whose slug is in *some* header; and of several header lines the last
counts, by its place.

Only model-checked:

- liveness (`DueFires`, `EachReaches`, `NamesComeFree`, `ServesAgain`, `StuckIsInterrupted`,
  `RequestEnds`, `NotLeftParked`, `FileCatchesUp`), which needs fairness and ENABLED: out of the
  prover's reach;
- what the runs of section 7 refute.

Every other property of every run is proved. Of `Daemons`, `Recovery` and `ModelHealth`, whose
promises are liveness, only the types are.

Recursive definitions and induction over data are out of reach as well; no module that is
proved about needs either.

## 7. Promises that do not hold

Each of these runs checks one property that states what a comment of the code says, and
TLC shows the trace that breaks it. `PROJECT.json` ("findings") quotes both sides.

1. `delivery_inject`, `CommandsAreNotInjected`: a command that came while the ship was down is
   put before the model as text, since the backlog that `init` returns has no types
   (`starfleet-dispatch.ts:652`, against the comment at `:285`). Executed commands, which the poll
   never marks, come back the same way.
2. `plugin_silent`, `NoErrorIsSwallowed`: the answer "retry" to the report of a session error is
   dropped, and the flagship was spared because the ship "will simply resume"
   (`starfleet-dispatch.ts:926`, against `comms/dispatch.go:394`).
3. `fleet_stop`, `MarkerTellsStop`: a stop writes its marker, and then opens the pipe; the exit
   handler of an earlier ship of that name takes the marker in between, and the ship that is
   told to stop is reported as crashed when it ends (`launch.go:944`, against `:941-942`).
4. `daemons_api`, `RestartComesBack`: the console's restart kills the process that runs it
   before it starts another (`web.go:1353`, against `:1338` and `:1350`).
5. `daemons_hung`, `HungIsReplaced`: a web server that hangs fails the probe, but keeps the
   port; what autostart starts in its place cannot bind it and ends, every minute again
   (`autostart.go:57`).
6. `store_expiry`, `ExpiredIsPruned`: the expiry time is written with a newline, with which it
   cannot be parsed, so nothing expires (`filestore.go:162`, against `:106`).

Other disagreements between code and text were met on the way and are named under
"Seen" in section 3; the models contain the code's behaviour, and the properties are
worded around it.

## 8. Further hazards

Beyond the forty of `PROJECT.json`, these lines bite too; the models contain them unless a
reason is given:

- locks and bus: `flock.go:52` and `:84` (truncation around the label), `health.go:298` and `:478`
  (unlocked rewrite, in pieces), `comms/commands.go:44`, `:174` and `:1004` (counter, partial
  delivery, prune by liveness); `comms/commands.go:1241` (ask gives up while the reply is being
  posted; not modelled).
- plugin: `starfleet-dispatch.ts:711`, `:733`, `:761`, `:770`, `:834` (lists, claims and marks around
  awaits).
- timers: `worker.go:287` for a pause as for a cancel; `types.go:89`; `worker.go:182` (system commands
  run without a limit and overlap the next fire) and `:210` (a directive that could not be
  posted is only logged), not modelled; `run.go:382` (Create looks for duplicates in one
  store only) and `:772` (an interval below a second becomes zero), not modelled.
- ships: `shipnames/commands.go:23` (the flagship is looked up, then written; not modelled),
  `:181`, `:374`; `launch.go:837`, `:1442`; `autoscale.go:159`, `:300`.
- daemons: `timer/worker.go:85`, `web.go:1353`, `bridged/server.go:290`.
- proxy: `proxy.go:383` (affinity across strategies), `:527` (a slow request reports into a new
  window), `:1309`.
- workspace: `bootstrap/checks.go:819`, `sop/commands.go:156`.

## 9. Not modelled, and what is left

Not modelled, with the reason:

- **Ask and reply** (`AskAndWait`): polls the mailbox until a deadline; the store is in
  `CommsBus`, the loop keeps no state that others see.
- **Monitor and watch**: print what is unread and on the board; they change neither.
- **Attachments and the migration of broadcasts**: a file copy and a conversion done once.
- **Timer system commands**: a fired system timer is a `Fire` like any other; what the verbs
  do is in `ModelHealth`, `Task` and `Daemons`.
- **Telemetry and hook**: lines appended to a log, permission answers without memory.
- **ocsessions, opencode**: read a database that is not theirs.
- **worktree, config, projectconfig, envkeys, identity, services, fsutil, jsonutil, util, logs,
  logscan, cmd**: wrappers, parsing, dispatch; where a helper matters (an unsafe rewrite) it
  is part of the caller's model.
- **genesis, selfinstall, templates**: create a workspace and a binary once.
- **GitHub views, labels, comments, job logs, make-pr, backport**: requests to a server, which
  keep nothing here.
- **Two bootstraps at once**: they are modelled, but nothing is claimed of a run that another
  has disturbed.

Within the modelled parts, text (of messages, labels, errors, cron expressions, tasks) is
left out where no property depends on it; a component's note in `PROJECT.json` says what.

Left to do, in this order:

1. Steps towards the liveness properties that are within the prover's reach: for `Daemons`
   and `ModelHealth`, what each step leaves of the distance to the goal.
2. `Timers` under the worker's life of `Daemons`: "fires once" with two workers, which the code
   does not promise, and the condition under which it holds.
3. Ask and reply over `CommsBus`: a reply that is posted is not lost to a question that has
   given up.
4. The flagship's reservation and the spare names in `ShipNames`.
