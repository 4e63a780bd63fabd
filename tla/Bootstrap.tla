------------------------------ MODULE Bootstrap ------------------------------
(***************************************************************************)
(* "starfleetctl bootstrap [--fix]": an ordered list of checks, each of    *)
(* which looks at a few files of the workspace and, where it is not        *)
(* satisfied, creates or edits them.  Some of the files are the tool's     *)
(* own, others (.claude/settings.json, .opencode/opencode.json, the        *)
(* .gitignore files, the configuration) are the user's and are edited in   *)
(* place.  No lock is taken: sessions and other bootstraps go on           *)
(* meanwhile, and a file is empty between its truncation and its write.    *)
(***************************************************************************)
EXTENDS Naturals, Sequences

CONSTANTS
    Runner,     \* processes that run "bootstrap"
    MaxRun,     \* bound: runs started
    MaxEdit,    \* bound: edits by the user and other sessions
    MaxCrash,   \* bound: runs killed
    Finds       \* what a workspace may hold: a set of [File -> content]

(* The content of a file is the set of the things in it that the checks or *)
(* its owner care about:                                                   *)
(*   absent    no such file           torn      it does not parse, or it   *)
(*   template  what bootstrap writes            has been truncated         *)
(*   current   the files of this      old       files of earlier versions, *)
(*             binary                           under names now dropped    *)
(*   user      what the user has put  misnamed  a fragment whose slug does *)
(*             there                            not lead back to it        *)
(* In settings.json: array, the text `"allow": [`; other, that text in     *)
(* front of that of the permissions; confirm, the hook that the new one is *)
(* put behind.  In opencode.json: plugin, schema, index and rules, which   *)
(* bootstrap adds; odd, entries of "plugin" that are no strings; legacy,   *)
(* paths of earlier versions; scalar, a value such as "bash": "ask" where  *)
(* the rules' map would be; ask, the user's own answer to one of the rules.*)
Gone == {"absent"}

Entry ==
    {"absent", "torn", "template", "current", "old", "user", "misnamed",
     "array", "other", "allow", "confirm", "hook", "header", "full", "plugin", "odd",
     "schema", "index", "legacy", "rules", "scalar", "ask", "entries"}

\* Sets of installed files count as one file.
File ==
    {"project", "settings", "index", "fragments", "skills", "plugins", "package",
     "opencode", "oscripts", "cscripts", "hooks", "ignore", "web", "gitignore"}

Json == {"settings", "opencode", "package"}

\* What there is is not absent, and the index of the instructions is nobody's.
BootstrapAssumption ==
    \A d \in Finds :
        /\ d \in [File -> SUBSET Entry]
        /\ \A f \in File : "absent" \in d[f] => d[f] = Gone
        /\ d.index \subseteq {"absent", "header", "full"}

VARIABLES
    disk,       \* content of the files
    dirs,       \* directories that are there
    run,        \* what each runner is at
    left        \* runs, edits and crashes still to come

vars == <<disk, dirs, run, left>>

\* Directory that a file lies in; the other files make theirs.
Home == [settings |-> "claude", opencode |-> "opencode", package |-> "opencode",
         ignore |-> "starfleet", gitignore |-> "root"]

Directory == {"root", "starfleet", "conf", "bus", "sop", "bin", "claude", "hooks",
              "opencode", "plugins"}

-----------------------------------------------------------------------------
(* checks.go. *)

\* The plan agent's rules are added first, while .opencode may be missing.
Checks_PlanFirst ==
    <<"project", "dirs", "plan", "allow", "hook", "index", "fragments", "skills",
      "plugindir", "plugins", "oscripts", "cscripts", "hooksdir", "hooks", "ignore",
      "web", "gitignore">>

\* Checks: the order matters, a fix relies on the directories of earlier ones.
Checks ==
    <<"project", "dirs", "allow", "hook", "index", "fragments", "skills", "plugindir",
      "plugins", "plan", "oscripts", "cscripts", "hooksdir", "hooks", "ignore", "web",
      "gitignore">>

Check == {Checks[i] : i \in 1..17}

\* The files that each fix writes, in its order.
Steps ==
    [project |-> <<"project">>, dirs |-> <<>>, allow |-> <<"settings", "settings">>,
     hook |-> <<"settings">>, index |-> <<"index">>, fragments |-> <<"fragments", "index">>,
     skills |-> <<"skills">>, plugindir |-> <<>>,
     plugins |-> <<"plugins", "package", "opencode">>, plan |-> <<"opencode">>,
     oscripts |-> <<"oscripts">>, cscripts |-> <<"cscripts">>, hooksdir |-> <<>>,
     hooks |-> <<"hooks">>, ignore |-> <<"ignore">>, web |-> <<"web">>,
     gitignore |-> <<"gitignore">>]

\* The directories that each fix makes.
Mkdirs ==
    [project |-> {"starfleet", "conf"}, dirs |-> {"starfleet", "conf", "bus"},
     allow |-> {"claude"}, hook |-> {}, index |-> {"starfleet", "sop"},
     fragments |-> {"starfleet", "sop"}, skills |-> {"claude"},
     plugindir |-> {"opencode", "plugins"}, plugins |-> {"opencode", "plugins"}, plan |-> {},
     oscripts |-> {"starfleet", "bin"}, cscripts |-> {"starfleet", "bin"},
     hooksdir |-> {"claude", "hooks"}, hooks |-> {"claude", "hooks"}, ignore |-> {},
     web |-> {"starfleet", "conf"}, gitignore |-> {}]

(* The verify functions. *)

verifyProjectConfig == disk.project \cap {"absent", "torn"} = {}

verifyDirs == {"conf", "bus"} \subseteq dirs

verifySettingsAllowlist == "allow" \in disk.settings /\ "torn" \notin disk.settings

verifySettingsPermissionHook == "hook" \in disk.settings

verifySopIndex == disk.index # Gone

verifyStarfleetFragments == "current" \in disk.fragments

verifyStarfleetSkills == "current" \in disk.skills

verifyOpencodePluginsDir == "plugins" \in dirs

\* Our plugin is registered, in a list that can be read.
loadOpencodePluginConfig(x) == "plugin" \in x /\ x \cap {"torn", "odd"} = {}

verifyOpencodePlugins == "current" \in disk.plugins /\ loadOpencodePluginConfig(disk.opencode)

\* Nothing is to be added to opencode.json, or to be dropped from it.
Ensured(x) ==
    /\ x \cap {"absent", "torn", "legacy", "scalar"} = {}
    /\ {"schema", "index", "rules"} \subseteq x

verifyOpencodePlanAccess == Ensured(disk.opencode)

verifyOpencodeScripts == "current" \in disk.oscripts

verifyClaudeScripts == "current" \in disk.cscripts

verifyClaudeHooksDir == "hooks" \in dirs

verifyClaudeHooks == "current" \in disk.hooks

verifyStarfleetAIGitignore == "entries" \in disk.ignore

verifyWebConf == disk.web # Gone

verifyGitignoreClaudeHooks == "entries" \in disk.gitignore

Verified(c) ==
    CASE c = "project" -> verifyProjectConfig
      [] c = "dirs" -> verifyDirs
      [] c = "allow" -> verifySettingsAllowlist
      [] c = "hook" -> verifySettingsPermissionHook
      [] c = "index" -> verifySopIndex
      [] c = "fragments" -> verifyStarfleetFragments
      [] c = "skills" -> verifyStarfleetSkills
      [] c = "plugindir" -> verifyOpencodePluginsDir
      [] c = "plugins" -> verifyOpencodePlugins
      [] c = "plan" -> verifyOpencodePlanAccess
      [] c = "oscripts" -> verifyOpencodeScripts
      [] c = "cscripts" -> verifyClaudeScripts
      [] c = "hooksdir" -> verifyClaudeHooksDir
      [] c = "hooks" -> verifyClaudeHooks
      [] c = "ignore" -> verifyStarfleetAIGitignore
      [] c = "web" -> verifyWebConf
      [] c = "gitignore" -> verifyGitignoreClaudeHooks

-----------------------------------------------------------------------------
(* What the fix functions make of a file with content x: a new content, or *)
(* nothing, or an error instead of it.                                     *)

Kept == {"kept"}

Failed == {"failed"}

\* Only created, never changed: project.yaml and web.yaml, package.json.
fixProjectConfig(x) == IF x = Gone THEN {"template"} ELSE Kept

fixWebConf(x) == IF x = Gone THEN {"template"} ELSE Kept

\* A skeleton first, if need be; then the entries go behind the first
\* `"allow": [`, which may be that of another list.
fixSettingsAllowlist(x) ==
    CASE x = Gone -> {"array"}
      [] x # Gone /\ ("torn" \in x \/ x \cap {"allow", "array"} = {}) -> Failed
      [] "torn" \notin x /\ "allow" \in x -> Kept
      [] OTHER -> IF "other" \in x THEN x ELSE x \cup {"allow"}

\* The new hook goes behind that of confirm-log.
fixSettingsPermissionHook(x) ==
    CASE x = Gone \/ "hook" \in x -> Kept
      [] x # Gone /\ "hook" \notin x /\ ("torn" \in x \/ "confirm" \notin x) -> Failed
      [] OTHER -> x \cup {"hook"}

\* EnsureBootstrapped: a header without any fragment.
EnsureBootstrapped(x) == IF x = Gone THEN {"header"} ELSE Kept

\* Installed files are written whatever they hold; those of earlier versions
\* are removed: fragments that are not among ours, skills and plugins under
\* names once used.
DoInstallStarfleet(x) == (x \ {"absent", "old"}) \cup {"current"}

\* The index is made of all fragments, each looked up by its slug.
DoReindex(x) == IF "misnamed" \in disk.fragments THEN Failed ELSE {"full"}

DoInstallStarfleetSkills(x) == (x \ {"absent", "old"}) \cup {"current"}

PluginFiles(x) == (x \ {"absent", "old"}) \cup {"current"}

\* A list of plugins that cannot be read counts as empty, and so does a
\* file that does not parse.
PluginEntry(x) ==
    CASE loadOpencodePluginConfig(x) -> Kept
      [] "torn" \in x -> {"plugin"}
      [] OTHER -> (x \ {"absent", "odd"}) \cup {"plugin"}

\* The rules replace all that was configured.
PlanAccess_NoMerge(x) == IF Ensured(x) THEN Kept ELSE (x \cap {"plugin"}) \cup {"schema", "index", "rules"}

\* ensureOpencodePlanAccess: only what is absent is added.
PlanAccess(x) ==
    CASE Ensured(x) -> Kept
      [] "torn" \in x -> {"schema", "index", "rules"}
      [] OTHER -> (x \ {"absent", "legacy", "scalar"}) \cup {"schema", "index", "rules"}

fixOpencodeScripts(x) == (x \ {"absent"}) \cup {"current"}

fixClaudeScripts(x) == (x \ {"absent"}) \cup {"current"}

fixClaudeHooks(x) == (x \ {"absent"}) \cup {"current"}

fixStarfleetAIGitignore(x) ==
    IF "entries" \in x THEN Kept ELSE (x \ {"absent"}) \cup {"entries"}

fixGitignoreClaudeHooks(x) == IF x = Gone THEN Failed ELSE x \cup {"entries"}

Fixed(c, f, x) ==
    CASE f = "project" -> fixProjectConfig(x)
      [] f \in {"web", "package"} -> fixWebConf(x)
      [] c = "allow" -> fixSettingsAllowlist(x)
      [] c = "hook" -> fixSettingsPermissionHook(x)
      [] c = "index" -> EnsureBootstrapped(x)
      [] c = "fragments" -> IF f = "index" THEN DoReindex(x) ELSE DoInstallStarfleet(x)
      [] c = "skills" -> DoInstallStarfleetSkills(x)
      [] c = "plugins" /\ f = "plugins" -> PluginFiles(x)
      [] c = "plugins" /\ f = "opencode" -> PluginEntry(x)
      [] c = "plan" -> PlanAccess(x)
      [] c = "oscripts" -> fixOpencodeScripts(x)
      [] c = "cscripts" -> fixClaudeScripts(x)
      [] c = "hooks" -> fixClaudeHooks(x)
      [] c = "ignore" -> fixStarfleetAIGitignore(x)
      [] c = "gitignore" -> fixGitignoreClaudeHooks(x)

\* .starfleet-ai/.gitignore is appended to.
Appends(c, x) == c = "ignore" /\ x # Gone

\* os.WriteFile has opened f and not yet written.
Emptied(f) == IF f \in Json THEN {"torn"} ELSE {}

-----------------------------------------------------------------------------
(* run.go. *)

Idle == [at |-> "idle", fix |-> FALSE, check |-> 1, todo |-> <<>>, new |-> {}, ok |-> TRUE,
         found |-> {}, alone |-> TRUE]

Running(p) == run[p].at \notin {"idle", "over"}

Now(p) == Checks[run[p].check]

\* The run with the next check, with r its result so far.
Advance(p, ok) ==
    LET r == [run[p] EXCEPT !.ok = @ /\ ok, !.todo = <<>>, !.new = {}] IN
    IF r.check = 17 THEN [r EXCEPT !.at = "over"]
                    ELSE [r EXCEPT !.at = "verify", !.check = @ + 1]

\* p goes on as r, and the workspace has changed under the others.
Disturb(p, r) == [q \in Runner |-> IF q = p THEN r ELSE [run[q] EXCEPT !.alone = FALSE]]

\* What belongs to the user: a run is judged by what became of it.
Owned == {o \in File \X {"user", "ask", "odd", "scalar", "torn"} : o[2] \in disk[o[1]]}

Begin(p, fix) ==
    /\ ~Running(p) /\ left.runs > 0
    /\ run' = [run EXCEPT ![p] = [Idle EXCEPT !.at = "verify", !.fix = fix, !.found = Owned,
                                              !.alone = \A q \in Runner : ~Running(q)]]
    /\ left' = [left EXCEPT !.runs = @ - 1]
    /\ UNCHANGED <<disk, dirs>>

\* Run: verify; with --fix a fix is begun, which makes its directories.
Verify(p) ==
    /\ run[p].at = "verify"
    /\ IF Verified(Now(p)) \/ ~run[p].fix
       THEN /\ run' = [run EXCEPT ![p] = Advance(p, Verified(Now(p)))]
            /\ UNCHANGED dirs
       ELSE /\ run' = Disturb(p, [run[p] EXCEPT !.at = "fix", !.todo = Steps[Now(p)]])
            /\ dirs' = dirs \cup Mkdirs[Now(p)]
    /\ UNCHANGED <<disk, left>>

\* The fix reads the next of its files.  Where it does so twice in a row the
\* two are one here.
Load(p) ==
    LET f == Head(run[p].todo)  y == Fixed(Now(p), f, disk[f]) IN
    /\ run[p].at = "fix" /\ run[p].todo # <<>>
    /\ run' = [run EXCEPT ![p] = CASE y = Failed -> Advance(p, FALSE)
                                   [] y = Kept -> [@ EXCEPT !.todo = Tail(@)]
                                   [] OTHER -> [@ EXCEPT !.at = "open", !.new = y]]
    /\ UNCHANGED <<disk, dirs, left>>

\* The file is opened, which creates or empties it.
Open(p) ==
    LET f == Head(run[p].todo) IN
    /\ run[p].at = "open"
    /\ IF f \in DOMAIN Home /\ Home[f] \notin dirs
       THEN run' = [run EXCEPT ![p] = Advance(p, FALSE)] /\ UNCHANGED disk
       ELSE /\ run' = Disturb(p, [run[p] EXCEPT !.at = "write"])
            /\ disk' = IF Appends(Now(p), disk[f]) THEN disk ELSE [disk EXCEPT ![f] = Emptied(f)]
    /\ UNCHANGED <<dirs, left>>

\* If somebody else has written it meanwhile the two may be mixed up.
Write(p) ==
    LET f == Head(run[p].todo) IN
    /\ run[p].at = "write"
    /\ \E y \in {run[p].new} \cup
                 (IF f \in Json /\ disk[f] # Emptied(f) THEN {{"torn"}} ELSE {}) :
          disk' = [disk EXCEPT ![f] = IF Appends(Now(p), @) THEN @ \cup y ELSE y]
    /\ run' = Disturb(p, [run[p] EXCEPT !.at = "fix", !.todo = Tail(@), !.new = {}])
    /\ UNCHANGED <<dirs, left>>

Reverify(p) ==
    /\ run[p].at = "fix" /\ run[p].todo = <<>>
    /\ run' = [run EXCEPT ![p] = Advance(p, Verified(Now(p)))]
    /\ UNCHANGED <<disk, dirs, left>>

\* The run is killed, between two steps of whatever it does.
Crash(p) ==
    /\ Running(p) /\ left.crashes > 0
    /\ run' = [run EXCEPT ![p] = Idle]
    /\ left' = [left EXCEPT !.crashes = @ - 1]
    /\ UNCHANGED <<disk, dirs>>

\* The user or a session of an agent saves one of the files, in a directory
\* that it makes if need be, or removes it.
Edit(f, y) ==
    /\ left.edits > 0 /\ disk[f] # y
    /\ disk' = [disk EXCEPT ![f] = y]
    /\ dirs' = IF y = Gone THEN dirs ELSE dirs \cup {Home[f]}
    /\ run' = [q \in Runner |-> [run[q] EXCEPT !.alone = FALSE]]
    /\ left' = [left EXCEPT !.edits = @ - 1]

Init ==
    /\ disk \in Finds
    /\ dirs = {"root"} \cup {Home[f] : f \in {g \in DOMAIN Home : disk[g] # Gone}}
                       \cup (IF disk.plugins # Gone THEN {"opencode", "plugins"} ELSE {})
                       \cup (IF disk.hooks # Gone THEN {"claude", "hooks"} ELSE {})
                       \cup (IF disk.project # Gone THEN {"starfleet", "conf"} ELSE {})
    /\ run = [p \in Runner |-> Idle]
    /\ left = [runs |-> MaxRun, edits |-> MaxEdit, crashes |-> MaxCrash]

Next ==
    \/ \E p \in Runner :
          \/ \E fix \in BOOLEAN : Begin(p, fix)
          \/ Verify(p) \/ Load(p) \/ Open(p) \/ Write(p) \/ Reverify(p) \/ Crash(p)
    \/ \E f \in {"settings", "opencode"}, d \in Finds : Edit(f, d[f])

Spec == Init /\ [][Next]_vars

-----------------------------------------------------------------------------
\* checks.go, run.go: files, directories and runs keep to their types.
TypeOK ==
    /\ disk \in [File -> SUBSET Entry]
    /\ \A f \in File : "absent" \in disk[f] => disk[f] = Gone
    /\ dirs \subseteq Directory
    /\ \A p \in Runner :
          /\ run[p].at \in {"idle", "verify", "fix", "open", "write", "over"}
          /\ run[p].check \in 1..17 /\ run[p].todo \in Seq(File) /\ run[p].new \subseteq Entry

\* The checks that no fix can satisfy, given what the files hold.
Hopeless ==
    (IF "torn" \in disk.project THEN {"project"} ELSE {}) \cup
    (IF "torn" \in disk.settings \/ "array" \notin disk.settings \/ "other" \in disk.settings
     THEN {"allow"} ELSE {}) \cup
    (IF "torn" \in disk.settings \/ "confirm" \notin disk.settings THEN {"hook"} ELSE {}) \cup
    (IF disk.gitignore = Gone THEN {"gitignore"} ELSE {})

\* run.go, usage: after "bootstrap --fix" that nobody has disturbed, whatever
\* it found, an interrupted run's debris included, every check is satisfied
\* but those that cannot be; and it reports success only when all are.
RepairSuffices ==
    \A p \in Runner :
        LET open == {c \in Check : ~Verified(c)} IN
        run[p].at = "over" /\ run[p].fix /\ run[p].alone
            => open \subseteq Hopeless /\ (run[p].ok => open = {})

\* checks.go, "merge, never clobber", as far as it goes: a run that nobody
\* has disturbed leaves all that the user had put into the files, unless it
\* was in an opencode.json that did not parse, an entry of "plugin" that is
\* no string, or a value in the place of a map.
UsersAreKept ==
    \A p \in Runner :
        run[p].at = "over" /\ run[p].alone =>
            \A o \in run[p].found :
                \/ o[2] \in disk[o[1]]
                \/ o[1] = "opencode" /\ (o[2] \in {"odd", "scalar"} \/ <<"opencode", "torn">> \in run[p].found)
=============================================================================
