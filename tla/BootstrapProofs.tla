--------------------------- MODULE BootstrapProofs ---------------------------
(***************************************************************************)
(* What is proved about the repair of a workspace (Bootstrap), for every   *)
(* set of runners and every content that a workspace may be found with.    *)
(*                                                                         *)
(* A run goes through the checks in their order.  RepairInv says of a run  *)
(* in whose way nobody has got that the checks behind it are satisfied, or *)
(* lost with an error reported, in the files as they will be when the      *)
(* write it is at is done (Finally); that the fix it is at has made such   *)
(* progress as its next file relies on (Progress); and that all that the   *)
(* user had is there or was beyond keeping (Stays).  FixesImprove says     *)
(* what a fix makes of its file, and EarlierStay that this undoes none of  *)
(* the checks before it: that is what the order of the checks is for.      *)
(***************************************************************************)
EXTENDS WorkspaceProofs

\* The place of a check in the order.
Rank == [project |-> 1, dirs |-> 2, allow |-> 3, hook |-> 4, index |-> 5, fragments |-> 6,
         skills |-> 7, plugindir |-> 8, plugins |-> 9, plan |-> 10, oscripts |-> 11,
         cscripts |-> 12, hooksdir |-> 13, hooks |-> 14, ignore |-> 15, web |-> 16,
         gitignore |-> 17]

CheckNames ==
    {"project", "dirs", "allow", "hook", "index", "fragments", "skills", "plugindir",
     "plugins", "plan", "oscripts", "cscripts", "hooksdir", "hooks", "ignore", "web",
     "gitignore"}

\* Each check writes at most these.
Writes ==
    {<<"project", "project">>, <<"allow", "settings">>, <<"hook", "settings">>,
     <<"index", "index">>, <<"fragments", "fragments">>, <<"fragments", "index">>,
     <<"skills", "skills">>, <<"plugins", "plugins">>, <<"plugins", "package">>,
     <<"plugins", "opencode">>, <<"plan", "opencode">>, <<"oscripts", "oscripts">>,
     <<"cscripts", "cscripts">>, <<"hooks", "hooks">>, <<"ignore", "ignore">>,
     <<"web", "web">>, <<"gitignore", "gitignore">>}

\* A check is satisfied when the files are d and the directories e,
Holds(c, d, e) ==
    \/ c = "project" /\ "absent" \notin d["project"] /\ "torn" \notin d["project"]
    \/ c = "dirs" /\ "conf" \in e /\ "bus" \in e
    \/ c = "allow" /\ "allow" \in d["settings"] /\ "torn" \notin d["settings"]
    \/ c = "hook" /\ "hook" \in d["settings"]
    \/ c = "index" /\ d["index"] # {"absent"}
    \/ c = "fragments" /\ "current" \in d["fragments"]
    \/ c = "skills" /\ "current" \in d["skills"]
    \/ c = "plugindir" /\ "plugins" \in e
    \/ c = "plugins" /\ "current" \in d["plugins"] /\ B!loadOpencodePluginConfig(d["opencode"])
    \/ c = "plan" /\ B!Ensured(d["opencode"])
    \/ c = "oscripts" /\ "current" \in d["oscripts"]
    \/ c = "cscripts" /\ "current" \in d["cscripts"]
    \/ c = "hooksdir" /\ "hooks" \in e
    \/ c = "hooks" /\ "current" \in d["hooks"]
    \/ c = "ignore" /\ "entries" \in d["ignore"]
    \/ c = "web" /\ d["web"] # {"absent"}
    \/ c = "gitignore" /\ "entries" \in d["gitignore"]

\* ... or no fix can satisfy it.
Lost(c, d) ==
    \/ c = "project" /\ "torn" \in d["project"]
    \/ c = "allow" /\ ("torn" \in d["settings"] \/ "array" \notin d["settings"] \/ "other" \in d["settings"])
    \/ c = "hook" /\ ("torn" \in d["settings"] \/ "confirm" \notin d["settings"])
    \/ c = "gitignore" /\ d["gitignore"] = {"absent"}

LEMMA Numbered ==
    /\ \A i \in 1 .. 17 : B!Checks[i] \in CheckNames /\ Rank[B!Checks[i]] = i
    /\ \A c \in CheckNames : Rank[c] \in 1 .. 17 /\ B!Checks[Rank[c]] = c
    /\ B!Check = CheckNames
<1>1. \A c \in CheckNames : Rank[c] \in 1 .. 17 /\ B!Checks[Rank[c]] = c
  BY DEF CheckNames, Rank, B!Checks
<1>2. \A i \in 1 .. 17 : B!Checks[i] \in CheckNames /\ Rank[B!Checks[i]] = i
  BY DEF CheckNames, Rank, B!Checks
<1>3. QED BY <1>1, <1>2 DEF B!Check

LEMMA HoldsIs == ASSUME NEW c \in CheckNames PROVE B!Verified(c) <=> Holds(c, disk, dirs)
<1> USE DEF B!Verified, Holds, B!Gone
<1>1. CASE c = "project" BY <1>1 DEF B!verifyProjectConfig
<1>2. CASE c = "dirs" BY <1>2 DEF B!verifyDirs
<1>3. CASE c = "allow" BY <1>3 DEF B!verifySettingsAllowlist
<1>4. CASE c = "hook" BY <1>4 DEF B!verifySettingsPermissionHook
<1>5. CASE c = "index" BY <1>5 DEF B!verifySopIndex
<1>6. CASE c = "fragments" BY <1>6 DEF B!verifyStarfleetFragments
<1>7. CASE c = "skills" BY <1>7 DEF B!verifyStarfleetSkills
<1>8. CASE c = "plugindir" BY <1>8 DEF B!verifyOpencodePluginsDir
<1>9. CASE c = "plugins" BY <1>9 DEF B!verifyOpencodePlugins
<1>10. CASE c = "plan" BY <1>10 DEF B!verifyOpencodePlanAccess
<1>11. CASE c = "oscripts" BY <1>11 DEF B!verifyOpencodeScripts
<1>12. CASE c = "cscripts" BY <1>12 DEF B!verifyClaudeScripts
<1>13. CASE c = "hooksdir" BY <1>13 DEF B!verifyClaudeHooksDir
<1>14. CASE c = "hooks" BY <1>14 DEF B!verifyClaudeHooks
<1>15. CASE c = "ignore" BY <1>15 DEF B!verifyStarfleetAIGitignore
<1>16. CASE c = "web" BY <1>16 DEF B!verifyWebConf
<1>17. CASE c = "gitignore" BY <1>17 DEF B!verifyGitignoreClaudeHooks
<1>18. QED
  BY <1>1, <1>2, <1>3, <1>4, <1>5, <1>6, <1>7, <1>8, <1>9, <1>10, <1>11, <1>12, <1>13, <1>14, <1>15, <1>16, <1>17 DEF CheckNames

LEMMA LostIs == ASSUME NEW c, Lost(c, disk) PROVE c \in B!Hopeless
BY DEF Lost, B!Hopeless, B!Gone

\* What the fixes make of their files.
LEMMA FixedIs ==
    ASSUME NEW x
    PROVE  /\ B!Fixed("project", "project", x) = B!fixProjectConfig(x)
           /\ B!Fixed("web", "web", x) = B!fixWebConf(x)
           /\ B!Fixed("plugins", "package", x) = B!fixWebConf(x)
           /\ B!Fixed("allow", "settings", x) = B!fixSettingsAllowlist(x)
           /\ B!Fixed("hook", "settings", x) = B!fixSettingsPermissionHook(x)
           /\ B!Fixed("index", "index", x) = B!EnsureBootstrapped(x)
           /\ B!Fixed("fragments", "index", x) = B!DoReindex(x)
           /\ B!Fixed("fragments", "fragments", x) = B!DoInstallStarfleet(x)
           /\ B!Fixed("skills", "skills", x) = B!DoInstallStarfleetSkills(x)
           /\ B!Fixed("plugins", "opencode", x) = B!PluginEntry(x)
           /\ B!Fixed("plugins", "plugins", x) = B!PluginFiles(x)
           /\ B!Fixed("plan", "opencode", x) = B!PlanAccess(x)
           /\ B!Fixed("oscripts", "oscripts", x) = B!fixOpencodeScripts(x)
           /\ B!Fixed("cscripts", "cscripts", x) = B!fixClaudeScripts(x)
           /\ B!Fixed("hooks", "hooks", x) = B!fixClaudeHooks(x)
           /\ B!Fixed("ignore", "ignore", x) = B!fixStarfleetAIGitignore(x)
           /\ B!Fixed("gitignore", "gitignore", x) = B!fixGitignoreClaudeHooks(x)
<1>1. B!Fixed("project", "project", x) = B!fixProjectConfig(x)
  BY DEF B!Fixed
<1>2. B!Fixed("web", "web", x) = B!fixWebConf(x)
  BY DEF B!Fixed
<1>3. B!Fixed("plugins", "package", x) = B!fixWebConf(x)
  BY DEF B!Fixed
<1>4. B!Fixed("allow", "settings", x) = B!fixSettingsAllowlist(x)
  BY DEF B!Fixed
<1>5. B!Fixed("hook", "settings", x) = B!fixSettingsPermissionHook(x)
  BY DEF B!Fixed
<1>6. B!Fixed("index", "index", x) = B!EnsureBootstrapped(x)
  BY DEF B!Fixed
<1>7. B!Fixed("fragments", "index", x) = B!DoReindex(x)
  BY DEF B!Fixed
<1>8. B!Fixed("fragments", "fragments", x) = B!DoInstallStarfleet(x)
  BY DEF B!Fixed
<1>9. B!Fixed("skills", "skills", x) = B!DoInstallStarfleetSkills(x)
  BY DEF B!Fixed
<1>10. B!Fixed("plugins", "opencode", x) = B!PluginEntry(x)
  BY DEF B!Fixed
<1>11. B!Fixed("plugins", "plugins", x) = B!PluginFiles(x)
  BY DEF B!Fixed
<1>12. B!Fixed("plan", "opencode", x) = B!PlanAccess(x)
  BY DEF B!Fixed
<1>13. B!Fixed("oscripts", "oscripts", x) = B!fixOpencodeScripts(x)
  BY DEF B!Fixed
<1>14. B!Fixed("cscripts", "cscripts", x) = B!fixClaudeScripts(x)
  BY DEF B!Fixed
<1>15. B!Fixed("hooks", "hooks", x) = B!fixClaudeHooks(x)
  BY DEF B!Fixed
<1>16. B!Fixed("ignore", "ignore", x) = B!fixStarfleetAIGitignore(x)
  BY DEF B!Fixed
<1>17. B!Fixed("gitignore", "gitignore", x) = B!fixGitignoreClaudeHooks(x)
  BY DEF B!Fixed
<1>18. QED
  BY <1>1, <1>2, <1>3, <1>4, <1>5, <1>6, <1>7, <1>8, <1>9, <1>10, <1>11, <1>12, <1>13, <1>14, <1>15, <1>16, <1>17

\* The things of the user that a run is judged by.
Users == {"user", "ask", "odd", "scalar", "torn"}

KeepsUsers(f, x, y) ==
    \A u \in Users : u \in x =>
        u \in y \/ (f = "opencode" /\ (u \in {"odd", "scalar"} \/ "torn" \in x))

\* A new content y of f, made by the fix of c from x.
Improves(c, f, x, y) ==
    /\ y \subseteq B!Entry /\ "absent" \notin y /\ y # {}
    /\ KeepsUsers(f, x, y)
    /\ f = "index" => y \subseteq {"header", "full"}
    /\ "torn" \in y => "torn" \in x /\ f \notin {"project", "opencode", "settings"}
    /\ f = "project" => x = {"absent"}
    /\ f = "settings" =>
           /\ "torn" \notin x
           /\ x # {"absent"} => x \subseteq y /\ ("other" \in y => "other" \in x)
                                /\ ("array" \in y => "array" \in x) /\ ("confirm" \in y => "confirm" \in x)
           /\ c = "hook" => x # {"absent"} /\ "hook" \in y
           /\ c = "allow" /\ x # {"absent"} => "allow" \in y \/ "other" \in y
    /\ f \in {"fragments", "skills", "plugins", "oscripts", "cscripts", "hooks"} => "current" \in y
    /\ f = "opencode" =>
           /\ c = "plugins" \/ B!loadOpencodePluginConfig(x) => B!loadOpencodePluginConfig(y)
           /\ c = "plan" => B!Ensured(y)
    /\ f \in {"ignore", "gitignore"} => "entries" \in y
    /\ f = "ignore" /\ x # {"absent"} => x \subseteq y
    /\ f = "gitignore" => x # {"absent"}

LEMMA FixesImprove ==
    ASSUME NEW c, NEW f, <<c, f>> \in Writes,
           disk[f] \subseteq B!Entry, "absent" \in disk[f] => disk[f] = {"absent"},
           f = "index" => disk[f] \subseteq {"absent", "header", "full"},
           B!Fixed(c, f, disk[f]) \notin {B!Kept, B!Failed}
    PROVE  Improves(c, f, disk[f], B!Fixed(c, f, disk[f]))
<1> DEFINE x == disk[f]
           y == B!Fixed(c, f, x)
<1> HIDE DEF x, y
<1>0. /\ x \subseteq B!Entry /\ ("absent" \in x => x = {"absent"})
      /\ (f = "index" => x \subseteq {"absent", "header", "full"}) /\ y \notin {{"kept"}, {"failed"}}
  BY DEF x, y, B!Kept, B!Failed
<1> USE DEF B!Gone, B!Kept, B!Failed
<1>11. \A e \in {"array", "allow", "hook", "header", "full", "template", "current", "plugin", "schema",
               "index", "rules", "entries"} : e \in B!Entry
  BY DEF B!Entry
<1>1. CASE \/ c = "project" /\ f = "project"
           \/ c = "web" /\ f = "web"
           \/ c = "plugins" /\ f = "package"
  <2>1. y = IF x = {"absent"} THEN {"template"} ELSE {"kept"}
    BY <1>1, FixedIs DEF y, B!fixProjectConfig, B!fixWebConf
  <2>2. x = {"absent"} /\ y = {"template"} BY <1>0, <2>1
  <2>3. y \subseteq B!Entry /\ "absent" \notin y /\ y # {}
    BY <1>11, <1>1, <2>2
  <2>4. KeepsUsers(f, x, y)
    BY <1>1, <2>2 DEF KeepsUsers, Users
  <2>5. Improves(c, f, x, y)
    BY <1>1, <2>2, <2>3, <2>4 DEF Improves
  <2>6. QED BY <2>5 DEF x, y
<1>2. CASE c = "allow" /\ f = "settings"
  <2>1. y = B!fixSettingsAllowlist(x) BY <1>2, FixedIs DEF y
  <2>2. \/ x = {"absent"} /\ y = {"array"}
        \/ /\ x # {"absent"} /\ "torn" \notin x /\ "array" \in x
           /\ \/ y = x /\ "other" \in x
              \/ y = x \cup {"allow"}
    BY <1>0, <2>1 DEF B!fixSettingsAllowlist
  <2>3. y \subseteq B!Entry /\ "absent" \notin y /\ y # {}
    BY <1>11, <1>0, <1>2, <2>2
  <2>4. KeepsUsers(f, x, y)
    BY <1>2, <2>2 DEF KeepsUsers, Users
  <2>5. Improves(c, f, x, y)
    BY <1>0, <1>2, <2>2, <2>3, <2>4 DEF Improves
  <2>6. QED BY <2>5 DEF x, y
<1>3. CASE c = "hook" /\ f = "settings"
  <2>1. y = B!fixSettingsPermissionHook(x) BY <1>3, FixedIs DEF y
  <2>2. x # {"absent"} /\ "torn" \notin x /\ y = x \cup {"hook"}
    BY <1>0, <2>1 DEF B!fixSettingsPermissionHook
  <2>3. y \subseteq B!Entry /\ "absent" \notin y /\ y # {}
    BY <1>11, <1>0, <1>3, <2>2
  <2>4. KeepsUsers(f, x, y)
    BY <1>3, <2>2 DEF KeepsUsers, Users
  <2>5. Improves(c, f, x, y)
    BY <1>0, <1>3, <2>2, <2>3, <2>4 DEF Improves
  <2>6. QED BY <2>5 DEF x, y
<1>4. CASE f = "index" /\ c \in {"index", "fragments"}
  <2>1. y \in {{"header"}, {"full"}}
    BY <1>0, <1>4, FixedIs DEF y, B!EnsureBootstrapped, B!DoReindex
  <2>2. y \subseteq B!Entry /\ "absent" \notin y /\ y # {}
    BY <1>11, <1>0, <1>4, <2>1
  <2>3. KeepsUsers(f, x, y)
    BY <1>0, <1>4, <2>1 DEF KeepsUsers, Users
  <2>4. Improves(c, f, x, y)
    BY <1>0, <1>4, <2>1, <2>2, <2>3 DEF Improves
  <2>5. QED BY <2>4 DEF x, y
<1>5. CASE \/ c = "fragments" /\ f = "fragments"
           \/ c = "skills" /\ f = "skills"
           \/ c = "plugins" /\ f = "plugins"
           \/ c = "oscripts" /\ f = "oscripts"
           \/ c = "cscripts" /\ f = "cscripts"
           \/ c = "hooks" /\ f = "hooks"
  <2>1. y = (x \ {"absent", "old"}) \cup {"current"} \/ y = (x \ {"absent"}) \cup {"current"}
    BY <1>5, FixedIs DEF y, B!DoInstallStarfleet, B!DoInstallStarfleetSkills, B!PluginFiles,
                         B!fixOpencodeScripts, B!fixClaudeScripts, B!fixClaudeHooks
  <2>2. f \in {"fragments", "skills", "plugins", "oscripts", "cscripts", "hooks"} BY <1>5
  <2>3. y \subseteq B!Entry /\ "absent" \notin y /\ y # {}
    BY <1>11, <1>0, <2>1, <2>2
  <2>4. KeepsUsers(f, x, y)
    BY <2>1, <2>2 DEF KeepsUsers, Users
  <2>5. Improves(c, f, x, y)
    BY <1>0, <2>1, <2>2, <2>3, <2>4 DEF Improves
  <2>6. QED BY <2>5 DEF x, y
<1>6. CASE c = "plugins" /\ f = "opencode"
  <2>1. y = B!PluginEntry(x) BY <1>6, FixedIs DEF y
  <2>2. \/ "torn" \in x /\ y = {"plugin"} /\ ~B!loadOpencodePluginConfig(x)
        \/ "torn" \notin x /\ y = (x \ {"absent", "odd"}) \cup {"plugin"}
    BY <1>0, <2>1 DEF B!PluginEntry, B!loadOpencodePluginConfig
  <2>3. y \subseteq B!Entry /\ "absent" \notin y /\ y # {}
    BY <1>11, <1>0, <1>6, <2>2
  <2>4. KeepsUsers(f, x, y)
    BY <1>6, <2>2 DEF KeepsUsers, Users
  <2>5. Improves(c, f, x, y)
    BY <1>0, <1>6, <2>2, <2>3, <2>4 DEF Improves, B!loadOpencodePluginConfig
  <2>6. QED BY <2>5 DEF x, y
<1>7. CASE c = "plan" /\ f = "opencode"
  <2>1. y = B!PlanAccess(x) BY <1>7, FixedIs DEF y
  <2>2. \/ "torn" \in x /\ y = {"schema", "index", "rules"}
        \/ "torn" \notin x /\ y = (x \ {"absent", "legacy", "scalar"}) \cup {"schema", "index", "rules"}
    BY <1>0, <2>1 DEF B!PlanAccess, B!Ensured
  <2>3. B!Ensured(y) BY <2>2 DEF B!Ensured
  <2>4. B!loadOpencodePluginConfig(x) => B!loadOpencodePluginConfig(y)
    BY <2>2 DEF B!loadOpencodePluginConfig
  <2>5. y \subseteq B!Entry /\ "absent" \notin y /\ y # {}
    BY <1>11, <1>0, <1>7, <2>2, <2>3, <2>4
  <2>6. KeepsUsers(f, x, y)
    BY <1>7, <2>2, <2>3, <2>4 DEF KeepsUsers, Users
  <2>7. Improves(c, f, x, y)
    BY <1>0, <1>7, <2>2, <2>3, <2>4, <2>5, <2>6 DEF Improves
  <2>8. QED BY <2>7 DEF x, y
<1>8. CASE c = "ignore" /\ f = "ignore"
  <2>1. y = (x \ {"absent"}) \cup {"entries"}
    BY <1>0, <1>8, FixedIs DEF y, B!fixStarfleetAIGitignore
  <2>2. y \subseteq B!Entry /\ "absent" \notin y /\ y # {}
    BY <1>11, <1>0, <1>8, <2>1
  <2>3. KeepsUsers(f, x, y)
    BY <1>8, <2>1 DEF KeepsUsers, Users
  <2>4. Improves(c, f, x, y)
    BY <1>0, <1>8, <2>1, <2>2, <2>3 DEF Improves
  <2>5. QED BY <2>4 DEF x, y
<1>9. CASE c = "gitignore" /\ f = "gitignore"
  <2>1. x # {"absent"} /\ y = x \cup {"entries"}
    BY <1>0, <1>9, FixedIs DEF y, B!fixGitignoreClaudeHooks
  <2>2. y \subseteq B!Entry /\ "absent" \notin y /\ y # {}
    BY <1>11, <1>0, <1>9, <2>1
  <2>3. KeepsUsers(f, x, y)
    BY <1>9, <2>1 DEF KeepsUsers, Users
  <2>4. Improves(c, f, x, y)
    BY <1>0, <1>9, <2>1, <2>2, <2>3 DEF Improves
  <2>5. QED BY <2>4 DEF x, y
<1>10. QED
  BY <1>1, <1>2, <1>3, <1>4, <1>5, <1>6, <1>7, <1>8, <1>9 DEF Writes

\* A fix leaves satisfied what earlier checks have found or made so.
LEMMA EarlierStay ==
    ASSUME NEW d, NEW e, NEW c, NEW f, <<c, f>> \in Writes, NEW y,
           Improves(c, f, d[f], y), d \in [B!File -> SUBSET B!Entry],
           NEW b \in CheckNames, Rank[b] < Rank[c]
    PROVE  /\ Holds(b, d, e) => Holds(b, [d EXCEPT ![f] = y], e)
           /\ Lost(b, d) => Lost(b, [d EXCEPT ![f] = y])
<1> DEFINE n == [d EXCEPT ![f] = y]
<1>1. n[f] = y /\ \A g \in B!File \ {f} : n[g] = d[g]
  <2>1. f \in B!File BY DEF Writes, B!File
  <2>2. QED BY <2>1
<1> HIDE DEF n
<1> SUFFICES /\ Holds(b, d, e) => Holds(b, n, e)
             /\ Lost(b, d) => Lost(b, n)
  BY DEF n
<1>2. /\ f # "project" => n["project"] = d["project"]
      /\ f # "settings" => n["settings"] = d["settings"]
      /\ f # "index" => n["index"] = d["index"]
      /\ f # "fragments" => n["fragments"] = d["fragments"]
      /\ f # "skills" => n["skills"] = d["skills"]
      /\ f # "plugins" => n["plugins"] = d["plugins"]
      /\ f # "opencode" => n["opencode"] = d["opencode"]
      /\ f # "oscripts" => n["oscripts"] = d["oscripts"]
      /\ f # "cscripts" => n["cscripts"] = d["cscripts"]
      /\ f # "hooks" => n["hooks"] = d["hooks"]
      /\ f # "ignore" => n["ignore"] = d["ignore"]
      /\ f # "web" => n["web"] = d["web"]
      /\ f # "gitignore" => n["gitignore"] = d["gitignore"]
  BY <1>1 DEF B!File
<1>3. CASE f = "settings"
  <2>1. c = "hook" \/ c = "allow" BY <1>3 DEF Writes
  <2>2. c = "allow" => b \notin {"allow", "hook"} BY DEF Rank
  <2>3. CASE b \notin {"allow", "hook"}
    BY <1>2, <1>3, <2>3 DEF CheckNames, Holds, Lost
  <2>4. CASE b = "allow" \/ b = "hook"
    <3>1. c = "hook" /\ b = "allow" BY <2>1, <2>2, <2>4 DEF Rank
    <3>2. "torn" \notin d["settings"] /\ d["settings"] \subseteq n["settings"] /\ "torn" \notin n["settings"]
          /\ ("array" \in n["settings"] => "array" \in d["settings"])
      BY <1>1, <1>3, <3>1 DEF Improves
    <3>3. QED BY <3>1, <3>2 DEF Holds, Lost
  <2>5. QED BY <2>3, <2>4
<1>4. CASE f = "opencode"
  <2>1. c = "plugins" \/ c = "plan" BY <1>4 DEF Writes
  <2>2. c = "plugins" => b \notin {"plugins", "plan"} BY DEF Rank
  <2>3. CASE b \notin {"plugins", "plan"}
    BY <1>2, <1>4, <2>3 DEF CheckNames, Holds, Lost
  <2>4. CASE b \in {"plugins", "plan"}
    <3>1. c = "plan" /\ b = "plugins" BY <2>1, <2>2, <2>4 DEF Rank
    <3>2. B!loadOpencodePluginConfig(d["opencode"]) => B!loadOpencodePluginConfig(n["opencode"])
      BY <1>1, <1>4 DEF Improves
    <3>3. QED BY <1>2, <1>4, <3>1, <3>2 DEF Holds, Lost
  <2>5. QED BY <2>3, <2>4
<1>5. CASE f \in {"fragments", "skills", "plugins", "oscripts", "cscripts", "hooks"}
  <2>1. "current" \in n[f] BY <1>1, <1>5 DEF Improves
  <2>2. f \notin {"project", "settings", "index", "opencode", "ignore", "web", "gitignore"} BY <1>5
  <2>3. QED BY <1>2, <1>5, <2>1, <2>2 DEF CheckNames, Holds, Lost
<1>6. CASE f = "index"
  <2>1. n["index"] # {"absent"} BY <1>1, <1>6 DEF Improves
  <2>2. QED BY <1>2, <1>6, <2>1 DEF CheckNames, Holds, Lost
<1>7. CASE f \in {"project", "package", "ignore", "web", "gitignore"}
  <2>1. c # "gitignore" \/ b # "gitignore" BY DEF Rank
  <2>2. n[f] # {"absent"} /\ (f \in {"ignore", "gitignore"} => "entries" \in n[f])
    BY <1>1, <1>7 DEF Improves
  <2>3. f = "project" => c = "project" BY DEF Writes
  <2>4. c # "project" BY DEF Rank, CheckNames
  <2>5. f = "gitignore" => c = "gitignore" BY DEF Writes
  <2>6. b = "gitignore" => f # "gitignore" BY <2>1, <2>5
  <2>7. QED BY <1>2, <1>7, <2>2, <2>3, <2>4, <2>6 DEF CheckNames, Holds, Lost
<1>8. QED BY <1>3, <1>4, <1>5, <1>6, <1>7 DEF Writes

-----------------------------------------------------------------------------
Stages == {"idle", "verify", "fix", "open", "write", "over"}

RunRecord == [at : Stages, fix : BOOLEAN, check : 1 .. 17, todo : Seq(B!File),
              new : SUBSET B!Entry, ok : BOOLEAN, found : SUBSET (B!File \X Users),
              alone : BOOLEAN]

\* The files that a fix may still have to write.
Rest(c) ==
    {B!Steps[c], <<>>} \cup
    (IF c = "allow" THEN {<<"settings">>}
     ELSE IF c = "fragments" THEN {<<"index">>}
     ELSE IF c = "plugins" THEN {<<"package", "opencode">>, <<"opencode">>} ELSE {})

Whole(f, y) ==
    /\ y \subseteq B!Entry /\ "absent" \notin y /\ y # {}
    /\ f = "index" => y \subseteq {"header", "full"}

RunOK(r) ==
    /\ r \in RunRecord
    /\ r.at \in {"fix", "open", "write"} => r.fix /\ r.todo \in Rest(B!Checks[r.check])
    /\ r.at \in {"open", "write"} => r.todo # <<>> /\ Whole(Head(r.todo), r.new)

FilesOK ==
    /\ disk \in [B!File -> SUBSET B!Entry]
    /\ \A f \in B!File : "absent" \in disk[f] => disk[f] = {"absent"}
    /\ disk["index"] \subseteq {"absent", "header", "full"}

\* What can be relied on of the directories.
DirsOK ==
    /\ dirs \subseteq B!Directory /\ "root" \in dirs
    /\ "plugins" \in dirs => "opencode" \in dirs
    /\ "conf" \in dirs => "starfleet" \in dirs
    /\ disk["settings"] # {"absent"} => "claude" \in dirs

\* The files as they are when r has finished the write that it is at.
Finally(r) ==
    IF r.at # "write" THEN disk
    ELSE [disk EXCEPT ![Head(r.todo)] = IF B!Appends(B!Checks[r.check], @) THEN @ \cup r.new ELSE r.new]

\* What a fix has achieved when todo is still to be written.
Progress(c, todo, d, e) ==
    /\ B!Mkdirs[c] \subseteq e
    /\ c = "allow" /\ todo = <<"settings">> => d["settings"] # {"absent"}
    /\ c = "fragments" /\ todo = <<"index">> => "current" \in d["fragments"]
    /\ c = "plugins" /\ todo \in {<<"package", "opencode">>, <<"opencode">>} => "current" \in d["plugins"]
    /\ todo = <<>> => Holds(c, d, e) \/ Lost(c, d)

Past(r) == IF r.at = "over" THEN CheckNames ELSE {c \in CheckNames : Rank[c] < r.check}

PastOK(r) == \A c \in Past(r) : Holds(c, Finally(r), dirs) \/ (~r.ok /\ Lost(c, Finally(r)))

Stays(r) ==
    /\ \A o \in r.found :
          \/ o[2] \in Finally(r)[o[1]]
          \/ o[1] = "opencode" /\ (o[2] \in {"odd", "scalar"} \/ <<"opencode", "torn">> \in r.found)
    /\ "torn" \in Finally(r)["opencode"] => <<"opencode", "torn">> \in r.found

\* A run that nobody has disturbed finds the files as it has left them.
AloneOK(r) ==
    r.alone /\ r.at # "idle" =>
        /\ r.fix => PastOK(r)
        /\ Stays(r)
        /\ r.at \in {"fix", "open"} => Progress(B!Checks[r.check], r.todo, disk, dirs)
        /\ r.at = "open" => r.new = B!Fixed(B!Checks[r.check], Head(r.todo), disk[Head(r.todo)])
        /\ r.at = "write" =>
               /\ Progress(B!Checks[r.check], Tail(r.todo), Finally(r), dirs)
               /\ \/ B!Appends(B!Checks[r.check], disk[Head(r.todo)])
                  \/ disk[Head(r.todo)] = B!Emptied(Head(r.todo))

\* The directory of what is being written is there.
HomeOK(r) == r.at = "write" /\ Head(r.todo) = "settings" => "claude" \in dirs

RepairInv ==
    /\ FilesOK /\ DirsOK
    /\ run \in [Runner -> RunRecord]
    /\ \A p \in Runner : RunOK(run[p]) /\ AloneOK(run[p]) /\ HomeOK(run[p])

LEMMA RestIs ==
    ASSUME NEW c \in CheckNames
    PROVE  /\ B!Steps[c] \in Rest(c)
           /\ \A todo \in Rest(c) :
                  /\ todo \in Seq(B!File)
                  /\ todo # <<>> => /\ <<c, Head(todo)>> \in Writes /\ Head(todo) \in B!File
                                    /\ Tail(todo) \in Rest(c) /\ Tail(todo) \in Seq(B!File)
<1> DEFINE Fine(todo) ==
             /\ todo \in Seq(B!File)
             /\ todo # <<>> => /\ <<c, Head(todo)>> \in Writes /\ Head(todo) \in B!File
                               /\ Tail(todo) \in Rest(c) /\ Tail(todo) \in Seq(B!File)
<1>0. B!Steps[c] \in Rest(c) /\ <<>> \in Rest(c) BY DEF Rest
<1>1. Fine(<<>>)
  <2>1. <<>> \in Seq(B!File) OBVIOUS
  <2>2. QED BY <2>1
<1>2. ASSUME NEW f \in B!File, <<c, f>> \in Writes, <<f>> \in Rest(c)
      PROVE  Fine(<<f>>)
  <2>1. <<f>> \in Seq(B!File) /\ Head(<<f>>) = f /\ Tail(<<f>>) = <<>> /\ <<>> \in Seq(B!File)
    BY <1>2
  <2> DEFINE t == <<f>>
  <2> HIDE DEF t
  <2>2. t \in Seq(B!File) /\ Head(t) = f /\ Tail(t) = <<>> BY <2>1 DEF t
  <2>3. Fine(t) BY <1>0, <1>2, <2>1, <2>2
  <2>4. QED BY <2>3 DEF t
<1>3. ASSUME NEW f \in B!File, NEW g \in B!File, <<c, f>> \in Writes,
             <<g>> \in Rest(c)
      PROVE  Fine(<<f, g>>)
  <2> DEFINE t == <<f, g>>
             u == <<g>>
  <2>1. t \in Seq(B!File) /\ Head(t) = f /\ Tail(t) = u /\ u \in Seq(B!File) /\ u \in Rest(c)
    BY <1>3
  <2> HIDE DEF t, u
  <2>2. Fine(t) BY <1>3, <2>1
  <2>3. QED BY <2>2 DEF t
<1>4. CASE c \in {"dirs", "plugindir", "hooksdir"}
  <2>1. Rest(c) = {<<>>} BY <1>4 DEF Rest, B!Steps
  <2>2. QED BY <1>0, <1>1, <2>1
<1>5. CASE c \in CheckNames \ {"dirs", "plugindir", "hooksdir", "allow", "fragments", "plugins", "hook", "plan"}
  <2>1. Rest(c) = {<<c>>, <<>>} BY <1>5 DEF Rest, B!Steps, CheckNames
  <2>2. c \in B!File /\ <<c, c>> \in Writes BY <1>5 DEF CheckNames, B!File, Writes
  <2>3. Fine(<<c>>) BY <1>2, <2>1, <2>2
  <2> HIDE DEF Fine
  <2>4. \A todo \in Rest(c) : Fine(todo) BY <1>1, <2>1, <2>3
  <2>5. QED BY <1>0, <2>4 DEF Fine
<1>6. CASE c = "hook" \/ c = "plan"
  <2> DEFINE f == IF c = "hook" THEN "settings" ELSE "opencode"
  <2>1. Rest(c) = {<<f>>, <<>>} BY <1>6 DEF Rest, B!Steps
  <2>2. f \in B!File /\ <<c, f>> \in Writes BY <1>6 DEF B!File, Writes
  <2> HIDE DEF f
  <2>3. Fine(<<f>>) BY <1>2, <2>1, <2>2
  <2> HIDE DEF Fine
  <2>4. \A todo \in Rest(c) : Fine(todo) BY <1>1, <2>1, <2>3
  <2>5. QED BY <1>0, <2>4 DEF Fine
<1>7. CASE c = "allow" \/ c = "fragments"
  <2> DEFINE f == IF c = "allow" THEN "settings" ELSE "fragments"
             g == IF c = "allow" THEN "settings" ELSE "index"
  <2>1. Rest(c) = {<<f, g>>, <<g>>, <<>>} BY <1>7 DEF Rest, B!Steps
  <2>2. f \in B!File /\ g \in B!File /\ <<c, f>> \in Writes /\ <<c, g>> \in Writes
    BY <1>7 DEF B!File, Writes
  <2> HIDE DEF f, g
  <2>3. Fine(<<g>>) BY <1>2, <2>1, <2>2
  <2>4. Fine(<<f, g>>) BY <1>3, <2>1, <2>2
  <2> HIDE DEF Fine
  <2>5. \A todo \in Rest(c) : Fine(todo) BY <1>1, <2>1, <2>3, <2>4
  <2>6. QED BY <1>0, <2>5 DEF Fine
<1>8. CASE c = "plugins"
  <2> DEFINE f == "plugins"
             g == "package"
             h == "opencode"
  <2>1. Rest(c) = {<<f, g, h>>, <<g, h>>, <<h>>, <<>>} BY <1>8 DEF Rest, B!Steps
  <2>2. /\ f \in B!File /\ g \in B!File /\ h \in B!File
        /\ <<c, f>> \in Writes /\ <<c, g>> \in Writes /\ <<c, h>> \in Writes
    BY <1>8 DEF B!File, Writes
  <2> HIDE DEF f, g, h
  <2>3. Fine(<<h>>) BY <1>2, <2>1, <2>2
  <2>4. Fine(<<g, h>>) BY <1>3, <2>1, <2>2
  <2>5. Fine(<<f, g, h>>)
    <3> DEFINE t == <<f, g, h>>
               u == <<g, h>>
    <3>1. t \in Seq(B!File) /\ Head(t) = f /\ Tail(t) = u /\ u \in Seq(B!File) /\ u \in Rest(c)
      BY <2>1, <2>2
    <3> HIDE DEF t, u
    <3>2. Fine(t) BY <2>2, <3>1
    <3>3. QED BY <3>2 DEF t
  <2> HIDE DEF Fine
  <2>6. \A todo \in Rest(c) : Fine(todo) BY <1>1, <2>1, <2>3, <2>4, <2>5
  <2>7. QED BY <1>0, <2>6 DEF Fine
<1>9. QED BY <1>4, <1>5, <1>6, <1>7, <1>8

\* What is known of a run that is about to take a step.
LEMMA RunFields ==
    ASSUME RepairInv, NEW p \in Runner
    PROVE  LET r == run[p]
               c == B!Checks[r.check]
           IN  /\ r \in RunRecord /\ RunOK(r) /\ AloneOK(r)
               /\ r.check \in 1 .. 17 /\ c \in CheckNames /\ Rank[c] = r.check /\ B!Now(p) = c
               /\ r.todo \in Seq(B!File) /\ r.new \subseteq B!Entry
               /\ r.at \in {"fix", "open", "write"} /\ r.todo # <<>> =>
                      /\ <<c, Head(r.todo)>> \in Writes /\ Head(r.todo) \in B!File
                      /\ Tail(r.todo) \in Rest(c) /\ Tail(r.todo) \in Seq(B!File)
<1> DEFINE r == run[p]
           c == B!Checks[r.check]
<1>1. r \in RunRecord /\ RunOK(r) /\ AloneOK(r) BY DEF RepairInv
<1>2. r.check \in 1 .. 17 /\ r.todo \in Seq(B!File) /\ r.new \subseteq B!Entry BY <1>1 DEF RunRecord
<1>3. c \in CheckNames /\ Rank[c] = r.check BY <1>2, Numbered
<1>4. r.at \in {"fix", "open", "write"} => r.todo \in Rest(c) BY <1>1 DEF RunOK
<1>5. B!Now(p) = c BY DEF B!Now
<1> HIDE DEF r, c
<1>6. r.at \in {"fix", "open", "write"} /\ r.todo # <<>> =>
          /\ <<c, Head(r.todo)>> \in Writes /\ Head(r.todo) \in B!File
          /\ Tail(r.todo) \in Rest(c) /\ Tail(r.todo) \in Seq(B!File)
  BY <1>3, <1>4, RestIs
<1>7. QED BY <1>1, <1>2, <1>3, <1>5, <1>6 DEF r, c

\* A step of p, which goes on as r.
LEMMA RepairOne ==
    ASSUME RepairInv, NEW p \in Runner, NEW r, RunOK(r), AloneOK(r)', FilesOK', DirsOK',
           HomeOK(r)', dirs \subseteq dirs',
           \/ run' = [run EXCEPT ![p] = r] /\ UNCHANGED <<disk, dirs>>
           \/ run' = B!Disturb(p, r)
    PROVE  RepairInv'
<1>1. \A q \in Runner : run[q] \in RunRecord /\ RunOK(run[q]) /\ AloneOK(run[q]) /\ HomeOK(run[q]) /\ r \in RunRecord
  BY DEF RepairInv, RunOK
<1>2. CASE run' = [run EXCEPT ![p] = r] /\ UNCHANGED <<disk, dirs>>
  <2>1. run' \in [Runner -> RunRecord] BY <1>1, <1>2 DEF RepairInv
  <2>2. ASSUME NEW q \in Runner PROVE RunOK(run[q])' /\ AloneOK(run[q])' /\ HomeOK(run[q])'
    <3>1. CASE q = p
      <4>1. run'[q] = r BY <1>2, <3>1 DEF RepairInv
      <4>2. QED BY <4>1 DEF RunOK, AloneOK, PastOK, Past, Stays, Finally, HomeOK
    <3>2. CASE q # p
      <4>1. run'[q] = run[q] /\ disk' = disk /\ dirs' = dirs BY <1>2, <3>2 DEF RepairInv
      <4>2. Finally(run[q])' = Finally(run[q])
        BY <4>1 DEF Finally, B!Appends
      <4>3. \A c, f, x : B!Fixed(c, f, x)' = B!Fixed(c, f, x)
        BY <4>1 DEF B!Fixed, B!DoReindex
      <4>4. QED BY <1>1, <4>1, <4>2, <4>3 DEF RunOK, AloneOK, PastOK, Past, Stays, HomeOK
    <3>3. QED BY <3>1, <3>2
  <2>3. QED BY <2>1, <2>2 DEF RepairInv
<1>3. CASE run' = B!Disturb(p, r)
  <2>1. ASSUME NEW q \in Runner PROVE run'[q] \in RunRecord /\ RunOK(run[q])' /\ AloneOK(run[q])' /\ HomeOK(run[q])'
    <3>1. CASE q = p
      <4>1. run'[q] = r BY <1>3, <3>1 DEF B!Disturb
      <4>2. QED BY <1>1, <4>1 DEF RunOK, AloneOK, PastOK, Past, Stays, Finally, HomeOK
    <3>2. CASE q # p
      <4>1. run'[q] = [run[q] EXCEPT !.alone = FALSE] BY <1>3, <3>2 DEF B!Disturb
      <4>2. /\ run'[q] \in RunRecord /\ run'[q].alone = FALSE
            /\ run'[q].at = run[q].at /\ run'[q].fix = run[q].fix /\ run'[q].todo = run[q].todo
            /\ run'[q].check = run[q].check /\ run'[q].new = run[q].new
        BY <1>1, <4>1 DEF RunRecord
      <4>3. QED BY <1>1, <4>2 DEF RunOK, AloneOK, HomeOK
    <3>3. QED BY <3>1, <3>2
  <2>2. run' \in [Runner -> RunRecord] BY <1>3, <2>1 DEF B!Disturb
  <2>3. QED BY <2>1, <2>2 DEF RepairInv
<1>4. QED BY <1>2, <1>3

\* More directories leave a check satisfied.
LEMMA HoldsMore ==
    ASSUME NEW c, NEW d, NEW e, NEW n, e \subseteq n, Holds(c, d, e)
    PROVE  Holds(c, d, n)
BY DEF Holds

\* The run goes on to the next check, this one being satisfied or, with an
\* error, lost.
LEMMA AdvanceKeeps ==
    ASSUME RepairInv, NEW p \in Runner, NEW ok \in BOOLEAN,
           run[p].at \in {"verify", "fix", "open"},
           UNCHANGED <<disk, dirs>>, run' = [run EXCEPT ![p] = B!Advance(p, ok)],
           run[p].alone /\ run[p].fix =>
               \/ Holds(B!Checks[run[p].check], disk, dirs)
               \/ ~ok /\ Lost(B!Checks[run[p].check], disk)
    PROVE  RepairInv'
<1> PICK r : r = B!Advance(p, ok) OBVIOUS
<1> PICK o : o = run[p] OBVIOUS
<1> DEFINE c == B!Checks[o.check]
<1>1. o \in RunRecord /\ RunOK(o) /\ AloneOK(o) /\ o.check \in 1 .. 17 /\ c \in CheckNames /\ Rank[c] = o.check
  BY RunFields
<1>2. /\ r \in RunRecord /\ r.fix = o.fix /\ r.alone = o.alone /\ r.found = o.found
      /\ r.ok = (o.ok /\ ok) /\ r.todo = <<>> /\ r.new = {}
      /\ \/ r.at = "over" /\ o.check = 17 /\ r.check = 17
         \/ r.at = "verify" /\ o.check # 17 /\ r.check = o.check + 1
  <2> DEFINE n == [o EXCEPT !.ok = @ /\ ok, !.todo = <<>>, !.new = {}]
  <2>1. /\ n \in RunRecord /\ n.fix = o.fix /\ n.alone = o.alone /\ n.found = o.found
        /\ n.ok = (o.ok /\ ok) /\ n.todo = <<>> /\ n.new = {} /\ n.check = o.check
    <3> DEFINE b == o.ok /\ ok
    <3>1. b \in BOOLEAN OBVIOUS
    <3>2. n = [o EXCEPT !.ok = b, !.todo = <<>>, !.new = {}] OBVIOUS
    <3>3. <<>> \in Seq(B!File) /\ {} \in SUBSET B!Entry OBVIOUS
    <3> HIDE DEF n, b
    <3>4. /\ n \in RunRecord /\ n.fix = o.fix /\ n.alone = o.alone /\ n.found = o.found
          /\ n.ok = b /\ n.todo = <<>> /\ n.new = {} /\ n.check = o.check
      BY <1>1, <3>1, <3>2, <3>3 DEF RunRecord
    <3>5. QED BY <3>4 DEF b
  <2>2. r = IF n.check = 17 THEN [n EXCEPT !.at = "over"]
                            ELSE [n EXCEPT !.at = "verify", !.check = @ + 1]
    BY DEF B!Advance
  <2> HIDE DEF n
  <2>3. CASE n.check = 17
    BY <1>1, <2>1, <2>2, <2>3 DEF RunRecord, Stages
  <2>4. CASE n.check # 17
    <3> DEFINE k == n.check + 1
    <3>1. k \in 1 .. 17 /\ k = o.check + 1 BY <1>1, <2>1, <2>4
    <3>2. r = [n EXCEPT !.at = "verify", !.check = k] BY <2>2, <2>4
    <3> HIDE DEF k
    <3>3. /\ r \in RunRecord /\ r.fix = n.fix /\ r.alone = n.alone /\ r.found = n.found
          /\ r.ok = n.ok /\ r.todo = n.todo /\ r.new = n.new /\ r.at = "verify" /\ r.check = k
      BY <2>1, <3>1, <3>2 DEF RunRecord, Stages
    <3>4. QED BY <2>1, <2>4, <3>1, <3>3
  <2>5. QED BY <2>3, <2>4
<1>3. RunOK(r) /\ HomeOK(r)' BY <1>2 DEF RunOK, HomeOK
<1>4. Finally(o) = disk /\ Finally(r)' = disk BY <1>2 DEF Finally
<1>5. ASSUME r.alone PROVE r.fix => PastOK(r)'
  <2> SUFFICES ASSUME r.fix, NEW b \in Past(r)
               PROVE  Holds(b, disk, dirs) \/ (~r.ok /\ Lost(b, disk))
    BY <1>4 DEF PastOK, Past
  <2>1. b \in CheckNames /\ Rank[b] \in 1 .. 17 /\ B!Checks[Rank[b]] = b BY Numbered DEF Past
  <2>2. b \in Past(o) \/ b = c
    <3>1. Rank[b] < o.check \/ Rank[b] = o.check
      <4>1. CASE o.check = 17 BY <2>1, <4>1
      <4>2. CASE o.check # 17
        <5>1. r.at # "over" /\ r.check = o.check + 1 BY <1>2, <4>2
        <5>2. Rank[b] < o.check + 1 BY <5>1 DEF Past
        <5>3. QED BY <1>1, <2>1, <5>2
      <4>3. QED BY <4>1, <4>2
    <3>2. o.at # "over" OBVIOUS
    <3>3. QED BY <2>1, <3>1, <3>2 DEF Past
  <2>3. CASE b \in Past(o)
    BY <1>1, <1>2, <1>4, <1>5, <2>3 DEF AloneOK, PastOK
  <2>4. CASE b = c BY <1>2, <1>5, <2>4
  <2>5. QED BY <2>2, <2>3, <2>4
<1>6. ASSUME r.alone PROVE Stays(r)'
  <2>1. Stays(o) BY <1>1, <1>2, <1>6 DEF AloneOK
  <2>2. QED BY <1>2, <1>4, <2>1 DEF Stays
<1>7. AloneOK(r)' BY <1>2, <1>5, <1>6 DEF AloneOK
<1>8. FilesOK' /\ DirsOK' BY DEF RepairInv, FilesOK, DirsOK
<1>9. QED BY <1>3, <1>7, <1>8, RepairOne

LEMMA BeginKeeps ==
    ASSUME RepairInv, NEW p \in Runner, NEW fix \in BOOLEAN, B!Begin(p, fix)
    PROVE  RepairInv'
<1> DEFINE quiet == \A q \in Runner : ~B!Running(q)
           own == B!Owned
<1>0. quiet \in BOOLEAN /\ own \in SUBSET (B!File \X Users) BY DEF B!Owned, Users
<1>1. /\ run' = [run EXCEPT ![p] = [B!Idle EXCEPT !.at = "verify", !.fix = fix, !.found = own, !.alone = quiet]]
      /\ UNCHANGED <<disk, dirs>>
  BY DEF B!Begin
<1>2. own = B!Owned OBVIOUS
<1> HIDE DEF quiet, own
<1> PICK r : r = [B!Idle EXCEPT !.at = "verify", !.fix = fix, !.found = own, !.alone = quiet] OBVIOUS
<1>3. /\ r \in RunRecord /\ r.at = "verify" /\ r.check = 1 /\ r.found = B!Owned
  <2>1. <<>> \in Seq(B!File) OBVIOUS
  <2>2. B!Idle \in RunRecord /\ B!Idle.check = 1 BY <2>1 DEF RunRecord, Stages, B!Idle
  <2>3. r \in RunRecord /\ r.at = "verify" /\ r.check = 1 /\ r.found = own
    BY <1>0, <2>2 DEF RunRecord, Stages
  <2>4. QED BY <1>2, <2>3
<1>4. RunOK(r) /\ HomeOK(r)' BY <1>3 DEF RunOK, HomeOK
<1>5. Finally(r)' = disk BY <1>1, <1>3 DEF Finally
<1>6. PastOK(r)'
  <2>1. \A b \in CheckNames : Rank[b] \in 1 .. 17 BY Numbered
  <2>2. Past(r) = {} BY <1>3, <2>1 DEF Past
  <2>3. QED BY <2>2 DEF PastOK, Past
<1>7. Stays(r)'
  <2>1. "opencode" \in B!File /\ "torn" \in Users BY DEF B!File, Users
  <2>2. QED BY <1>3, <1>5, <2>1 DEF Stays, B!Owned, Users
<1>8. AloneOK(r)' BY <1>3, <1>6, <1>7 DEF AloneOK
<1>9. FilesOK' /\ DirsOK' BY <1>1 DEF RepairInv, FilesOK, DirsOK
<1>10. QED BY <1>1, <1>4, <1>8, <1>9, RepairOne

LEMMA CrashKeeps ==
    ASSUME RepairInv, NEW p \in Runner, B!Crash(p)
    PROVE  RepairInv'
<1> PICK r : r = B!Idle OBVIOUS
<1>1. run' = [run EXCEPT ![p] = r] /\ UNCHANGED <<disk, dirs>> BY DEF B!Crash
<1>2. r \in RunRecord /\ r.at = "idle"
  <2>1. <<>> \in Seq(B!File) OBVIOUS
  <2>2. QED BY <2>1 DEF RunRecord, Stages, B!Idle
<1>3. RunOK(r) /\ HomeOK(r)' /\ AloneOK(r)' BY <1>2 DEF RunOK, HomeOK, AloneOK
<1>4. FilesOK' /\ DirsOK' BY <1>1 DEF RepairInv, FilesOK, DirsOK
<1>5. QED BY <1>1, <1>3, <1>4, RepairOne

\* A fix that has nothing but directories to make is done with that.
LEMMA ProgressBegins ==
    ASSUME NEW c \in CheckNames, NEW d, NEW e, B!Mkdirs[c] \subseteq e
    PROVE  Progress(c, B!Steps[c], d, e)
<1>1. c = "allow" => B!Steps[c] # <<"settings">> BY DEF B!Steps
<1>2. c = "fragments" => B!Steps[c] # <<"index">> BY DEF B!Steps
<1>3. c = "plugins" => B!Steps[c] \notin {<<"package", "opencode">>, <<"opencode">>} BY DEF B!Steps
<1>4. B!Steps[c] = <<>> => c \in {"dirs", "plugindir", "hooksdir"} BY DEF B!Steps, CheckNames
<1>5. c \in {"dirs", "plugindir", "hooksdir"} => Holds(c, d, e) BY DEF Holds, B!Mkdirs
<1>6. QED BY <1>1, <1>2, <1>3, <1>4, <1>5 DEF Progress

LEMMA VerifyKeeps ==
    ASSUME RepairInv, NEW p \in Runner, B!Verify(p)
    PROVE  RepairInv'
<1> DEFINE c == B!Checks[run[p].check]
<1>1. /\ run[p] \in RunRecord /\ RunOK(run[p]) /\ AloneOK(run[p]) /\ run[p].at = "verify"
      /\ c \in CheckNames /\ B!Now(p) = c /\ Rank[c] = run[p].check
  BY RunFields DEF B!Verify
<1>2. B!Verified(c) <=> Holds(c, disk, dirs) BY <1>1, HoldsIs
<1>3. CASE B!Verified(c) \/ ~run[p].fix
  <2> DEFINE ok == B!Verified(c)
  <2>1. run' = [run EXCEPT ![p] = B!Advance(p, ok)] /\ UNCHANGED <<disk, dirs>>
    BY <1>1, <1>3 DEF B!Verify
  <2>2. PICK v \in BOOLEAN : v <=> Holds(c, disk, dirs)
    <3>1. CASE Holds(c, disk, dirs) BY <3>1, TRUE \in BOOLEAN
    <3>2. CASE ~Holds(c, disk, dirs) BY <3>2, FALSE \in BOOLEAN
    <3>3. QED BY <3>1, <3>2
  <2>3. B!Advance(p, ok) = B!Advance(p, v) BY <1>2, <2>2 DEF B!Advance
  <2>4. run[p].alone /\ run[p].fix => Holds(c, disk, dirs) BY <1>2, <1>3
  <2> HIDE DEF ok
  <2>5. QED BY <1>1, <2>1, <2>3, <2>4, AdvanceKeeps
<1>4. CASE ~(B!Verified(c) \/ ~run[p].fix)
  <2> PICK r : r = [run[p] EXCEPT !.at = "fix", !.todo = B!Steps[c]] OBVIOUS
  <2> PICK o : o = run[p] OBVIOUS
  <2>1. run' = B!Disturb(p, r) /\ dirs' = dirs \cup B!Mkdirs[c] /\ UNCHANGED disk
    BY <1>1, <1>4 DEF B!Verify
  <2>2. B!Steps[c] \in Rest(c) /\ B!Steps[c] \in Seq(B!File) BY <1>1, RestIs
  <2>3. /\ r \in RunRecord /\ r.at = "fix" /\ r.todo = B!Steps[c] /\ r.fix = o.fix /\ o.fix
        /\ r.check = o.check /\ r.ok = o.ok /\ r.found = o.found /\ r.alone = o.alone
    BY <1>1, <1>4, <2>2 DEF RunRecord, Stages
  <2>4. RunOK(r) /\ HomeOK(r)' BY <2>2, <2>3 DEF RunOK, HomeOK
  <2>5. Finally(r)' = disk /\ Finally(o) = disk BY <1>1, <2>1, <2>3 DEF Finally
  <2>6. Past(r) = Past(o) BY <1>1, <2>3 DEF Past
  <2>7. ASSUME r.alone PROVE PastOK(r)' /\ Stays(r)'
    <3>1. PastOK(o) /\ Stays(o) BY <1>1, <2>3, <2>7 DEF AloneOK
    <3>2. \A b : Holds(b, disk, dirs) => Holds(b, disk, dirs') BY <2>1, HoldsMore
    <3>3. PastOK(r)' BY <2>3, <2>5, <2>6, <3>1, <3>2 DEF PastOK, Past
    <3>4. Stays(r)' BY <2>3, <2>5, <3>1 DEF Stays
    <3>5. QED BY <3>3, <3>4
  <2>8. Progress(c, B!Steps[c], disk', dirs')
    <3>1. B!Mkdirs[c] \subseteq dirs' BY <2>1
    <3>2. QED BY <1>1, <3>1, ProgressBegins
  <2>9. AloneOK(r)' BY <2>3, <2>7, <2>8 DEF AloneOK
  <2>10. FilesOK' BY <2>1 DEF RepairInv, FilesOK
  <2>11. DirsOK'
    <3>1. B!Mkdirs[c] \subseteq B!Directory /\ ("plugins" \in B!Mkdirs[c] => "opencode" \in B!Mkdirs[c])
          /\ ("conf" \in B!Mkdirs[c] => "starfleet" \in B!Mkdirs[c])
      BY <1>1 DEF CheckNames, B!Mkdirs, B!Directory
    <3>2. QED BY <2>1, <3>1 DEF RepairInv, DirsOK
  <2>12. QED BY <2>1, <2>4, <2>9, <2>10, <2>11, RepairOne
<1>5. QED BY <1>3, <1>4

LEMMA ReverifyKeeps ==
    ASSUME RepairInv, NEW p \in Runner, B!Reverify(p)
    PROVE  RepairInv'
<1> DEFINE c == B!Checks[run[p].check]
           ok == B!Verified(c)
<1>1. /\ run[p] \in RunRecord /\ RunOK(run[p]) /\ AloneOK(run[p]) /\ run[p].at = "fix" /\ run[p].todo = <<>>
      /\ c \in CheckNames /\ B!Now(p) = c
  BY RunFields DEF B!Reverify
<1>2. ok <=> Holds(c, disk, dirs) BY <1>1, HoldsIs
<1>3. run' = [run EXCEPT ![p] = B!Advance(p, ok)] /\ UNCHANGED <<disk, dirs>>
  BY <1>1 DEF B!Reverify
<1>4. PICK v \in BOOLEAN : v <=> Holds(c, disk, dirs)
  <2>1. CASE Holds(c, disk, dirs) BY <2>1, TRUE \in BOOLEAN
  <2>2. CASE ~Holds(c, disk, dirs) BY <2>2, FALSE \in BOOLEAN
  <2>3. QED BY <2>1, <2>2
<1>5. B!Advance(p, ok) = B!Advance(p, v) BY <1>2, <1>4 DEF B!Advance
<1>6. run[p].alone => Holds(c, disk, dirs) \/ Lost(c, disk) BY <1>1 DEF AloneOK, Progress
<1>7. run[p].alone => Holds(c, disk, dirs) \/ (~v /\ Lost(c, disk)) BY <1>4, <1>6
<1> HIDE DEF ok
<1>8. QED BY <1>1, <1>3, <1>5, <1>7, AdvanceKeeps

\* How a fix proceeds from file to file.
LEMMA Tails ==
    ASSUME NEW c \in CheckNames, NEW todo \in Rest(c), todo # <<>>
    PROVE  \/ /\ Tail(todo) = <<>> /\ todo = <<Head(todo)>>
              /\ c = "fragments" => Head(todo) = "index"
              /\ c = "plugins" => Head(todo) = "opencode"
           \/ c = "allow" /\ Tail(todo) = <<"settings">> /\ Head(todo) = "settings"
           \/ c = "fragments" /\ Tail(todo) = <<"index">> /\ Head(todo) = "fragments"
           \/ c = "plugins" /\ Tail(todo) = <<"package", "opencode">> /\ Head(todo) = "plugins"
           \/ c = "plugins" /\ Tail(todo) = <<"opencode">> /\ Head(todo) = "package"
                            /\ todo = <<"package", "opencode">>
<1>1. CASE c \notin {"allow", "fragments", "plugins"}
  <2>1. PICK f : todo = <<f>> BY <1>1 DEF Rest, B!Steps, CheckNames
  <2>2. Tail(<<f>>) = <<>> /\ Head(<<f>>) = f OBVIOUS
  <2>3. QED BY <1>1, <2>1, <2>2
<1>2. CASE c = "allow"
  <2>1. todo = <<"settings">> \/ todo = <<"settings", "settings">> BY <1>2 DEF Rest, B!Steps
  <2>2. /\ Tail(<<"settings">>) = <<>> /\ Head(<<"settings">>) = "settings"
        /\ Tail(<<"settings", "settings">>) = <<"settings">> /\ Head(<<"settings", "settings">>) = "settings"
    OBVIOUS
  <2>3. CASE todo = <<"settings">> BY <1>2, <2>2, <2>3
  <2>4. CASE todo = <<"settings", "settings">> BY <1>2, <2>2, <2>4
  <2>5. QED BY <2>1, <2>3, <2>4
<1>3. CASE c = "fragments"
  <2>1. todo = <<"index">> \/ todo = <<"fragments", "index">> BY <1>3 DEF Rest, B!Steps
  <2>2. /\ Tail(<<"index">>) = <<>> /\ Head(<<"index">>) = "index"
        /\ Tail(<<"fragments", "index">>) = <<"index">> /\ Head(<<"fragments", "index">>) = "fragments"
    OBVIOUS
  <2>3. CASE todo = <<"index">> BY <1>3, <2>2, <2>3
  <2>4. CASE todo = <<"fragments", "index">> BY <1>3, <2>2, <2>4
  <2>5. QED BY <2>1, <2>3, <2>4
<1>4. CASE c = "plugins"
  <2>1. todo \in {<<"opencode">>, <<"package", "opencode">>, <<"plugins", "package", "opencode">>}
    BY <1>4 DEF Rest, B!Steps
  <2>2. CASE todo = <<"opencode">> BY <1>4, <2>2
  <2>3. CASE todo = <<"package", "opencode">>
    <3>1. Tail(<<"package", "opencode">>) = <<"opencode">> /\ Head(<<"package", "opencode">>) = "package"
      OBVIOUS
    <3>2. QED BY <1>4, <2>3, <3>1
  <2>4. CASE todo = <<"plugins", "package", "opencode">>
    <3>1. /\ Tail(<<"plugins", "package", "opencode">>) = <<"package", "opencode">>
          /\ Head(<<"plugins", "package", "opencode">>) = "plugins"
      OBVIOUS
    <3>2. QED BY <1>4, <2>4, <3>1
  <2>5. QED BY <2>1, <2>2, <2>3, <2>4
<1>5. QED BY <1>1, <1>2, <1>3, <1>4

\* With the first of todo done, and the files at n.
LEMMA ProgressGoes ==
    ASSUME NEW c \in CheckNames, NEW todo \in Rest(c), todo # <<>>, NEW n, NEW e,
           B!Mkdirs[c] \subseteq e,
           c = "allow" => n["settings"] # {"absent"},
           c = "fragments" => "current" \in n["fragments"],
           c = "plugins" => "current" \in n["plugins"],
           Tail(todo) = <<>> => Holds(c, n, e) \/ Lost(c, n)
    PROVE  Progress(c, Tail(todo), n, e)
BY DEF Progress

\* What the progress made says when the next file is one that follows others.
LEMMA ProgressSays ==
    ASSUME NEW c \in CheckNames, NEW todo \in Rest(c), todo # <<>>, NEW d, NEW e, Progress(c, todo, d, e)
    PROVE  /\ B!Mkdirs[c] \subseteq e
           /\ c = "allow" /\ Tail(todo) = <<>> => d["settings"] # {"absent"}
           /\ c = "fragments" /\ Head(todo) # "fragments" => "current" \in d["fragments"]
           /\ c = "plugins" /\ Head(todo) # "plugins" => "current" \in d["plugins"]
<1>1. B!Mkdirs[c] \subseteq e BY DEF Progress
<1>2. c = "allow" /\ Tail(todo) = <<>> => d["settings"] # {"absent"}
  <2> SUFFICES ASSUME c = "allow", Tail(todo) = <<>> PROVE d["settings"] # {"absent"}
    OBVIOUS
  <2>1. todo = <<"settings">> \/ todo = <<"settings", "settings">> BY DEF Rest, B!Steps
  <2>2. Tail(<<"settings", "settings">>) = <<"settings">> /\ <<"settings">> # <<>> OBVIOUS
  <2>3. todo = <<"settings">> BY <2>1, <2>2
  <2>4. QED BY <2>3 DEF Progress
<1>3. c = "fragments" /\ Head(todo) # "fragments" => "current" \in d["fragments"]
  <2> SUFFICES ASSUME c = "fragments", Head(todo) # "fragments" PROVE "current" \in d["fragments"]
    OBVIOUS
  <2>1. todo = <<"index">> \/ todo = <<"fragments", "index">> BY DEF Rest, B!Steps
  <2>2. todo = <<"index">> BY <2>1
  <2>3. QED BY <2>2 DEF Progress
<1>4. c = "plugins" /\ Head(todo) # "plugins" => "current" \in d["plugins"]
  <2> SUFFICES ASSUME c = "plugins", Head(todo) # "plugins" PROVE "current" \in d["plugins"]
    OBVIOUS
  <2>1. todo \in {<<"opencode">>, <<"package", "opencode">>} BY Tails DEF Rest, B!Steps
  <2>2. QED BY <2>1 DEF Progress
<1>5. QED BY <1>1, <1>2, <1>3, <1>4

\* An error is the end of a fix that cannot succeed, or comes too late.
LEMMA FailsLost ==
    ASSUME NEW c, NEW f, <<c, f>> \in Writes, disk[f] \subseteq B!Entry,
           B!Fixed(c, f, disk[f]) = B!Failed
    PROVE  Lost(c, disk) \/ (c = "fragments" /\ f = "index")
<1> DEFINE x == disk[f]
<1> HIDE DEF x
<1>1. x \subseteq B!Entry /\ B!Fixed(c, f, x) = {"failed"} BY DEF x, B!Failed
<1>2. "failed" \notin B!Entry BY DEF B!Entry
<1>3. CASE c = "allow" /\ f = "settings"
  <2>1. B!fixSettingsAllowlist(x) = {"failed"} BY <1>1, <1>3, FixedIs
  <2>2. "torn" \in x \/ "array" \notin x
    BY <1>1, <1>2, <2>1 DEF B!fixSettingsAllowlist, B!Kept, B!Gone, B!Failed
  <2>3. QED BY <1>3, <2>2 DEF Lost, x
<1>4. CASE c = "hook" /\ f = "settings"
  <2>1. B!fixSettingsPermissionHook(x) = {"failed"} BY <1>1, <1>4, FixedIs
  <2>2. "torn" \in x \/ "confirm" \notin x
    BY <1>1, <1>2, <2>1 DEF B!fixSettingsPermissionHook, B!Kept, B!Gone, B!Failed
  <2>3. QED BY <1>4, <2>2 DEF Lost, x
<1>5. CASE c = "gitignore" /\ f = "gitignore"
  <2>1. B!fixGitignoreClaudeHooks(x) = {"failed"} BY <1>1, <1>5, FixedIs
  <2>2. x = {"absent"} BY <1>1, <1>2, <2>1 DEF B!fixGitignoreClaudeHooks, B!Gone, B!Failed
  <2>3. QED BY <1>5, <2>2 DEF Lost, x
<1>6. CASE c \notin {"allow", "hook", "gitignore"} /\ <<c, f>> # <<"fragments", "index">>
  <2> USE DEF B!Kept, B!Gone, B!Failed
  <2>1. \A a : "current" \in a \/ "entries" \in a \/ "plugin" \in a \/ "rules" \in a => a # {"failed"} OBVIOUS
  <2>2. CASE c \in {"project", "web"} \/ f = "package"
    BY <1>1, <1>6, <2>2, FixedIs DEF Writes, B!fixProjectConfig, B!fixWebConf
  <2>3. CASE c = "index" BY <1>1, <1>6, <2>3, FixedIs DEF Writes, B!EnsureBootstrapped
  <2>4. CASE c \in {"fragments", "skills", "oscripts", "cscripts", "hooks"} \/ f = "plugins"
    BY <1>1, <1>6, <2>1, <2>4, FixedIs DEF Writes, B!DoInstallStarfleet, B!DoInstallStarfleetSkills,
       B!PluginFiles, B!fixOpencodeScripts, B!fixClaudeScripts, B!fixClaudeHooks
  <2>5. CASE c = "plugins" /\ f = "opencode"
    <3>1. B!PluginEntry(x) = {"failed"} BY <1>1, <2>5, FixedIs
    <3>2. B!PluginEntry(x) = {"kept"} \/ "plugin" \in B!PluginEntry(x) BY DEF B!PluginEntry
    <3>3. QED BY <2>1, <3>1, <3>2
  <2>6. CASE c = "plan"
    <3>1. B!PlanAccess(x) = {"failed"} BY <1>1, <1>6, <2>6, FixedIs DEF Writes
    <3>2. B!PlanAccess(x) = {"kept"} \/ "rules" \in B!PlanAccess(x) BY DEF B!PlanAccess
    <3>3. QED BY <2>1, <3>1, <3>2
  <2>7. CASE c = "ignore"
    <3>1. B!fixStarfleetAIGitignore(x) = {"failed"} BY <1>1, <1>6, <2>7, FixedIs DEF Writes
    <3>2. QED BY <2>1, <3>1 DEF B!fixStarfleetAIGitignore
  <2>8. QED BY <1>6, <2>2, <2>3, <2>4, <2>5, <2>6, <2>7 DEF Writes
<1>7. QED BY <1>3, <1>4, <1>5, <1>6 DEF Writes

\* A file is left alone only where it says all that it should.
LEMMA KeptAlready ==
    ASSUME NEW c, NEW f, <<c, f>> \in Writes, disk[f] \subseteq B!Entry,
           "absent" \in disk[f] => disk[f] = {"absent"},
           B!Fixed(c, f, disk[f]) = B!Kept
    PROVE  /\ c # "fragments" /\ f # "plugins"
           /\ c = "allow" => disk["settings"] # {"absent"}
           /\ c = "plugins" /\ f = "opencode" => B!loadOpencodePluginConfig(disk["opencode"])
           /\ c # "plugins" => Holds(c, disk, dirs) \/ Lost(c, disk)
<1> DEFINE x == disk[f]
<1> HIDE DEF x
<1>1. x \subseteq B!Entry /\ B!Fixed(c, f, x) = {"kept"} /\ ("absent" \in x => x = {"absent"})
  BY DEF x, B!Kept
<1>2. "kept" \notin B!Entry BY DEF B!Entry
<1> USE DEF B!Kept, B!Gone, B!Failed
<1>3. \A a : "current" \in a \/ "entries" \in a \/ "plugin" \in a \/ "rules" \in a
              \/ "full" \in a \/ "failed" \in a
              \/ "allow" \in a \/ "other" \in a \/ "array" \in a => a # {"kept"}
  OBVIOUS
<1>4. CASE c \in {"project", "web"} \/ f = "package"
  <2>1. x # {"absent"} BY <1>1, <1>4, FixedIs DEF Writes, B!fixProjectConfig, B!fixWebConf
  <2>2. /\ c = "project" => f = "project"
        /\ c = "web" => f = "web"
        /\ f = "package" => c = "plugins"
    BY DEF Writes
  <2>3. c = "project" => Holds(c, disk, dirs) \/ Lost(c, disk)
    BY <1>1, <2>1, <2>2 DEF x, Holds, Lost
  <2>4. c = "web" => Holds(c, disk, dirs) BY <2>1, <2>2 DEF x, Holds
  <2>5. QED BY <1>4, <2>2, <2>3, <2>4
<1>5. CASE c = "allow" /\ f = "settings"
  <2>1. B!fixSettingsAllowlist(x) = {"kept"} BY <1>1, <1>5, FixedIs
  <2>2. x # {"absent"} /\ "torn" \notin x /\ "allow" \in x
    <3>1. /\ {"array"} # {"kept"} /\ {"failed"} # {"kept"} /\ x \cup {"allow"} # {"kept"}
          /\ "other" \in x => x # {"kept"}
          /\ "allow" \notin {"absent"}
      OBVIOUS
    <3>2. QED BY <1>1, <2>1, <3>1 DEF B!fixSettingsAllowlist
  <2>3. QED BY <1>5, <2>2 DEF Holds, x
<1>6. CASE c = "hook" /\ f = "settings"
  <2>1. B!fixSettingsPermissionHook(x) = {"kept"} BY <1>1, <1>6, FixedIs
  <2>2. x = {"absent"} \/ "hook" \in x
    BY <1>1, <1>2, <2>1 DEF B!fixSettingsPermissionHook
  <2>3. QED BY <1>6, <2>2 DEF Holds, Lost, x
<1>7. CASE c = "index" /\ f = "index"
  <2>1. x # {"absent"} BY <1>1, <1>7, FixedIs DEF B!EnsureBootstrapped
  <2>2. QED BY <1>7, <2>1 DEF Holds, x
<1>8. CASE c \in {"fragments", "skills", "oscripts", "cscripts", "hooks"} \/ f = "plugins"
  <2>1. \/ c = "fragments" /\ f = "fragments"
        \/ c = "fragments" /\ f = "index"
        \/ c = "skills" /\ f = "skills"
        \/ c = "oscripts" /\ f = "oscripts"
        \/ c = "cscripts" /\ f = "cscripts"
        \/ c = "hooks" /\ f = "hooks"
        \/ c = "plugins" /\ f = "plugins"
    BY <1>8 DEF Writes
  <2>2. B!Fixed(c, f, x) # {"kept"}
    BY <1>3, <2>1, FixedIs DEF B!DoInstallStarfleet, B!DoInstallStarfleetSkills, B!DoReindex,
       B!PluginFiles, B!fixOpencodeScripts, B!fixClaudeScripts, B!fixClaudeHooks
  <2>3. QED BY <1>1, <2>2
<1>9. CASE c = "plugins" /\ f = "opencode"
  <2>1. B!PluginEntry(x) = {"kept"} BY <1>1, <1>9, FixedIs
  <2>2. B!loadOpencodePluginConfig(x) BY <1>3, <2>1 DEF B!PluginEntry
  <2>3. QED BY <1>9, <2>2 DEF x
<1>10. CASE c = "plan" /\ f = "opencode"
  <2>1. B!PlanAccess(x) = {"kept"} BY <1>1, <1>10, FixedIs
  <2>2. B!Ensured(x) BY <1>3, <2>1 DEF B!PlanAccess
  <2>3. QED BY <1>10, <2>2 DEF x, Holds
<1>11. CASE c = "ignore" /\ f = "ignore"
  <2>1. B!fixStarfleetAIGitignore(x) = {"kept"} BY <1>1, <1>11, FixedIs
  <2>2. "entries" \in x BY <1>3, <2>1 DEF B!fixStarfleetAIGitignore
  <2>3. QED BY <1>11, <2>2 DEF x, Holds
<1>12. CASE c = "gitignore" /\ f = "gitignore"
  <2>1. B!fixGitignoreClaudeHooks(x) = {"kept"} BY <1>1, <1>12, FixedIs
  <2>2. QED BY <1>3, <2>1 DEF B!fixGitignoreClaudeHooks
<1>13. QED
  BY <1>4, <1>5, <1>6, <1>7, <1>8, <1>9, <1>10, <1>11, <1>12 DEF Writes

LEMMA LoadKeeps ==
    ASSUME RepairInv, NEW p \in Runner, B!Load(p)
    PROVE  RepairInv'
<1> PICK o : o = run[p] OBVIOUS
<1> DEFINE c == B!Checks[o.check]
           f == Head(o.todo)
           y == B!Fixed(c, f, disk[f])
<1>1. /\ o \in RunRecord /\ RunOK(o) /\ AloneOK(o) /\ o.at = "fix" /\ o.todo # <<>>
      /\ c \in CheckNames /\ B!Now(p) = c /\ Rank[c] = o.check
      /\ <<c, f>> \in Writes /\ f \in B!File /\ Tail(o.todo) \in Rest(c) /\ Tail(o.todo) \in Seq(B!File)
      /\ o.fix /\ o.todo \in Rest(c)
  BY RunFields DEF B!Load, RunOK
<1>2. /\ run' = [run EXCEPT ![p] = CASE y = B!Failed -> B!Advance(p, FALSE)
                                   [] y = B!Kept -> [o EXCEPT !.todo = Tail(o.todo)]
                                   [] OTHER -> [o EXCEPT !.at = "open", !.new = y]]
      /\ UNCHANGED <<disk, dirs>>
  BY <1>1 DEF B!Load
<1>3. /\ disk[f] \subseteq B!Entry /\ ("absent" \in disk[f] => disk[f] = {"absent"})
      /\ (f = "index" => disk[f] \subseteq {"absent", "header", "full"})
  BY <1>1 DEF RepairInv, FilesOK
<1>4. o.alone => Progress(c, o.todo, disk, dirs) BY <1>1 DEF AloneOK
<1>5. FilesOK' /\ DirsOK' BY <1>2 DEF RepairInv, FilesOK, DirsOK
<1>6. B!Kept # B!Failed BY DEF B!Kept, B!Failed
<1>7. CASE y = B!Failed
  <2>1. run' = [run EXCEPT ![p] = B!Advance(p, FALSE)] BY <1>2, <1>6, <1>7
  <2>2. Lost(c, disk) \/ (c = "fragments" /\ f = "index") BY <1>1, <1>3, <1>7, FailsLost
  <2>3. o.alone => Holds(c, disk, dirs) \/ Lost(c, disk)
    <3>1. CASE c = "fragments" /\ f = "index"
      <4>1. o.alone => "current" \in disk["fragments"] BY <1>1, <1>4, <3>1, ProgressSays
      <4>2. QED BY <3>1, <4>1 DEF Holds
    <3>2. QED BY <2>2, <3>1
  <2>4. FALSE \in BOOLEAN /\ run[p].at = "fix" BY <1>1
  <2>5. run[p].alone /\ run[p].fix =>
            \/ Holds(B!Checks[run[p].check], disk, dirs)
            \/ ~FALSE /\ Lost(B!Checks[run[p].check], disk)
    <3>1. o.alone => Holds(B!Checks[o.check], disk, dirs) \/ Lost(B!Checks[o.check], disk) BY <2>3
    <3>2. QED BY <3>1
  <2>6. QED BY <1>2, <2>1, <2>4, <2>5, AdvanceKeeps
<1>8. CASE y = B!Kept
  <2> PICK r : r = [o EXCEPT !.todo = Tail(o.todo)] OBVIOUS
  <2>1. run' = [run EXCEPT ![p] = r] BY <1>2, <1>6, <1>8
  <2>2. /\ r \in RunRecord /\ r.at = "fix" /\ r.todo = Tail(o.todo) /\ r.fix = o.fix /\ r.new = o.new
        /\ r.check = o.check /\ r.ok = o.ok /\ r.found = o.found /\ r.alone = o.alone
    BY <1>1 DEF RunRecord
  <2>3. RunOK(r) /\ HomeOK(r)' BY <1>1, <2>2 DEF RunOK, HomeOK
  <2>4. Finally(r)' = disk /\ Finally(o) = disk /\ Past(r) = Past(o) BY <1>1, <1>2, <2>2 DEF Finally, Past
  <2>5. ASSUME r.alone PROVE PastOK(r)' /\ Stays(r)' /\ Progress(c, r.todo, disk, dirs)
    <3>1. PastOK(o) /\ Stays(o) /\ Progress(c, o.todo, disk, dirs) BY <1>1, <1>4, <2>2, <2>5 DEF AloneOK
    <3>2. PastOK(r)' BY <1>2, <2>2, <2>4, <3>1 DEF PastOK, Past
    <3>3. Stays(r)' BY <2>2, <2>4, <3>1 DEF Stays
    <3>4. Progress(c, Tail(o.todo), disk, dirs)
      <4>1. /\ c # "fragments" /\ f # "plugins"
            /\ c = "allow" => disk["settings"] # {"absent"}
            /\ c = "plugins" /\ f = "opencode" => B!loadOpencodePluginConfig(disk["opencode"])
            /\ c # "plugins" => Holds(c, disk, dirs) \/ Lost(c, disk)
        BY <1>1, <1>3, <1>8, KeptAlready
      <4>2. B!Mkdirs[c] \subseteq dirs /\ (c = "plugins" => "current" \in disk["plugins"])
        BY <1>1, <3>1, <4>1, ProgressSays
      <4>3. Tail(o.todo) = <<>> => Holds(c, disk, dirs) \/ Lost(c, disk)
        <5>1. CASE c = "plugins"
          <6>1. Tail(o.todo) = <<>> => f = "opencode"
            <7>1. <<"package", "opencode">> # <<>> /\ <<"opencode">> # <<>> OBVIOUS
            <7>2. QED BY <1>1, <5>1, <7>1, Tails
          <6>2. QED BY <4>1, <4>2, <5>1, <6>1 DEF Holds
        <5>2. QED BY <4>1, <5>1
      <4>4. QED BY <1>1, <4>1, <4>2, <4>3, ProgressGoes
    <3>5. QED BY <2>2, <3>2, <3>3, <3>4
  <2>6. AloneOK(r)' BY <1>2, <2>2, <2>5 DEF AloneOK
  <2>7. QED BY <1>2, <1>5, <2>1, <2>3, <2>6, RepairOne
<1>9. CASE y \notin {B!Kept, B!Failed}
  <2> PICK r : r = [o EXCEPT !.at = "open", !.new = y] OBVIOUS
  <2>1. run' = [run EXCEPT ![p] = r] BY <1>2, <1>9
  <2>2. Improves(c, f, disk[f], y) BY <1>1, <1>3, <1>9, FixesImprove
  <2>3. Whole(f, y) BY <2>2 DEF Improves, Whole
  <2>4. /\ r \in RunRecord /\ r.at = "open" /\ r.todo = o.todo /\ r.fix = o.fix /\ r.new = y
        /\ r.check = o.check /\ r.ok = o.ok /\ r.found = o.found /\ r.alone = o.alone
    <3>1. y \in SUBSET B!Entry BY <2>3 DEF Whole
    <3> HIDE DEF y
    <3>2. QED BY <1>1, <3>1 DEF RunRecord, Stages
  <2>5. RunOK(r) /\ HomeOK(r)' BY <1>1, <2>3, <2>4 DEF RunOK, HomeOK
  <2>6. Finally(r)' = disk /\ Finally(o) = disk /\ Past(r) = Past(o) BY <1>1, <1>2, <2>4 DEF Finally, Past
  <2>7. ASSUME r.alone PROVE PastOK(r)' /\ Stays(r)' /\ Progress(c, r.todo, disk, dirs)
    <3>1. PastOK(o) /\ Stays(o) /\ Progress(c, o.todo, disk, dirs) BY <1>1, <1>4, <2>4, <2>7 DEF AloneOK
    <3>2. PastOK(r)' BY <1>2, <2>4, <2>6, <3>1 DEF PastOK, Past
    <3>3. Stays(r)' BY <2>4, <2>6, <3>1 DEF Stays
    <3>4. QED BY <2>4, <3>1, <3>2, <3>3
  <2>8. y' = y BY <1>2 DEF B!Fixed, B!DoReindex
  <2>9. AloneOK(r)' BY <1>2, <2>4, <2>7, <2>8 DEF AloneOK
  <2>10. QED BY <1>2, <1>5, <2>1, <2>5, <2>9, RepairOne
<1>10. QED BY <1>7, <1>8, <1>9

\* The last write of a fix satisfies its check, or nothing can.
LEMMA LastWrite ==
    ASSUME NEW c \in CheckNames, NEW f, <<c, f>> \in Writes, NEW d, d \in [B!File -> SUBSET B!Entry],
           NEW e, NEW y, Improves(c, f, d[f], y),
           c = "allow" => d["settings"] # {"absent"},
           c = "fragments" => f = "index" /\ "current" \in d["fragments"],
           c = "plugins" => f = "opencode" /\ "current" \in d["plugins"]
    PROVE  Holds(c, [d EXCEPT ![f] = y], e) \/ Lost(c, [d EXCEPT ![f] = y])
<1> DEFINE n == [d EXCEPT ![f] = y]
<1>1. n[f] = y /\ \A g \in B!File \ {f} : n[g] = d[g]
  <2>1. f \in B!File BY DEF Writes, B!File
  <2>2. QED BY <2>1
<1> HIDE DEF n
<1> SUFFICES Holds(c, n, e) \/ Lost(c, n) BY DEF n
<1>2. y # {} /\ "absent" \notin y BY DEF Improves
<1>3. CASE c = "project"
  <2>1. f = "project" BY <1>3 DEF Writes
  <2>2. "torn" \notin y BY <2>1 DEF Improves
  <2>3. QED BY <1>1, <1>2, <1>3, <2>1, <2>2 DEF Holds
<1>4. CASE c = "allow"
  <2>1. f = "settings" BY <1>4 DEF Writes
  <2>2. "torn" \notin y /\ ("allow" \in y \/ "other" \in y) BY <1>4, <2>1 DEF Improves
  <2>3. QED BY <1>1, <1>4, <2>1, <2>2 DEF Holds, Lost
<1>5. CASE c = "hook"
  <2>1. f = "settings" BY <1>5 DEF Writes
  <2>2. "hook" \in y BY <1>5, <2>1 DEF Improves
  <2>3. QED BY <1>1, <1>5, <2>1, <2>2 DEF Holds
<1>6. CASE c = "index" \/ c = "web"
  <2>1. f = c BY <1>6 DEF Writes
  <2>2. y # {"absent"} BY <1>2
  <2>3. QED BY <1>1, <1>6, <2>1, <2>2 DEF Holds
<1>7. CASE c = "fragments"
  <2>1. n["fragments"] = d["fragments"] BY <1>1, <1>7 DEF B!File
  <2>2. QED BY <1>7, <2>1 DEF Holds
<1>8. CASE c \in {"skills", "oscripts", "cscripts", "hooks"}
  <2>1. f = c BY <1>8 DEF Writes
  <2>2. "current" \in y BY <1>8, <2>1 DEF Improves
  <2>3. QED BY <1>1, <1>8, <2>1, <2>2 DEF Holds
<1>9. CASE c = "plugins"
  <2>1. n["plugins"] = d["plugins"] /\ n["opencode"] = y BY <1>1, <1>9 DEF B!File
  <2>2. B!loadOpencodePluginConfig(y) BY <1>9 DEF Improves
  <2>3. QED BY <1>9, <2>1, <2>2 DEF Holds
<1>10. CASE c = "plan"
  <2>1. f = "opencode" BY <1>10 DEF Writes
  <2>2. B!Ensured(y) BY <1>10, <2>1 DEF Improves
  <2>3. QED BY <1>1, <1>10, <2>1, <2>2 DEF Holds
<1>11. CASE c = "ignore" \/ c = "gitignore"
  <2>1. f = c BY <1>11 DEF Writes
  <2>2. "entries" \in y BY <1>11, <2>1 DEF Improves
  <2>3. QED BY <1>1, <1>11, <2>1, <2>2 DEF Holds
<1>12. c \notin {"dirs", "plugindir", "hooksdir"} BY DEF Writes
<1>13. QED BY <1>3, <1>4, <1>5, <1>6, <1>7, <1>8, <1>9, <1>10, <1>11, <1>12 DEF CheckNames

\* To whom nobody has got in the way the directory is there.
LEMMA HomeThere ==
    ASSUME RepairInv, NEW p \in Runner, run[p].at = "open", run[p].alone,
           Head(run[p].todo) \in DOMAIN B!Home
    PROVE  B!Home[Head(run[p].todo)] \in dirs
<1> PICK o : o = run[p] OBVIOUS
<1> DEFINE c == B!Checks[o.check]
           f == Head(o.todo)
           y == B!Fixed(c, f, disk[f])
<1>1. /\ o \in RunRecord /\ RunOK(o) /\ AloneOK(o) /\ o.todo # <<>>
      /\ c \in CheckNames /\ Rank[c] = o.check /\ <<c, f>> \in Writes /\ f \in B!File
      /\ o.fix /\ o.new \subseteq B!Entry /\ o.new # {}
  BY RunFields DEF RunOK, Whole
<1>2. PastOK(o) /\ Progress(c, o.todo, disk, dirs) /\ o.new = y BY <1>1 DEF AloneOK
<1>3. B!Mkdirs[c] \subseteq dirs BY <1>2 DEF Progress
<1>4. ASSUME NEW b \in {"dirs", "plugindir"}, Rank[b] < Rank[c] PROVE Holds(b, disk, dirs)
  <2>1. b \in Past(o) BY <1>1, <1>4 DEF Past, CheckNames
  <2>2. Finally(o) = disk BY DEF Finally
  <2>3. ~Lost(b, disk) BY <1>4 DEF Lost
  <2>4. QED BY <1>2, <2>1, <2>2, <2>3 DEF PastOK
<1>5. DirsOK /\ FilesOK BY DEF RepairInv
<1>6. CASE f = "settings"
  <2>1. c = "allow" \/ c = "hook" BY <1>1, <1>6 DEF Writes
  <2>2. CASE c = "allow"
    <3>1. "claude" \in dirs BY <1>3, <2>2 DEF B!Mkdirs
    <3>2. QED BY <1>6, <3>1 DEF B!Home
  <2>3. CASE c = "hook"
    <3>1. y = B!fixSettingsPermissionHook(disk["settings"]) BY <1>6, <2>3, FixedIs
    <3>2. "kept" \notin B!Entry BY DEF B!Entry
    <3>3. y # {"kept"} BY <1>1, <1>2, <3>2
    <3>4. disk["settings"] # {"absent"}
      BY <3>1, <3>3 DEF B!fixSettingsPermissionHook, B!Gone, B!Kept
    <3>5. QED BY <1>5, <1>6, <3>4 DEF DirsOK, B!Home
  <2>4. QED BY <2>1, <2>2, <2>3
<1>7. CASE f = "opencode"
  <2>1. c = "plugins" \/ c = "plan" BY <1>1, <1>7 DEF Writes
  <2>2. "opencode" \in dirs
    <3>1. CASE c = "plugins" BY <1>3, <3>1 DEF B!Mkdirs
    <3>2. CASE c = "plan"
      <4>1. Rank["plugindir"] < Rank[c] BY <3>2 DEF Rank
      <4>2. "plugins" \in dirs BY <1>4, <4>1 DEF Holds
      <4>3. QED BY <1>5, <4>2 DEF DirsOK
    <3>3. QED BY <2>1, <3>1, <3>2
  <2>3. QED BY <1>7, <2>2 DEF B!Home
<1>8. CASE f = "package"
  <2>1. c = "plugins" BY <1>1, <1>8 DEF Writes
  <2>2. QED BY <1>3, <1>8, <2>1 DEF B!Mkdirs, B!Home
<1>9. CASE f = "ignore"
  <2>1. c = "ignore" BY <1>1, <1>9 DEF Writes
  <2>2. Rank["dirs"] < Rank[c] BY <2>1 DEF Rank
  <2>3. "conf" \in dirs BY <1>4, <2>2 DEF Holds
  <2>4. QED BY <1>5, <1>9, <2>3 DEF DirsOK, B!Home
<1>10. CASE f = "gitignore" BY <1>5, <1>10 DEF DirsOK, B!Home
<1>11. DOMAIN B!Home = {"settings", "opencode", "package", "ignore", "gitignore"} BY DEF B!Home
<1>12. QED BY <1>6, <1>7, <1>8, <1>9, <1>10, <1>11

LEMMA OpenKeeps ==
    ASSUME RepairInv, NEW p \in Runner, B!Open(p)
    PROVE  RepairInv'
<1> PICK o : o = run[p] OBVIOUS
<1> DEFINE c == B!Checks[o.check]
           f == Head(o.todo)
           y == B!Fixed(c, f, disk[f])
           n == [disk EXCEPT ![f] = o.new]
<1>1. /\ o \in RunRecord /\ RunOK(o) /\ AloneOK(o) /\ o.at = "open" /\ o.todo # <<>>
      /\ c \in CheckNames /\ B!Now(p) = c /\ Rank[c] = o.check
      /\ <<c, f>> \in Writes /\ f \in B!File /\ o.todo \in Rest(c) /\ o.fix /\ Whole(f, o.new)
  BY RunFields DEF B!Open, RunOK
<1>2. FilesOK /\ DirsOK BY DEF RepairInv
<1>3. CASE f \in DOMAIN B!Home /\ B!Home[f] \notin dirs
  <2>1. run' = [run EXCEPT ![p] = B!Advance(p, FALSE)] /\ UNCHANGED <<disk, dirs>>
    BY <1>1, <1>3 DEF B!Open
  <2>2. ~run[p].alone BY <1>1, <1>3, HomeThere
  <2>3. FALSE \in BOOLEAN /\ run[p].at = "open" BY <1>1
  <2>4. QED BY <2>1, <2>2, <2>3, AdvanceKeeps
<1>4. CASE ~(f \in DOMAIN B!Home /\ B!Home[f] \notin dirs)
  <2> PICK r : r = [o EXCEPT !.at = "write"] OBVIOUS
  <2>1. /\ run' = B!Disturb(p, r) /\ UNCHANGED dirs
        /\ disk' = IF B!Appends(c, disk[f]) THEN disk ELSE [disk EXCEPT ![f] = B!Emptied(f)]
    BY <1>1, <1>4 DEF B!Open
  <2>2. /\ r \in RunRecord /\ r.at = "write" /\ r.todo = o.todo /\ r.fix = o.fix /\ r.new = o.new
        /\ r.check = o.check /\ r.ok = o.ok /\ r.found = o.found /\ r.alone = o.alone
    BY <1>1 DEF RunRecord, Stages
  <2>3. RunOK(r) BY <1>1, <2>2 DEF RunOK
  <2>4. HomeOK(r)'
    <3>1. f = "settings" => "claude" \in dirs BY <1>4 DEF B!Home
    <3>2. QED BY <2>1, <2>2, <3>1 DEF HomeOK
  <2>5. B!Emptied(f) \subseteq {"torn"} /\ "torn" \in B!Entry /\ (f = "index" => B!Emptied(f) = {})
    BY DEF B!Emptied, B!Entry, B!Json
  <2>6. disk' \in [B!File -> SUBSET B!Entry] /\ \A g \in B!File : g # f => disk'[g] = disk[g]
    BY <1>1, <1>2, <2>1, <2>5 DEF FilesOK
  <2>7. disk'[f] = disk[f] \/ disk'[f] = B!Emptied(f) BY <1>1, <1>2, <2>1 DEF FilesOK
  <2>8. FilesOK'
    <3>1. \A g \in B!File : "absent" \in disk'[g] => disk'[g] = {"absent"}
      BY <1>2, <2>5, <2>6, <2>7 DEF FilesOK
    <3>2. disk'["index"] \subseteq {"absent", "header", "full"}
      BY <1>2, <2>5, <2>6, <2>7 DEF FilesOK, B!File
    <3>3. QED BY <2>6, <3>1, <3>2 DEF FilesOK
  <2>9. DirsOK'
    <3>1. disk'["settings"] # {"absent"} => "claude" \in dirs
      <4>1. CASE f = "settings" BY <1>4, <4>1 DEF B!Home
      <4>2. CASE f # "settings" BY <1>2, <2>6, <4>2 DEF DirsOK, B!File
      <4>3. QED BY <4>1, <4>2
    <3>2. QED BY <1>2, <2>1, <3>1 DEF DirsOK
  <2>10. ASSUME r.alone PROVE AloneOK(r)'
    <3>1. PastOK(o) /\ Stays(o) /\ Progress(c, o.todo, disk, dirs) /\ o.new = y
      BY <1>1, <2>2, <2>10 DEF AloneOK
    <3>2. disk \in [B!File -> SUBSET B!Entry] /\ disk[f] \subseteq B!Entry
          /\ ("absent" \in disk[f] => disk[f] = {"absent"})
          /\ (f = "index" => disk[f] \subseteq {"absent", "header", "full"})
      BY <1>1, <1>2 DEF FilesOK
    <3>3. y \notin {B!Kept, B!Failed}
      <4>1. "kept" \notin B!Entry /\ "failed" \notin B!Entry BY DEF B!Entry
      <4>2. o.new \subseteq B!Entry BY <1>1 DEF Whole
      <4> HIDE DEF y
      <4>3. QED BY <3>1, <4>1, <4>2 DEF B!Kept, B!Failed
    <3>4. Improves(c, f, disk[f], o.new)
      <4>1. Improves(c, f, disk[f], y) BY <1>1, <3>2, <3>3, FixesImprove
      <4>2. QED BY <3>1, <4>1
    <3>5. Finally(o) = disk BY <1>1 DEF Finally
    <3>6. Finally(r)' = n
      <4>1. Finally(r)' = [disk' EXCEPT ![f] = IF B!Appends(c, disk'[f]) THEN disk'[f] \cup o.new ELSE o.new]
        BY <2>2 DEF Finally, B!Appends
      <4>2. CASE B!Appends(c, disk[f])
        <5>1. c = "ignore" /\ disk[f] # {"absent"} /\ f = "ignore"
          BY <1>1, <4>2 DEF B!Appends, B!Gone, Writes
        <5>2. disk[f] \subseteq o.new BY <3>4, <5>1 DEF Improves
        <5>3. disk' = disk /\ disk[f] \cup o.new = o.new BY <2>1, <4>2, <5>2
        <5>4. QED BY <4>1, <5>3
      <4>3. CASE ~B!Appends(c, disk[f])
        <5>1. disk' = [disk EXCEPT ![f] = B!Emptied(f)] BY <2>1, <4>3
        <5>2. disk'[f] = B!Emptied(f) BY <1>1, <3>2, <5>1
        <5>3. B!Appends(c, disk'[f]) => disk'[f] = {}
          BY <1>1, <5>2 DEF B!Appends, B!Emptied, B!Json, Writes
        <5>4. Finally(r)' = [disk' EXCEPT ![f] = o.new]
          <6>1. CASE B!Appends(c, disk'[f])
            <7>1. disk'[f] \cup o.new = o.new BY <5>3, <6>1
            <7>2. QED BY <4>1, <6>1, <7>1
          <6>2. CASE ~B!Appends(c, disk'[f]) BY <4>1, <6>2
          <6>3. QED BY <6>1, <6>2
        <5>5. [disk' EXCEPT ![f] = o.new] = n BY <1>1, <3>2, <5>1
        <5>6. QED BY <5>4, <5>5
      <4>4. QED BY <4>2, <4>3
    <3> HIDE DEF y, n
    <3>7. n \in [B!File -> SUBSET B!Entry] /\ n[f] = o.new /\ \A g \in B!File : g # f => n[g] = disk[g]
      BY <1>1, <3>2 DEF n, Whole
    <3>8. PastOK(r)'
      <4>1. Past(r) = Past(o) BY <1>1, <2>2 DEF Past
      <4>2. ASSUME NEW b \in Past(o) PROVE Holds(b, n, dirs) \/ (~o.ok /\ Lost(b, n))
        <5>1. b \in CheckNames /\ Rank[b] < Rank[c] BY <1>1, <4>2 DEF Past
        <5>2. Holds(b, disk, dirs) \/ (~o.ok /\ Lost(b, disk)) BY <3>1, <3>5, <4>2 DEF PastOK
        <5>3. /\ Holds(b, disk, dirs) => Holds(b, n, dirs)
              /\ Lost(b, disk) => Lost(b, n)
          BY <1>1, <3>2, <3>4, <5>1, EarlierStay DEF n
        <5>4. QED BY <5>2, <5>3
      <4>3. QED BY <2>1, <2>2, <3>6, <4>1, <4>2 DEF PastOK, Past
    <3>9. Stays(r)'
      <4>1. ASSUME NEW u \in o.found
            PROVE  \/ u[2] \in n[u[1]]
                   \/ u[1] = "opencode" /\ (u[2] \in {"odd", "scalar"} \/ <<"opencode", "torn">> \in o.found)
        <5>1. u[1] \in B!File /\ u[2] \in Users BY <1>1, <4>1 DEF RunRecord
        <5>2. \/ u[2] \in disk[u[1]]
              \/ u[1] = "opencode" /\ (u[2] \in {"odd", "scalar"} \/ <<"opencode", "torn">> \in o.found)
          BY <3>1, <3>5, <4>1 DEF Stays
        <5>3. CASE u[1] # f BY <3>7, <5>1, <5>2, <5>3
        <5>4. CASE u[1] = f
          <6>1. KeepsUsers(f, disk[f], o.new) BY <3>4 DEF Improves
          <6>2. "torn" \in disk["opencode"] => <<"opencode", "torn">> \in o.found
            BY <3>1, <3>5 DEF Stays
          <6>3. QED BY <3>7, <5>1, <5>2, <5>4, <6>1, <6>2 DEF KeepsUsers
        <5>5. QED BY <5>3, <5>4
      <4>2. "torn" \in n["opencode"] => <<"opencode", "torn">> \in o.found
        <5>1. CASE f = "opencode" BY <3>4, <3>7, <5>1 DEF Improves
        <5>2. CASE f # "opencode" BY <3>1, <3>5, <3>7, <5>2 DEF Stays, B!File
        <5>3. QED BY <5>1, <5>2
      <4>3. QED BY <2>2, <3>6, <4>1, <4>2 DEF Stays
    <3>10. Progress(c, Tail(o.todo), n, dirs)
      <4>1. /\ B!Mkdirs[c] \subseteq dirs
            /\ c = "allow" /\ Tail(o.todo) = <<>> => disk["settings"] # {"absent"}
            /\ c = "fragments" /\ f # "fragments" => "current" \in disk["fragments"]
            /\ c = "plugins" /\ f # "plugins" => "current" \in disk["plugins"]
        BY <1>1, <3>1, ProgressSays
      <4>2. "absent" \notin o.new /\ (f \in {"fragments", "plugins"} => "current" \in o.new)
        BY <3>4 DEF Improves
      <4>3. c = "allow" => n["settings"] # {"absent"}
        <5>1. c = "allow" => f = "settings" BY <1>1 DEF Writes
        <5>2. QED BY <3>7, <4>2, <5>1
      <4>4. c = "fragments" => "current" \in n["fragments"]
        BY <3>7, <4>1, <4>2 DEF B!File
      <4>5. c = "plugins" => "current" \in n["plugins"]
        BY <3>7, <4>1, <4>2 DEF B!File
      <4>6. Tail(o.todo) = <<>> => Holds(c, n, dirs) \/ Lost(c, n)
        <5> SUFFICES ASSUME Tail(o.todo) = <<>> PROVE Holds(c, n, dirs) \/ Lost(c, n)
          OBVIOUS
        <5>1. (c = "fragments" => f = "index") /\ (c = "plugins" => f = "opencode")
          <6>1. <<"settings">> # <<>> /\ <<"index">> # <<>> /\ <<"package", "opencode">> # <<>>
                /\ <<"opencode">> # <<>>
            OBVIOUS
          <6>2. QED BY <1>1, <6>1, Tails
        <5>2. QED BY <1>1, <3>2, <3>4, <4>1, <5>1, LastWrite DEF n
      <4>7. QED BY <1>1, <4>1, <4>3, <4>4, <4>5, <4>6, ProgressGoes
    <3>11. \/ B!Appends(c, disk'[f])
           \/ disk'[f] = B!Emptied(f)
      BY <1>1, <2>1, <3>2
    <3>12. /\ Progress(c, Tail(r.todo), Finally(r), dirs)'
           /\ B!Appends(c, disk[f])' \/ (disk[f] = B!Emptied(f))'
      BY <2>1, <2>2, <3>6, <3>10, <3>11 DEF B!Appends, B!Emptied
    <3>13. QED BY <2>2, <3>8, <3>9, <3>12 DEF AloneOK
  <2>11. AloneOK(r)' BY <2>10 DEF AloneOK
  <2>12. dirs \subseteq dirs' BY <2>1
  <2>13. QED BY <2>1, <2>3, <2>4, <2>8, <2>9, <2>11, <2>12, RepairOne
<1>5. QED BY <1>3, <1>4

LEMMA WriteKeeps ==
    ASSUME RepairInv, NEW p \in Runner, B!Write(p)
    PROVE  RepairInv'
<1> PICK o : o = run[p] OBVIOUS
<1> DEFINE c == B!Checks[o.check]
           f == Head(o.todo)
<1> PICK r : r = [o EXCEPT !.at = "fix", !.todo = Tail(o.todo), !.new = {}] OBVIOUS
<1>1. /\ o \in RunRecord /\ RunOK(o) /\ AloneOK(o) /\ HomeOK(o) /\ o.at = "write" /\ o.todo # <<>>
      /\ c \in CheckNames /\ B!Now(p) = c
      /\ <<c, f>> \in Writes /\ f \in B!File /\ Tail(o.todo) \in Rest(c) /\ Tail(o.todo) \in Seq(B!File)
      /\ o.fix /\ Whole(f, o.new)
  BY RunFields DEF B!Write, RunOK, RepairInv
<1>2. PICK y \in {o.new} \cup (IF f \in B!Json /\ disk[f] # B!Emptied(f) THEN {{"torn"}} ELSE {}) :
          disk' = [disk EXCEPT ![f] = IF B!Appends(c, disk[f]) THEN disk[f] \cup y ELSE y]
  BY <1>1 DEF B!Write
<1>3. run' = B!Disturb(p, r) /\ UNCHANGED dirs BY DEF B!Write
<1>4. FilesOK /\ DirsOK BY DEF RepairInv
<1>5. /\ r \in RunRecord /\ r.at = "fix" /\ r.todo = Tail(o.todo) /\ r.fix = o.fix
      /\ r.check = o.check /\ r.ok = o.ok /\ r.found = o.found /\ r.alone = o.alone
  <2>1. {} \in SUBSET B!Entry OBVIOUS
  <2>2. QED BY <1>1, <2>1 DEF RunRecord, Stages
<1>6. RunOK(r) /\ HomeOK(r)' BY <1>1, <1>5 DEF RunOK, HomeOK
<1>7. y \subseteq B!Entry /\ "absent" \notin y /\ (f = "index" => y \subseteq {"header", "full"})
  <2>1. "torn" \in B!Entry /\ "index" \notin B!Json BY DEF B!Entry, B!Json
  <2>2. y = o.new \/ (y = {"torn"} /\ f \in B!Json) BY <1>2
  <2>3. QED BY <1>1, <2>1, <2>2 DEF Whole
<1>8. /\ disk' \in [B!File -> SUBSET B!Entry] /\ \A g \in B!File : g # f => disk'[g] = disk[g]
      /\ \/ disk'[f] = y
         \/ f = "ignore" /\ disk[f] # {"absent"} /\ disk'[f] = disk[f] \cup y
  <2>1. B!Appends(c, disk[f]) => f = "ignore" /\ disk[f] # {"absent"}
    BY <1>1 DEF B!Appends, B!Gone, Writes
  <2>2. QED BY <1>1, <1>2, <1>4, <1>7, <2>1 DEF FilesOK
<1>9. FilesOK'
  <2>1. \A g \in B!File : "absent" \in disk'[g] => disk'[g] = {"absent"}
    BY <1>4, <1>7, <1>8 DEF FilesOK
  <2>2. disk'["index"] \subseteq {"absent", "header", "full"}
    BY <1>4, <1>7, <1>8 DEF FilesOK, B!File
  <2>3. QED BY <1>8, <2>1, <2>2 DEF FilesOK
<1>10. DirsOK'
  <2>1. disk'["settings"] # {"absent"} => "claude" \in dirs
    <3>1. CASE f = "settings" BY <1>1, <3>1 DEF HomeOK
    <3>2. CASE f # "settings" BY <1>4, <1>8, <3>2 DEF DirsOK, B!File
    <3>3. QED BY <3>1, <3>2
  <2>2. QED BY <1>3, <1>4, <2>1 DEF DirsOK
<1>11. ASSUME r.alone PROVE AloneOK(r)'
  <2>1. /\ PastOK(o) /\ Stays(o) /\ Progress(c, Tail(o.todo), Finally(o), dirs)
        /\ B!Appends(c, disk[f]) \/ disk[f] = B!Emptied(f)
    BY <1>1, <1>5, <1>11 DEF AloneOK
  <2>2. y = o.new
    <3>1. B!Appends(c, disk[f]) => f \notin B!Json BY <1>1 DEF B!Appends, Writes, B!Json
    <3>2. QED BY <1>2, <2>1, <3>1
  <2>3. disk' = Finally(o) BY <1>1, <1>2, <2>2 DEF Finally
  <2>4. Finally(r)' = Finally(o) BY <1>5, <2>3 DEF Finally
  <2>5. Past(r) = Past(o) BY <1>1, <1>5 DEF Past
  <2>6. PastOK(r)' BY <1>3, <1>5, <2>1, <2>4, <2>5 DEF PastOK, Past
  <2>7. Stays(r)' BY <1>5, <2>1, <2>4 DEF Stays
  <2>8. Progress(c, r.todo, disk, dirs)' BY <1>3, <1>5, <2>1, <2>3
  <2>9. QED BY <1>5, <2>6, <2>7, <2>8 DEF AloneOK
<1>12. AloneOK(r)' BY <1>11 DEF AloneOK
<1>13. dirs \subseteq dirs' BY <1>3
<1>14. QED BY <1>3, <1>6, <1>9, <1>10, <1>12, <1>13, RepairOne

\* What a workspace is found to hold.
LEMMA FoundOK ==
    ASSUME NEW d \in Finds
    PROVE  /\ d \in [B!File -> SUBSET B!Entry]
           /\ \A f \in B!File : "absent" \in d[f] => d[f] = {"absent"}
           /\ d["index"] \subseteq {"absent", "header", "full"}
BY WorkspaceAssumption DEF B!BootstrapAssumption, B!Gone

LEMMA EditKeeps ==
    ASSUME RepairInv, NEW f \in {"settings", "opencode"}, NEW d \in Finds, B!Edit(f, d[f])
    PROVE  RepairInv'
<1>1. /\ disk' = [disk EXCEPT ![f] = d[f]]
      /\ dirs' = IF d[f] = {"absent"} THEN dirs ELSE dirs \cup {B!Home[f]}
      /\ run' = [q \in Runner |-> [run[q] EXCEPT !.alone = FALSE]]
  BY DEF B!Edit, B!Gone
<1>2. f \in B!File /\ d[f] \subseteq B!Entry /\ ("absent" \in d[f] => d[f] = {"absent"})
  BY FoundOK DEF B!File
<1>3. FilesOK /\ DirsOK BY DEF RepairInv
<1>4. /\ disk' \in [B!File -> SUBSET B!Entry] /\ \A g \in B!File : g # f => disk'[g] = disk[g]
      /\ disk'[f] = d[f]
  BY <1>1, <1>2, <1>3 DEF FilesOK
<1>5. FilesOK' BY <1>2, <1>3, <1>4 DEF FilesOK, B!File
<1>6. DirsOK'
  <2>1. B!Home["settings"] = "claude" /\ B!Home["opencode"] = "opencode" BY DEF B!Home
  <2>2. disk'["settings"] # {"absent"} => "claude" \in dirs'
    <3>1. CASE f = "settings" BY <1>1, <1>4, <2>1, <3>1
    <3>2. CASE f # "settings" BY <1>1, <1>3, <1>4, <3>2 DEF DirsOK, B!File
    <3>3. QED BY <3>1, <3>2
  <2>3. {"claude", "opencode"} \subseteq B!Directory BY DEF B!Directory
  <2>4. QED BY <1>1, <1>3, <2>1, <2>2, <2>3 DEF DirsOK
<1>7. ASSUME NEW q \in Runner
      PROVE  run'[q] \in RunRecord /\ RunOK(run[q])' /\ AloneOK(run[q])' /\ HomeOK(run[q])'
  <2>1. run[q] \in RunRecord /\ RunOK(run[q]) /\ HomeOK(run[q]) BY DEF RepairInv
  <2>2. run'[q] = [run[q] EXCEPT !.alone = FALSE] BY <1>1
  <2>3. /\ run'[q] \in RunRecord /\ run'[q].alone = FALSE
        /\ run'[q].at = run[q].at /\ run'[q].fix = run[q].fix /\ run'[q].todo = run[q].todo
        /\ run'[q].check = run[q].check /\ run'[q].new = run[q].new
    BY <2>1, <2>2 DEF RunRecord
  <2>4. dirs \subseteq dirs' BY <1>1
  <2>5. QED BY <2>1, <2>3, <2>4 DEF RunOK, AloneOK, HomeOK
<1>8. run' \in [Runner -> RunRecord] BY <1>1, <1>7
<1>9. QED BY <1>5, <1>6, <1>7, <1>8 DEF RepairInv

LEMMA RepairInit == B!Init => RepairInv
<1> SUFFICES ASSUME B!Init PROVE RepairInv OBVIOUS
<1>1. FilesOK BY FoundOK DEF B!Init, FilesOK
<1>2. DirsOK
  <2>1. DOMAIN B!Home = {"settings", "opencode", "package", "ignore", "gitignore"}
        /\ \A f \in DOMAIN B!Home : B!Home[f] \in {"claude", "opencode", "starfleet", "root"}
        /\ B!Home["settings"] = "claude"
    BY DEF B!Home
  <2>2. /\ "root" \in dirs /\ dirs \subseteq B!Directory
        /\ "plugins" \in dirs => "opencode" \in dirs
        /\ "conf" \in dirs => "starfleet" \in dirs
    BY <2>1 DEF B!Init, B!Directory
  <2>3. disk["settings"] # {"absent"} => "claude" \in dirs
    BY <2>1 DEF B!Init, B!Gone
  <2>4. QED BY <2>2, <2>3 DEF DirsOK
<1>3. B!Idle \in RunRecord /\ B!Idle.at = "idle"
  <2>1. <<>> \in Seq(B!File) OBVIOUS
  <2>2. QED BY <2>1 DEF RunRecord, Stages, B!Idle
<1>4. run = [p \in Runner |-> B!Idle] BY DEF B!Init
<1> HIDE DEF B!Idle
<1>5. run \in [Runner -> RunRecord] BY <1>3, <1>4
<1>6. \A p \in Runner : RunOK(run[p]) /\ AloneOK(run[p]) /\ HomeOK(run[p])
  BY <1>3, <1>4 DEF RunOK, AloneOK, HomeOK
<1>7. QED BY <1>1, <1>2, <1>5, <1>6 DEF RepairInv

LEMMA RepairInductive == B!Spec => []RepairInv
<1>1. RepairInv /\ [B!Next]_bvars => RepairInv'
  <2> SUFFICES ASSUME RepairInv, [B!Next]_bvars PROVE RepairInv' OBVIOUS
  <2>1. ASSUME NEW p \in Runner, NEW fix \in BOOLEAN, B!Begin(p, fix) PROVE RepairInv'
    BY <2>1, BeginKeeps
  <2>2. ASSUME NEW p \in Runner, B!Verify(p) PROVE RepairInv' BY <2>2, VerifyKeeps
  <2>3. ASSUME NEW p \in Runner, B!Load(p) PROVE RepairInv' BY <2>3, LoadKeeps
  <2>4. ASSUME NEW p \in Runner, B!Open(p) PROVE RepairInv' BY <2>4, OpenKeeps
  <2>5. ASSUME NEW p \in Runner, B!Write(p) PROVE RepairInv' BY <2>5, WriteKeeps
  <2>6. ASSUME NEW p \in Runner, B!Reverify(p) PROVE RepairInv' BY <2>6, ReverifyKeeps
  <2>7. ASSUME NEW p \in Runner, B!Crash(p) PROVE RepairInv' BY <2>7, CrashKeeps
  <2>8. ASSUME NEW f \in {"settings", "opencode"}, NEW d \in Finds, B!Edit(f, d[f]) PROVE RepairInv'
    BY <2>8, EditKeeps
  <2>9. CASE UNCHANGED bvars
    <3>1. disk' = disk /\ dirs' = dirs /\ run' = run BY <2>9 DEF bvars
    <3>2. FilesOK' /\ DirsOK' /\ run' \in [Runner -> RunRecord]
      BY <3>1 DEF RepairInv, FilesOK, DirsOK
    <3>3. ASSUME NEW q \in Runner PROVE RunOK(run[q])' /\ AloneOK(run[q])' /\ HomeOK(run[q])'
      <4>1. RunOK(run[q]) /\ AloneOK(run[q]) /\ HomeOK(run[q]) BY DEF RepairInv
      <4>2. Finally(run[q])' = Finally(run[q]) BY <3>1 DEF Finally, B!Appends
      <4>3. \A c, f, x : B!Fixed(c, f, x)' = B!Fixed(c, f, x) BY <3>1 DEF B!Fixed, B!DoReindex
      <4>4. QED BY <3>1, <4>1, <4>2, <4>3 DEF RunOK, AloneOK, PastOK, Past, Stays, HomeOK
    <3>4. QED BY <3>2, <3>3 DEF RepairInv
  <2>10. QED BY <2>1, <2>2, <2>3, <2>4, <2>5, <2>6, <2>7, <2>8, <2>9 DEF B!Next
<1>2. QED BY <1>1, RepairInit, PTL DEF B!Spec, B!vars, bvars

\* run.go, usage: when "bootstrap --fix" is over and nobody has got in its
\* way, every check is satisfied but those that no fix can satisfy, and it
\* has reported success only if all are.
THEOREM RepairsSuffice == B!Spec => []RepairSuffices
<1>1. RepairInv => RepairSuffices
  <2> SUFFICES ASSUME RepairInv, NEW p \in Runner, run[p].at = "over", run[p].fix, run[p].alone
               PROVE  LET open == {c \in B!Check : ~B!Verified(c)}
                      IN  open \subseteq B!Hopeless /\ (run[p].ok => open = {})
    BY DEF RepairSuffices, B!RepairSuffices
  <2>1. PastOK(run[p]) /\ Past(run[p]) = CheckNames /\ Finally(run[p]) = disk
    BY DEF RepairInv, AloneOK, Past, Finally
  <2>2. ASSUME NEW c \in B!Check, ~B!Verified(c) PROVE ~run[p].ok /\ c \in B!Hopeless
    <3>1. c \in CheckNames BY Numbered
    <3>2. ~Holds(c, disk, dirs) BY <2>2, <3>1, HoldsIs
    <3>3. ~run[p].ok /\ Lost(c, disk) BY <2>1, <3>1, <3>2 DEF PastOK
    <3>4. QED BY <3>3, LostIs
  <2>3. QED BY <2>2
<1>2. QED BY <1>1, RepairInductive, PTL

\* checks.go, "merge, never clobber": a run in whose way nobody has got leaves
\* what the user had put into the files, but for what opencode.json cannot
\* keep.
THEOREM UsersKept == B!Spec => []UsersAreKept
<1>1. RepairInv => UsersAreKept
  <2> SUFFICES ASSUME RepairInv, NEW p \in Runner, run[p].at = "over", run[p].alone,
                      NEW o \in run[p].found
               PROVE  \/ o[2] \in disk[o[1]]
                      \/ o[1] = "opencode" /\ (o[2] \in {"odd", "scalar"} \/ <<"opencode", "torn">> \in run[p].found)
    BY DEF UsersAreKept, B!UsersAreKept
  <2>1. Stays(run[p]) /\ Finally(run[p]) = disk BY DEF RepairInv, AloneOK, Finally
  <2>2. QED BY <2>1 DEF Stays
<1>2. QED BY <1>1, RepairInductive, PTL

LEMMA RepairTypes == RepairInv => B!TypeOK
<1> SUFFICES ASSUME RepairInv PROVE B!TypeOK OBVIOUS
<1>1. FilesOK /\ DirsOK BY DEF RepairInv
<1>2. ASSUME NEW p \in Runner
      PROVE  /\ run[p].at \in {"idle", "verify", "fix", "open", "write", "over"}
             /\ run[p].check \in 1 .. 17 /\ run[p].todo \in Seq(B!File) /\ run[p].new \subseteq B!Entry
  BY DEF RepairInv, RunRecord, Stages
<1>3. QED BY <1>1, <1>2 DEF B!TypeOK, FilesOK, DirsOK, B!Gone

\* Topics, fragments and what is set up keep to their types.
THEOREM WorkspaceTypes == Spec /\ S!Spec /\ B!Spec => []TypesOK
<1>1. SopInv => S!TypeOK BY DEF SopInv
<1>2. TypeOK /\ S!TypeOK /\ B!TypeOK => TypesOK BY DEF TypesOK
<1>3. QED BY <1>1, <1>2, TaskTypes, SopInductive, RepairInductive, RepairTypes, PTL
=============================================================================
