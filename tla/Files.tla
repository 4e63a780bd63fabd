-------------------------------- MODULE Files --------------------------------
(***************************************************************************)
(* Files that several processes rewrite without a lock, side by side:      *)
(* timers (Timers), the verdicts on models (ModelHealth), the temporary    *)
(* files (FileStore), the reports (Reports) and the settings that the      *)
(* console edits (Settings).  They share no state.                         *)
(***************************************************************************)
EXTENDS Timers

CONSTANTS
    Model, Loop, Checker, Probing, Worlds, MaxTries, MaxChecks, MaxChanges,     \* of ModelHealth
    Name, User, Data, Attached, Crews, MaxTTL, MaxAge,                          \* of FileStore
    ReportId, Sender, Drafts, Olds,                                             \* of Reports
    Key, Sub, Scalar, Item, Page, Comment, Texts, Yamls, Others, MaxSaves,      \* of Settings
    None, NoFile, Broken

VARIABLES
    world, changes, checks, cache, check, content, tmp, path,
    disk, time, job, left, kept, until,
    eml, json, use, sent, deleted,
    yaml, save, saves, between

hvars == <<world, changes, checks, cache, check, content, tmp, path>>
fvars == <<disk, time, job, left, kept, until>>
rvars == <<eml, json, use, sent, deleted>>
yvars == <<yaml, save, saves, between>>

H == INSTANCE ModelHealth WITH Torn <- Broken

F == INSTANCE FileStore WITH Client <- User, MaxTime <- MaxAge, Absent <- NoFile,
                             Torn <- Broken, now <- time, op <- job

R == INSTANCE Reports WITH Id <- ReportId, Client <- Sender, Partly <- Broken, op <- use

Y == INSTANCE Settings WITH Files <- Yamls, Torn <- Broken, file <- yaml, crossed <- between

ASSUME FilesAssumption ==
    /\ H!ModelHealthAssumption /\ F!FileStoreAssumption
    /\ R!ReportsAssumption /\ Y!SettingsAssumption

-----------------------------------------------------------------------------
\* All the files keep to their types.
TypesOK == TypeOK /\ H!TypeOK /\ F!TypeOK /\ R!TypeOK /\ Y!TypeOK

\* filestore.go, comment: a prune removes what has expired (see FileStore).
ExpiredIsPruned == F!ExpiredIsPruned

\* Create and parseRFC2822Format: a report reads as it was sent (see Reports).
ReportReadsBack == R!ReportReadsBack

\* Delete: a deleted report is gone for good (see Reports).
DeletedIsGone == R!DeletedIsGone

\* mergeYAMLNodes: what a page has saved is in the file (see Settings).
SaveTakesEffect == Y!SaveTakesEffect
=============================================================================
