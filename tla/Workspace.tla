------------------------------ MODULE Workspace ------------------------------
(***************************************************************************)
(* The files of a workspace that several programs change without a lock,   *)
(* side by side: the topics of tasks (Task), the standing instructions     *)
(* (Sops) and what "bootstrap" sets up (Bootstrap).  They share no state.  *)
(***************************************************************************)
EXTENDS Task

CONSTANTS
    SopSlug, SopActor, SopCrews, MaxVersion,    \* of Sops
    Runner, MaxRun, MaxEdit, MaxCrash, Finds    \* of Bootstrap

VARIABLES
    sopCrew, frag, made, index, sopHead, staged, sopJob,
    disk, dirs, run, left

svars == <<sopCrew, frag, made, index, sopHead, staged, sopJob>>
bvars == <<disk, dirs, run, left>>

S == INSTANCE Sops WITH Slug <- SopSlug, Actor <- SopActor, Crews <- SopCrews,
                        crew <- sopCrew, head <- sopHead, job <- sopJob

B == INSTANCE Bootstrap

ASSUME WorkspaceAssumption == S!SopsAssumption /\ B!BootstrapAssumption

-----------------------------------------------------------------------------
\* Topics, fragments and the files of the set-up keep to their types.
TypesOK == TypeOK /\ S!TypeOK /\ B!TypeOK

\* sop, DoReindex: a command that nobody has crossed leaves a true index (see
\* Sops).
IndexIsTrue == S!IndexIsTrue

\* web.go, apiSOPUpdate: what the console reports as done is committed (see
\* Sops).
ConsoleCommits == S!ConsoleCommits

\* bootstrap --fix sets everything up that it can (see Bootstrap).
RepairSuffices == B!RepairSuffices

\* bootstrap --fix leaves what is the user's (see Bootstrap).
UsersAreKept == B!UsersAreKept
=============================================================================
