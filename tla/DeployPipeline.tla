--------------------------- MODULE DeployPipeline ---------------------------
(***************************************************************************)
(* templates/cicd/deploy.yml: one deployment after another (concurrency    *)
(* group, lines 8-10) against one host.  The remote script runs under      *)
(* set -e: a command that fails, like a connection that is lost, ends the  *)
(* deployment where it stands.  Supervisor keeps the service running from  *)
(* whatever current points to when it starts it (supervisor/webapp.conf,   *)
(* scripts/gunicorn_start.sh).                                             *)
(***************************************************************************)
EXTENDS Naturals, FiniteSets

CONSTANT MaxDeploys   \* bound on the deployments explored

ASSUME PipelineAssumption == MaxDeploys \in Nat

\* ls -1dt | tail -n +6: the five latest releases stay.
Kept == 5

VARIABLES releases,   \* the directories under releases/, in timestamp order
          latest,     \* RELEASE_TS of the deployment in progress, or of the last
          current,    \* where the link current points, 0 if it does not exist
          previous,   \* where the link previous points
          running,    \* the release the service was started from, 0 if it is down
          stage,      \* the next command of the remote script
          before,     \* history: current when the deployment saved it
          verified,   \* history: the releases that passed a health check
          exported    \* the environment of the host's shell has RELEASES_DIR

vars == <<releases, latest, current, previous, running, stage, before, verified, exported>>

Stages == {"idle", "build", "save", "cutover", "restart", "reload", "health", "relink",
           "restore", "prune"}

Init == /\ releases = {}
        /\ latest = 0
        /\ current = 0
        /\ previous = 0
        /\ running = 0
        /\ stage = "idle"
        /\ before = 0
        /\ verified = {}
        /\ exported \in BOOLEAN

-----------------------------------------------------------------------------
CreateRelease ==
    /\ stage = "idle"
    /\ latest < MaxDeploys
    /\ latest' = latest + 1
    /\ releases' = releases \cup {latest + 1}
    /\ stage' = "build"
    /\ UNCHANGED <<current, previous, running, before, verified, exported>>

\* rsync, the virtual environment, the shared links, the import of main.
Build ==
    /\ stage = "build"
    /\ stage' = "save"
    /\ UNCHANGED <<releases, latest, current, previous, running, before, verified, exported>>

\* Wrong: the pointer is saved only if there is none yet.
SaveFirstPrevious ==
    /\ stage = "save"
    /\ previous' = IF current # 0 /\ previous = 0 THEN current ELSE previous
    /\ before' = current
    /\ stage' = "cutover"
    /\ UNCHANGED <<releases, latest, current, running, verified, exported>>

SavePrevious ==
    /\ stage = "save"
    /\ previous' = IF current # 0 THEN current ELSE previous
    /\ before' = current
    /\ stage' = "cutover"
    /\ UNCHANGED <<releases, latest, current, running, verified, exported>>

Cutover ==
    /\ stage = "cutover"
    /\ current' = latest
    /\ stage' = "restart"
    /\ UNCHANGED <<releases, latest, previous, running, before, verified, exported>>

Restart ==
    /\ stage = "restart"
    /\ running' = current
    /\ stage' = "reload"
    /\ UNCHANGED <<releases, latest, current, previous, before, verified, exported>>

\* nginx -t && systemctl reload: a refused configuration is only not loaded,
\* the script goes on.
Reload ==
    /\ stage = "reload"
    /\ stage' = "health"
    /\ UNCHANGED <<releases, latest, current, previous, running, before, verified, exported>>

HealthPasses ==
    /\ stage = "health"
    /\ running # 0
    /\ verified' = verified \cup {running}
    /\ stage' = "prune"
    /\ UNCHANGED <<releases, latest, current, previous, running, before, exported>>

\* Wrong: previous is taken to exist.
HealthFailsUnchecked ==
    /\ stage = "health"
    /\ stage' = "relink"
    /\ UNCHANGED <<releases, latest, current, previous, running, before, verified, exported>>

HealthFails ==
    /\ stage = "health"
    /\ stage' = IF previous # 0 THEN "relink" ELSE "idle"
    /\ UNCHANGED <<releases, latest, current, previous, running, before, verified, exported>>

Relink ==
    /\ stage = "relink"
    /\ current' = previous
    /\ stage' = "restore"
    /\ UNCHANGED <<releases, latest, previous, running, before, verified, exported>>

\* supervisorctl restart and the reload; then exit 1.
Restore ==
    /\ stage = "restore"
    /\ running' = current
    /\ stage' = "idle"
    /\ UNCHANGED <<releases, latest, current, previous, before, verified, exported>>

\* Wrong: the releases are listed oldest first, and the oldest stay.
OldestReleases == {r \in releases : Cardinality({s \in releases : s < r}) < Kept}

\* ls -1dt lists by modification time.  A release is numbered when its directory
\* is made and only its own deployment writes there: the two orders are the same.
NewestReleases == {r \in releases : Cardinality({s \in releases : s > r}) < Kept}

\* RELEASES_DIR is set in the first of the two remote scripts only: under
\* set -u this one ends here, unless the host's environment provides it.
PruneUnset ==
    /\ stage = "prune"
    /\ ~exported
    /\ stage' = "idle"
    /\ UNCHANGED <<releases, latest, current, previous, running, before, verified, exported>>

\* rm -rf of the others; cut short, it has removed some of them.
Prune ==
    /\ stage = "prune"
    /\ exported
    /\ \E removed \in SUBSET (releases \ NewestReleases) : releases' = releases \ removed
    /\ stage' = "idle"
    /\ UNCHANGED <<latest, current, previous, running, before, verified, exported>>

\* A command fails or the connection is lost.  A restart that fails has
\* stopped the old service first.
Abort ==
    /\ stage \notin {"idle", "prune"}
    /\ stage' = "idle"
    /\ running' \in IF stage \in {"restart", "restore"} THEN {0, running} ELSE {running}
    /\ UNCHANGED <<releases, latest, current, previous, before, verified, exported>>

\* autorestart and autostart: a service that dies, or whose host restarts, is
\* started again from current.
Respawn ==
    /\ current # 0
    /\ running' = current
    /\ UNCHANGED <<releases, latest, current, previous, stage, before, verified, exported>>

Next ==
    \/ CreateRelease \/ Build \/ SavePrevious \/ Cutover \/ Restart \/ Reload
    \/ HealthPasses \/ HealthFails \/ Relink \/ Restore
    \/ PruneUnset \/ Prune
    \/ Abort
    \/ Respawn

Spec == Init /\ [][Next]_vars

-----------------------------------------------------------------------------
PipelineTypeOK == /\ releases \subseteq 1..MaxDeploys
                  /\ latest \in 0..MaxDeploys
                  /\ current \in 0..MaxDeploys
                  /\ previous \in 0..MaxDeploys
                  /\ running \in 0..MaxDeploys
                  /\ stage \in Stages
                  /\ before \in 0..MaxDeploys
                  /\ verified \subseteq 1..MaxDeploys
                  /\ exported \in BOOLEAN
                  /\ stage = "relink" => previous # 0

(***************************************************************************)
(* Whatever was aborted, rolled back or pruned before, the release current *)
(* points to and the one the service runs from are still on disk (deploy.  *)
(* yml 83, 86, 96-97 against the prune of 108).                            *)
(***************************************************************************)
LiveReleasesExist == {current, running} \subseteq releases \cup {0}

(***************************************************************************)
(* A rollback goes to the release that was current when this deployment    *)
(* began, and that release is still there: the pointer of line 79 is this  *)
(* deployment's own, not one an earlier, aborted deployment left.          *)
(***************************************************************************)
RollbackUndoesTheCutover ==
    [][(stage = "relink" /\ stage' = "restore") =>
            current' = before /\ before \in releases /\ before # latest]_vars

Promise == INSTANCE Rollout WITH prepared <- latest, live <- current,
              pending <- stage \in {"build", "save", "cutover"},
              undo <- IF stage \in {"restart", "reload", "health", "relink"}
                      THEN before ELSE 0

(***************************************************************************)
(* To whoever follows current, the pipeline publishes each release once    *)
(* and takes back at most the last one, whatever was aborted, failed or    *)
(* pruned on the way (deploy.yml 76-101).                                  *)
(***************************************************************************)
ImplementsRollout == Promise!Spec

-----------------------------------------------------------------------------
(***************************************************************************)
(* references/deployment/01_atomic_deployment.md 68-72: an automatic       *)
(* rollback relinks current to previous and verifies previous's health: it *)
(* ends on a release that has been seen healthy, if there is any.          *)
(***************************************************************************)
RollbackEndsVerified ==
    [][(stage = "restore" /\ stage' = "idle" /\ running' # 0 /\ verified # {})
            => current' \in verified]_vars
=============================================================================
