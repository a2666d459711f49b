------------------------ MODULE DeployPipelineProofs -------------------------
(***************************************************************************)
(* Theorems about DeployPipeline, for any number of deployments.           *)
(***************************************************************************)
EXTENDS DeployPipeline, FiniteSetTheorems, TLAPS

\* What each command of the script still has to rely on.
ScriptOK ==
    /\ \A r \in releases : r <= latest
    /\ stage # "idle" => latest \in releases
    /\ stage \in {"build", "save", "cutover"} => current # latest
    /\ stage \in {"restart", "reload", "health", "relink", "prune"} => current = latest
    /\ stage \in {"reload", "health", "relink", "prune"} => running = latest
    /\ current = 0 => previous = 0
    /\ stage = "cutover" => before = current
    /\ stage \in {"cutover", "restart", "reload", "health", "relink"} =>
          previous = before /\ before \in releases \cup {0} /\ before # latest

(* The inductive invariant of the pipeline.                                *)
PipelineOK == PipelineTypeOK /\ ScriptOK /\ LiveReleasesExist

(* The release being deployed is never among those the prune removes: none *)
(* is newer.                                                               *)
LEMMA PruneSparesLatest ==
    ASSUME PipelineOK, stage = "prune"
    PROVE  latest \in NewestReleases
  <1>1. {s \in releases : s > latest} = {}
    <2>1. ASSUME NEW s \in releases
          PROVE  ~(s > latest)
      BY PipelineAssumption DEF PipelineOK, ScriptOK, PipelineTypeOK
    <2> QED
      BY <2>1
  <1>2. Cardinality({s \in releases : s > latest}) < Kept
    BY <1>1, FS_EmptySet DEF Kept
  <1> QED
    BY <1>2 DEF NewestReleases, PipelineOK, ScriptOK

(* The first deployment finds an empty host.                               *)
LEMMA InitPipeline == Init => PipelineOK
  BY PipelineAssumption
  DEF Init, PipelineOK, PipelineTypeOK, ScriptOK, LiveReleasesExist, Stages

(* Every command, completed or not, and every restart of the service keep  *)
(* the pipeline in order.                                                  *)
LEMMA PipelineStep ==
    ASSUME PipelineOK, [Next]_vars
    PROVE  PipelineOK'
  <1> USE PipelineAssumption DEF PipelineOK, PipelineTypeOK, ScriptOK, LiveReleasesExist, Stages
  <1>1. CASE CreateRelease
    BY <1>1 DEF CreateRelease
  <1>2. CASE Build
    BY <1>2 DEF Build
  <1>3. CASE SavePrevious
    BY <1>3 DEF SavePrevious
  <1>4. CASE Cutover
    BY <1>4 DEF Cutover
  <1>5. CASE Restart
    BY <1>5 DEF Restart
  <1>6. CASE Reload
    BY <1>6 DEF Reload
  <1>7. CASE HealthPasses
    BY <1>7 DEF HealthPasses
  <1>8. CASE HealthFails
    BY <1>8 DEF HealthFails
  <1>9. CASE Relink
    BY <1>9 DEF Relink
  <1>10. CASE Restore
    BY <1>10 DEF Restore
  <1>11. CASE Prune
    <2>1. latest \in releases' /\ releases' \subseteq releases
      BY <1>11, PruneSparesLatest DEF Prune
    <2> QED
      BY <1>11, <2>1 DEF Prune
  <1>12. CASE Abort
    BY <1>12 DEF Abort
  <1>13. CASE Respawn
    BY <1>13 DEF Respawn
  <1>14. CASE PruneUnset
    BY <1>14 DEF PruneUnset
  <1>15. CASE UNCHANGED vars
    BY <1>15 DEF vars
  <1> QED
    BY <1>1, <1>2, <1>3, <1>4, <1>5, <1>6, <1>7, <1>8, <1>9, <1>10, <1>11, <1>12, <1>13,
       <1>14, <1>15 DEF Next

(* Every variable has its type, and the script is about to relink only     *)
(* where its test of previous succeeded (deploy.yml 29-108).               *)
THEOREM PipelineTypeCorrect == Spec => []PipelineTypeOK
  <1>1. PipelineOK => PipelineTypeOK
    BY DEF PipelineOK
  <1> QED
    BY <1>1, InitPipeline, PipelineStep, PTL DEF Spec

(* However many deployments were aborted, rolled back and pruned, what is  *)
(* live is on disk (deploy.yml 83-108).                                    *)
THEOREM LiveStaysOnDisk == Spec => []LiveReleasesExist
  <1>1. PipelineOK => LiveReleasesExist
    BY DEF PipelineOK
  <1> QED
    BY <1>1, InitPipeline, PipelineStep, PTL DEF Spec

(* A rollback undoes the cutover of its own deployment (deploy.yml 76-96). *)
THEOREM RollbackIsOwn == Spec => RollbackUndoesTheCutover
  <1>1. ASSUME PipelineOK, [Next]_vars
        PROVE  [(stage = "relink" /\ stage' = "restore") =>
                    current' = before /\ before \in releases /\ before # latest]_vars
    BY <1>1 DEF PipelineOK, PipelineTypeOK, ScriptOK, vars, Next, CreateRelease, Build,
                SavePrevious, Cutover, Restart, Reload, HealthPasses, HealthFails, Relink,
                Restore, Prune, PruneUnset, Abort, Respawn
  <1> QED
    BY <1>1, InitPipeline, PipelineStep, PTL DEF Spec, RollbackUndoesTheCutover

-----------------------------------------------------------------------------
(* The pipeline implements Rollout.                                        *)

LEMMA PipelineStepsRollOut ==
    ASSUME PipelineOK, [Next]_vars
    PROVE  [Promise!Next]_(Promise!rolloutVars)
  <1> USE PipelineAssumption DEF PipelineOK, PipelineTypeOK, ScriptOK, Promise!rolloutVars
  <1>1. CASE CreateRelease
    <2>1. Promise!Prepare
      BY <1>1 DEF CreateRelease, Promise!Prepare
    <2> QED
      BY <2>1 DEF Promise!Next
  <1>2. CASE Cutover
    <2>1. Promise!Publish
      BY <1>2 DEF Cutover, Promise!Publish
    <2> QED
      BY <2>1 DEF Promise!Next
  <1>3. CASE Relink
    <2>1. Promise!Undo
      BY <1>3 DEF Relink, Promise!Undo
    <2> QED
      BY <2>1 DEF Promise!Next
  <1>4. CASE HealthPasses \/ Abort
    <2>1. Promise!Settle
      BY <1>4 DEF HealthPasses, Abort, Promise!Settle
    <2> QED
      BY <2>1 DEF Promise!Next
  <1>5. CASE HealthFails
    BY <1>5 DEF HealthFails
  <1>6. CASE Build \/ SavePrevious \/ Restart \/ Reload \/ Restore \/ PruneUnset \/ Prune
    BY <1>6 DEF Build, SavePrevious, Restart, Reload, Restore, PruneUnset, Prune
  <1>7. CASE Respawn \/ UNCHANGED vars
    BY <1>7 DEF Respawn, vars
  <1> QED
    BY <1>1, <1>2, <1>3, <1>4, <1>5, <1>6, <1>7 DEF Next

(* Releases are published once each, in order, and only the last one is    *)
(* ever taken back, to what it displaced (deploy.yml 76-101).              *)
THEOREM PipelineRollsOut == Spec => ImplementsRollout
  <1>1. Init => Promise!Init
    BY DEF Init, Promise!Init
  <1>2. PipelineOK /\ [Next]_vars => [Promise!Next]_(Promise!rolloutVars)
    BY PipelineStepsRollOut
  <1> QED
    BY <1>1, <1>2, InitPipeline, PipelineStep, PTL DEF Spec, ImplementsRollout, Promise!Spec
=============================================================================
