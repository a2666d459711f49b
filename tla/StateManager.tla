---------------------------- MODULE StateManager ----------------------------
(***************************************************************************)
(* harness/state.py: the "current" and "previous" links of a deployed      *)
(* application.  atomic_cutover is several system calls; each is a step of *)
(* its own, and the process may die or be interrupted between any two.     *)
(***************************************************************************)
CONSTANTS Releases,   \* release directories a link may point to
          Absent,     \* no such path
          PlainFile,  \* the path is a file, not a link
          Directory,  \* the path is a directory, not a link
          Layouts     \* what the two paths may be when the harness starts

ASSUME PathAssumption == /\ Absent \notin Releases
                         /\ PlainFile \notin Releases
                         /\ Directory \notin Releases
                         /\ Absent # PlainFile
                         /\ Absent # Directory
                         /\ PlainFile # Directory
                         /\ Layouts \subseteq Releases \cup {Absent, PlainFile, Directory}

VARIABLES current,      \* what base_dir/current is
          previous,     \* what base_dir/previous is
          tmp,          \* the link this cutover has staged beside current
          stale,        \* where links that earlier cutovers staged and left point to
          checkpoints,  \* _checkpoints is not empty
          step,         \* the next system call of atomic_cutover
          target,       \* target_release_path
          displaced,    \* history: what current was when it was last replaced
          torn          \* history: a cutover was cut short since then

linkVars == <<current, previous, tmp, stale, step, target, displaced, torn>>
stateVars == <<linkVars, checkpoints>>

PathState == Releases \cup {Absent, PlainFile, Directory}

CutoverStep == {"idle", "unlink", "relink", "stage", "swap"}

StateInit == /\ current \in Layouts
             /\ previous \in Layouts
             /\ tmp = Absent
             /\ stale = {}
             /\ checkpoints = FALSE
             /\ step = "idle"
             /\ target = Absent
             /\ displaced = Absent
             /\ torn = FALSE

-----------------------------------------------------------------------------
CreateCheckpoint == checkpoints' = TRUE

\* Wrong: a previous that exists is taken for the saved current.
BeginWithoutSaving(r) ==
    /\ step = "idle"
    /\ target' = r
    /\ step' = IF current \in Releases /\ previous = Absent THEN "relink" ELSE "stage"
    /\ UNCHANGED <<current, previous, tmp, stale, displaced, torn>>

\* atomic_cutover up to its first system call that changes anything: a current
\* that is a link is saved first, over a previous that may have to go.
BeginCutover(r) ==
    /\ step = "idle"
    /\ target' = r
    /\ step' = IF current \in Releases
               THEN IF previous # Absent THEN "unlink" ELSE "relink"
               ELSE "stage"
    /\ UNCHANGED <<current, previous, tmp, stale, displaced, torn>>

\* os.unlink(previous): on a directory it raises OSError, which is swallowed.
UnlinkPrevious ==
    /\ step = "unlink"
    /\ previous' = IF previous = Directory THEN previous ELSE Absent
    /\ step' = "relink"
    /\ UNCHANGED <<current, tmp, stale, target, displaced, torn>>

\* Wrong: the new release is linked as previous.
LinkTarget ==
    /\ step = "relink"
    /\ previous = Absent
    /\ previous' = target
    /\ step' = "stage"
    /\ UNCHANGED <<current, tmp, stale, target, displaced, torn>>

\* os.symlink(old_target, previous)
LinkPrevious ==
    /\ step = "relink"
    /\ previous = Absent
    /\ previous' = current
    /\ step' = "stage"
    /\ UNCHANGED <<current, tmp, stale, target, displaced, torn>>

\* Wrong: current is removed to make room for the new link.
UnlinkAndStage ==
    /\ step = "stage"
    /\ tmp' = target
    /\ current' = Absent
    /\ step' = "swap"
    /\ UNCHANGED <<previous, stale, target, displaced, torn>>

\* Wrong: a staged link that is there already is taken for its own.
StageLinkOnce ==
    /\ step = "stage"
    /\ tmp' \in IF stale = {} THEN {target} ELSE stale
    /\ step' = "swap"
    /\ UNCHANGED <<current, previous, stale, target, displaced, torn>>

\* os.symlink(target, tmp_link): a link under a new name, made of the clock,
\* beside whatever earlier cutovers have left.
StageLink ==
    /\ step = "stage"
    /\ tmp' = target
    /\ step' = "swap"
    /\ UNCHANGED <<current, previous, stale, target, displaced, torn>>

\* os.replace(tmp, current)
SwapCurrent ==
    /\ step = "swap"
    /\ current # Directory
    /\ current' = tmp
    /\ tmp' = Absent
    /\ step' = "idle"
    /\ target' = Absent
    /\ displaced' = current
    /\ torn' = FALSE
    /\ UNCHANGED <<previous, stale>>

\* The cutover ends where it is.  A link it has staged stays behind.
LeaveOff ==
    /\ step' = "idle"
    /\ target' = Absent
    /\ tmp' = Absent
    /\ stale' = stale \cup ({tmp} \ {Absent})
    /\ torn' = TRUE
    /\ UNCHANGED <<current, previous, displaced>>

\* os.symlink over something that is there, os.replace over a directory.  The
\* new name is there already when the clock shows an earlier one's time again.
CutoverRaises ==
    /\ \/ step = "relink" /\ previous # Absent
       \/ step = "stage" /\ stale # {}
       \/ step = "swap" /\ current = Directory
    /\ LeaveOff

CutoverContinues == UnlinkPrevious \/ LinkPrevious \/ StageLink

\* The cutover goes no further: an interrupt, a failing system call, a crash.
AbandonCutover == step # "idle" /\ LeaveOff

-----------------------------------------------------------------------------
\* RepositoryHeuristicProbeAdapter.rollback_ready
RollbackReady == checkpoints \/ previous # Absent

\* The tool t3_atomic_symlink_switch: a checkpoint, then the cutover.
SwitchRelease(r) == BeginCutover(r) /\ CreateCheckpoint

\* Wrong: whatever previous is, it is taken for a release.
RollbackAnyway == /\ previous # Absent
                  /\ BeginCutover(previous)
                  /\ UNCHANGED checkpoints

\* execute_rollback: another cutover, to what previous points to.  It returns
\* None, changing nothing, when previous is not a link.
ExecuteRollback == /\ previous \in Releases
                   /\ BeginCutover(previous)
                   /\ UNCHANGED checkpoints

\* A system call fails, or an exception interrupts the cutover: the process and
\* its checkpoints live on.
BreakOff == AbandonCutover /\ UNCHANGED checkpoints

\* The process dies.  The checkpoints were in its memory.
Crash == /\ \/ AbandonCutover
            \/ step = "idle" /\ UNCHANGED linkVars
         /\ checkpoints' = FALSE

StateNext ==
    \/ \E r \in Releases : SwitchRelease(r)
    \/ ExecuteRollback
    \/ CutoverContinues /\ UNCHANGED checkpoints
    \/ SwapCurrent /\ UNCHANGED checkpoints
    \/ CutoverRaises /\ UNCHANGED checkpoints
    \/ BreakOff
    \/ Crash

StateSpec == StateInit /\ [][StateNext]_stateVars

-----------------------------------------------------------------------------
StateTypeOK == /\ current \in PathState
               /\ previous \in PathState
               /\ tmp \in Releases \cup {Absent}
               /\ stale \subseteq Releases
               /\ checkpoints \in BOOLEAN
               /\ step \in CutoverStep
               /\ target \in Releases \cup {Absent}
               /\ displaced \in PathState
               /\ torn \in BOOLEAN

(***************************************************************************)
(* Where a rollback leads.  After a cutover that ran to its end, previous  *)
(* is the release it displaced (state.py 39-52).  In the middle of the     *)
(* next one, and after one that was cut short, previous may be gone or     *)
(* name the release that is still current, but it never names a release    *)
(* older than the displaced one or one that was never switched to.         *)
(***************************************************************************)
RollbackTarget ==
    displaced \in Releases =>
        IF step = "idle" /\ ~torn
        THEN previous = displaced
        ELSE previous \in {displaced, current, Absent}

(***************************************************************************)
(* Once current is a link to a release it stays one: no step of a cutover  *)
(* or of a rollback, and no crash between two steps, removes the link or   *)
(* leaves something else in its place (os.replace, state.py 50-52).        *)
(* Whether the directory it names exists is nothing the code looks at      *)
(* (tools.py 231-240).                                                     *)
(***************************************************************************)
NeverDark == [][(current \in Releases) => (current' \in Releases)]_stateVars

(***************************************************************************)
(* At the instant current moves away from a release, previous already      *)
(* names that release: the order of state.py 47 and 52.  Otherwise a crash *)
(* right after the switch would leave no way back.                         *)
(***************************************************************************)
SwitchIsRecoverable ==
    [][(current \in Releases /\ current' # current) => previous = current]_stateVars
=============================================================================
