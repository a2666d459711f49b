------------------------- MODULE StateManagerProofs --------------------------
(***************************************************************************)
(* Theorems about StateManager, for every set of releases and every layout *)
(* a deployment may start from.                                            *)
(***************************************************************************)
EXTENDS StateManager, TLAPS

(* What each system call of a cutover still has to rely on: previous is    *)
(* gone or saved when the code thinks so, and the staged link is in place  *)
(* when it is moved over current.                                          *)
CutoverOK ==
    /\ step # "idle" => target \in Releases
    /\ step \in {"unlink", "relink"} => current \in Releases
    /\ step = "relink" => previous \in {Absent, Directory}
    /\ step \in {"stage", "swap"} /\ current \in Releases => previous = current
    /\ step = "swap" => tmp = target
    /\ displaced \in Releases => current \in Releases

(* The inductive invariant of the links.                                   *)
LinksOK == StateTypeOK /\ CutoverOK /\ RollbackTarget

(* A deployment starts with no cutover under way and no rollback promised. *)
LEMMA InitLinks == StateInit => LinksOK
  BY PathAssumption
  DEF StateInit, LinksOK, StateTypeOK, CutoverOK, RollbackTarget, PathState, CutoverStep

(* Every system call, and a crash between any two, keeps the links right.  *)
LEMMA LinksStep ==
    ASSUME LinksOK, [StateNext]_stateVars
    PROVE  LinksOK'
  <1> USE PathAssumption DEF LinksOK, StateTypeOK, CutoverOK, RollbackTarget, PathState,
                             CutoverStep
  <1>1. ASSUME NEW r \in Releases, BeginCutover(r), checkpoints' \in BOOLEAN
        PROVE  LinksOK'
    BY <1>1 DEF BeginCutover
  <1>2. ASSUME UnlinkPrevious, UNCHANGED checkpoints
        PROVE  LinksOK'
    BY <1>2 DEF UnlinkPrevious
  <1>3. ASSUME LinkPrevious, UNCHANGED checkpoints
        PROVE  LinksOK'
    BY <1>3 DEF LinkPrevious
  <1>4. ASSUME StageLink, UNCHANGED checkpoints
        PROVE  LinksOK'
    BY <1>4 DEF StageLink
  <1>5. ASSUME SwapCurrent, UNCHANGED checkpoints
        PROVE  LinksOK'
    BY <1>5 DEF SwapCurrent
  <1>6. ASSUME CutoverRaises, UNCHANGED checkpoints
        PROVE  LinksOK'
    BY <1>6 DEF CutoverRaises, LeaveOff
  <1>7. CASE Crash
    BY <1>7 DEF Crash, AbandonCutover, LeaveOff, linkVars
  <1>8. CASE BreakOff
    BY <1>8 DEF BreakOff, AbandonCutover, LeaveOff
  <1>9. CASE UNCHANGED stateVars
    BY <1>9 DEF stateVars, linkVars
  <1> QED
    BY <1>1, <1>2, <1>3, <1>4, <1>5, <1>6, <1>7, <1>8, <1>9
    DEF StateNext, SwitchRelease, CreateCheckpoint, ExecuteRollback, CutoverContinues

(* The links are a release, a directory or nothing, and a cutover is at    *)
(* one of its system calls, whatever the layout was (state.py 18-53).      *)
THEOREM LinksTypeCorrect == StateSpec => []StateTypeOK
  <1>1. LinksOK => StateTypeOK
    BY DEF LinksOK
  <1> QED
    BY <1>1, InitLinks, LinksStep, PTL DEF StateSpec

(* After a cutover that ran to its end, a rollback leads to the release it *)
(* displaced; cut short, it never leads further back (state.py 39-52).     *)
THEOREM RollbackLeadsBack == StateSpec => []RollbackTarget
  <1>1. LinksOK => RollbackTarget
    BY DEF LinksOK
  <1> QED
    BY <1>1, InitLinks, LinksStep, PTL DEF StateSpec

(* No step of a cutover or a rollback, and no crash between two of them,   *)
(* takes away the link current once it leads to a release.                 *)
THEOREM NeverWithoutRelease == StateSpec => NeverDark
  <1>1. ASSUME LinksOK, [StateNext]_stateVars
        PROVE  [(current \in Releases) => (current' \in Releases)]_stateVars
    BY <1>1 DEF LinksOK, CutoverOK, StateNext, SwitchRelease, BeginCutover, ExecuteRollback,
                CutoverContinues, UnlinkPrevious, LinkPrevious, StageLink, SwapCurrent,
                CutoverRaises, BreakOff, Crash, AbandonCutover, LeaveOff,
                linkVars
  <1> QED
    BY <1>1, InitLinks, LinksStep, PTL DEF StateSpec, NeverDark

(* When current leaves a release, previous already names it.               *)
THEOREM SwitchesAreRecoverable == StateSpec => SwitchIsRecoverable
  <1>1. ASSUME LinksOK, [StateNext]_stateVars
        PROVE  [(current \in Releases /\ current' # current) => previous = current]_stateVars
    BY <1>1 DEF LinksOK, CutoverOK, StateNext, SwitchRelease, BeginCutover, ExecuteRollback,
                CutoverContinues, UnlinkPrevious, LinkPrevious, StageLink, SwapCurrent,
                CutoverRaises, BreakOff, Crash, AbandonCutover, LeaveOff,
                linkVars
  <1> QED
    BY <1>1, InitLinks, LinksStep, PTL DEF StateSpec, SwitchIsRecoverable
=============================================================================
