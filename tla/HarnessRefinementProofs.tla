----------------------- MODULE HarnessRefinementProofs -----------------------
(***************************************************************************)
(* Harness implements ChangeControl, for every value of its constants: the *)
(* manifests map to the public lives, the last change of a tool to the     *)
(* last change of the system; every step of a call is a step of the        *)
(* abstract specification or leaves it as it is.  It implements the state  *)
(* manager as well, so that what is proved of the links alone holds of     *)
(* them under the harness.                                                 *)
(***************************************************************************)
EXTENDS HarnessSafetyProofs, StateManagerProofs

(* The empty registry is the empty public record.                          *)
LEMMA InitRefines == Init => Lifecycle!Init
  BY DEF Init, RegistryInit, NoManifest, NoEffect, Lifecycle!Init, Lifecycle!Unknown

(* Filing a manifest proposes a change.                                    *)
LEMMA SubmitProposes ==
    ASSUME CallsAreSound, NEW s \in Submissions, Submit(s), UNCHANGED effect
    PROVE  Lifecycle!Next
  <1> DEFINE i == counter + 1
             t == CanonicalPaths(s.paths)
  <1>1. i \in Ids /\ i > counter
    BY SubmitType DEF CallsAreSound, TypeOK, RegistryTypeOK
  <1>2. t \in SUBSET Files /\ t # {}
    <2>1. s.paths \in SUBSET PathNames /\ s.paths # {}
      BY HarnessAssumption DEF Submission, Submit, IsValidSubmission
    <2>2. t # {}
      BY <2>1 DEF CanonicalPaths
    <2> QED
      BY <2>1, <2>2, CanonicalPathsType DEF Submit, IsValidSubmission
  <1>3. s.invariants \in SUBSET Contracts /\ s.invariants # {}
    BY HarnessAssumption DEF Submission, Submit, IsValidSubmission
  <1>4. manifests[i] = Lifecycle!Unknown
    BY <1>1 DEF CallsAreSound, RegistryOK, NoManifest, Lifecycle!Unknown
  <1>5. manifests' = [manifests EXCEPT ![i] =
                        [version |-> 1, targets |-> t, invariants |-> s.invariants,
                         status |-> "PENDING_VALIDATION"]]
    BY DEF Submit, CreatePendingManifest
  <1> HIDE DEF i, t
  <1>6. Lifecycle!Propose(i)
    BY <1>2, <1>3, <1>4, <1>5 DEF Lifecycle!Propose
  <1> QED
    BY <1>1, <1>6 DEF Lifecycle!Next

(* Accepting or rejecting a manifest decides it, once.                     *)
LEMMA DecisionDecides ==
    ASSUME CallsAreSound, op = "submit", UNCHANGED effect,
           AcceptManifest(subject) \/ RejectManifest(subject)
    PROVE  Lifecycle!Next
  <1>1. subject \in Ids /\ manifests[subject].status = "PENDING_VALIDATION"
    BY DEF CallsAreSound, TypeOK, ControlOK, RegistryOK
  <1>2. Lifecycle!Decide(subject)
    BY <1>1 DEF AcceptManifest, RejectManifest, Lifecycle!Decide
  <1> QED
    BY <1>1, <1>2 DEF Lifecycle!Next

(* Committing a candidate widens the accepted change by a version.         *)
LEMMA CommitWidens ==
    ASSUME CallsAreSound, op = "amend", CommitAmendment(subject), UNCHANGED effect
    PROVE  Lifecycle!Next
  <1> DEFINE m == manifests[subject]
             c == staging[subject]
  <1>1. /\ subject \in Ids
        /\ m.status = "ACCEPTED"
        /\ m \in ChangeManifest /\ c \in ChangeManifest
        /\ c.version = m.version + 1
        /\ m.targets \subseteq c.targets
        /\ m.invariants \subseteq c.invariants
    BY DEF CallsAreSound, TypeOK, ControlOK, RegistryTypeOK, StagedExtendsAccepted,
           CommitAmendment, IsAccepted
  <1>2. manifests' = [manifests EXCEPT ![subject] = [c EXCEPT !.status = "ACCEPTED"]]
    BY DEF CommitAmendment
  <1>3. [c EXCEPT !.status = "ACCEPTED"] =
           [version |-> m.version + 1, targets |-> m.targets \cup c.targets,
            invariants |-> m.invariants \cup c.invariants, status |-> "ACCEPTED"]
    <2>1. /\ m.targets \cup c.targets = c.targets
          /\ m.invariants \cup c.invariants = c.invariants
      BY <1>1
    <2>2. \A x \in ChangeManifest :
             [x EXCEPT !.status = "ACCEPTED"] =
                [version |-> x.version, targets |-> x.targets,
                 invariants |-> x.invariants, status |-> "ACCEPTED"]
      BY DEF ChangeManifest
    <2> HIDE DEF m, c
    <2> QED
      BY <1>1, <2>1, <2>2
  <1>4. c.targets \in SUBSET Files /\ c.invariants \in SUBSET Contracts
    BY <1>1 DEF ChangeManifest
  <1> HIDE DEF c
  <1>5. Lifecycle!Widen(subject)
    BY <1>1, <1>2, <1>3, <1>4 DEF Lifecycle!Widen
  <1> QED
    BY <1>1, <1>5 DEF Lifecycle!Next

(* Every step of the harness is one of the four, or changes nothing a      *)
(* reader of the manifests sees.                                           *)
LEMMA StepRefines ==
    ASSUME CallsAreSound, [Next]_vars
    PROVE  [Lifecycle!Next]_<<manifests, <<effect.id, effect.version>>>>
  <1>1. CASE UNCHANGED vars
    BY <1>1 DEF vars, registryVars, historyVars, lastingVars
  <1>2. CASE Next /\ UNCHANGED <<manifests, effect>>
    BY <1>2
  <1>3. ASSUME Stage \/ FinishSwitch \/ Reload \/ Destroy, Perform
        PROVE  Lifecycle!Next
    <2>1. IsAccepted(subject)
      <3>1. CASE Stage \/ Reload
        BY <3>1 DEF Stage, Reload, MayRun, StagingTools, AvailabilityTools, ReadOnlyTools
      <3>2. CASE FinishSwitch \/ Destroy
        BY <3>2, InTool DEF CallsAreSound, TypeOK, FinishSwitch, Destroy, ControlOK,
                            ApprovalPhases
      <3> QED
        BY <1>3, <3>1, <3>2
    <2>2. <<effect.id, effect.version>>' = <<subject, manifests[subject].version>>
      BY <1>3 DEF Perform
    <2>3. Lifecycle!Change(subject)
      BY <1>3, <2>1, <2>2 DEF Perform, registryVars, IsAccepted, Lifecycle!Change
    <2> QED
      BY <2>1, <2>3 DEF Lifecycle!Next, IsAccepted
  <1>4. ASSUME Next, UNCHANGED effect
        PROVE  [Lifecycle!Next]_<<manifests, <<effect.id, effect.version>>>>
    <2>1. ASSUME NEW a \in Amendments, Amend(a)
          PROVE  UNCHANGED manifests
      BY <2>1 DEF Amend, StageAmendment
    <2>2. CASE Fail
      BY <1>2, <1>4, <2>2, DecisionDecides DEF Fail, RollbackAmendment, registryVars
    <2>3. CASE Accept
      BY <1>4, <2>3, DecisionDecides, CommitWidens DEF Accept
    <2>4. UNCHANGED registryVars => UNCHANGED manifests
      BY DEF registryVars
    <2> QED
      BY <1>2, <1>4, <2>1, <2>2, <2>3, <2>4, SubmitProposes, RegistryMoves
  <1> QED
    BY <1>1, <1>3, <1>4, ChangeMoves

(* The harness implements its abstract specification: manifests are        *)
(* decided once, accepted ones only widen, a version at a time, and the    *)
(* system changes only for the accepted version (core.py 68-205,           *)
(* manifest.py 138-303).                                                   *)
THEOREM Refinement == Spec => ImplementsChangeControl
  <1>1. Init => Lifecycle!Init
    BY InitRefines
  <1>2. CallsAreSound /\ [Next]_vars
           => [Lifecycle!Next]_<<manifests, <<effect.id, effect.version>>>>
    BY StepRefines
  <1> QED
    BY <1>1, <1>2, Soundness, PTL DEF Spec, ImplementsChangeControl, Lifecycle!Spec

-----------------------------------------------------------------------------
(* A submission or an amendment that returns by itself leaves neither a    *)
(* candidate in staging nor a manifest pending (core.py 109-111, 151-153). *)
THEOREM NoOrphans == Spec => CallsLeaveNoOrphan
  <1>1. ASSUME CallsAreSound, [Next]_vars
        PROVE  [(op \in {"submit", "amend"} /\ Continue /\ op' = "idle") =>
                   /\ staging'[subject] = NoManifest
                   /\ manifests'[subject].status \in {"ACCEPTED", "REJECTED"}]_vars
    <2> SUFFICES ASSUME op \in {"submit", "amend"}, Continue, op' = "idle"
                 PROVE  /\ staging'[subject] = NoManifest
                        /\ manifests'[subject].status \in {"ACCEPTED", "REJECTED"}
      OBVIOUS
    <2> USE <1>1 DEF CallsAreSound, TypeOK, RegistryTypeOK
    <2>1. /\ subject \in Ids
          /\ phase \in {"impact", "contracts"}
          /\ op = "submit" => manifests[subject].status = "PENDING_VALIDATION"
          /\ op = "submit" => staging[subject] = NoManifest
          /\ op = "amend" => manifests[subject].status = "ACCEPTED"
      BY DEF ControlOK, RegistryOK, StagedExtendsAccepted, IsAccepted, HasStagedAmendment
    <2>2. Fail \/ Accept
      BY <2>1 DEF Continue, ImpactCovered, ImpactMissed, VerifyContract, ContractViolated,
                  EnterTool, ToolRefused, Inspect, Stage, PatchRefused, StartSwitch,
                  ContinueSwitch, FinishSwitch, SwitchRaises, Reload, SeekApproval,
                  FetchApproval, Authorize, Destroy, ApprovalMissing, callVars
    <2>3. CASE Fail
      BY <2>1, <2>3 DEF Fail, RejectManifest, RollbackAmendment, ChangeManifest
    <2>4. CASE Accept
      BY <2>1, <2>4 DEF Accept, AcceptManifest, CommitAmendment, ChangeManifest
    <2> QED
      BY <2>2, <2>3, <2>4
  <1> QED
    BY <1>1, Soundness, PTL DEF Spec, CallsLeaveNoOrphan

-----------------------------------------------------------------------------
(* The links under the harness.                                            *)

(* Every step of the harness is a step of the state manager or leaves the  *)
(* links and the checkpoints alone: an interrupt breaks a cutover off, and *)
(* the process lives on.                                                   *)
LEMMA LinksFollow ==
    ASSUME TypeOK, [Next]_vars
    PROVE  [StateNext]_stateVars
  <1>1. CASE UNCHANGED stateVars
    BY <1>1
  <1>2. CASE StartSwitch
    <2>1. request.argument \in Releases
      BY <1>2, InTool, HarnessAssumption DEF StartSwitch, TypeOK
    <2> QED
      BY <1>2, <2>1 DEF StartSwitch, StateNext
  <1>3. CASE ContinueSwitch
    BY <1>3 DEF ContinueSwitch, StateNext
  <1>4. CASE FinishSwitch
    BY <1>4 DEF FinishSwitch, StateNext
  <1>5. CASE SwitchRaises
    BY <1>5 DEF SwitchRaises, StateNext
  <1>6. CASE Interrupt
    <2>1. CASE step = "idle"
      BY <1>6, <2>1 DEF Interrupt, stateVars
    <2>2. CASE step # "idle"
      BY <1>6, <2>2 DEF Interrupt, BreakOff, StateNext
    <2> QED
      BY <2>1, <2>2
  <1> QED
    BY <1>1, <1>2, <1>3, <1>4, <1>5, <1>6, StateMoves DEF vars

(* The harness implements the state manager, so that its theorems are the  *)
(* harness's: where a rollback leads, current never taken away, and a way  *)
(* back before current moves (core.py 197-204, tools.py 231-247).          *)
THEOREM LinksAreTheManagers == Spec => ImplementsStateManager
  <1>1. Init => StateInit
    BY DEF Init
  <1>2. TypeOK /\ [Next]_vars => [StateNext]_stateVars
    BY LinksFollow
  <1> QED
    BY <1>1, <1>2, TypeCorrect, PTL DEF Spec, ImplementsStateManager, StateSpec

(* A rollback after any history of calls and interrupts leads to the       *)
(* release last displaced, or never further back.                          *)
COROLLARY RollbackLeadsBackFromCalls == Spec => []RollbackTarget
  BY LinksAreTheManagers, RollbackLeadsBack, PTL DEF ImplementsStateManager

(* No call and no interrupt takes current away once it links to a release. *)
COROLLARY CallsNeverGoDark == Spec => NeverDark
  BY LinksAreTheManagers, NeverWithoutRelease, PTL DEF ImplementsStateManager

(* No call moves current before previous names the release it leaves.      *)
COROLLARY CallsAreRecoverable == Spec => SwitchIsRecoverable
  BY LinksAreTheManagers, SwitchesAreRecoverable, PTL DEF ImplementsStateManager

(* A cutover is under way exactly while the call that began it is, and     *)
(* heads for the release that call names.                                  *)
CutoverIsOfCall ==
    /\ phase = "cutover" <=> step # "idle"
    /\ phase = "cutover" => target = request.argument

(* Only the steps of a switch lead into or out of a cutover.               *)
LEMMA CutoverMoves ==
    ASSUME TypeOK, [Next]_vars
    PROVE  \/ StartSwitch \/ ContinueSwitch \/ FinishSwitch \/ SwitchRaises \/ Interrupt
           \/ UNCHANGED stateVars /\ UNCHANGED <<phase, request>>
           \/ UNCHANGED stateVars /\ phase # "cutover" /\ phase' # "cutover"
  <1>1. CASE Call
    BY <1>1
    DEF Call, OverBudget, AssembleContext, SubmitRefused, Submit, AmendRefused, Amend,
        ExecuteRefused, Execute, MayCall, callVars, TypeOK, ControlOK
  <1>2. CASE Continue
    BY <1>2, FailReturns
    DEF Continue, ImpactCovered, ImpactMissed, VerifyContract, ContractViolated, Accept,
        EnterTool, ToolRefused, Inspect, Stage, PatchRefused, Reload, SeekApproval,
        FetchApproval, Authorize, Destroy, ApprovalMissing, Perform, Return, TypeOK,
        ControlOK
  <1>3. CASE Environment
    BY <1>3 DEF Environment, EditDisk, Tick, Revoke, Grant, callVars
  <1>4. CASE UNCHANGED vars
    BY <1>4 DEF vars, callVars
  <1> QED
    BY <1>1, <1>2, <1>3, <1>4 DEF Next

LEMMA CutoverInit == Init => CutoverIsOfCall
  BY DEF Init, StateInit, CutoverIsOfCall

LEMMA CutoverStays ==
    ASSUME TypeOK, LinksOK, CutoverIsOfCall, [Next]_vars
    PROVE  CutoverIsOfCall'
  <1>1. CASE StartSwitch
    BY <1>1 DEF StartSwitch, SwitchRelease, BeginCutover, CutoverIsOfCall
  <1>2. CASE ContinueSwitch
    BY <1>2 DEF ContinueSwitch, CutoverContinues, UnlinkPrevious, LinkPrevious, StageLink,
                callVars, CutoverIsOfCall
  <1>3. CASE FinishSwitch
    BY <1>3 DEF FinishSwitch, SwapCurrent, Perform, Return, CutoverIsOfCall
  <1>4. CASE SwitchRaises
    BY <1>4, FailReturns DEF SwitchRaises, CutoverRaises, LeaveOff, Return, CutoverIsOfCall
  <1>5. CASE Interrupt
    BY <1>5 DEF Interrupt, AbandonCutover, LeaveOff, Return, linkVars, CutoverIsOfCall
  <1>6. CASE UNCHANGED stateVars /\ UNCHANGED <<phase, request>>
    BY <1>6 DEF stateVars, linkVars, CutoverIsOfCall
  <1>7. CASE UNCHANGED stateVars /\ phase # "cutover" /\ phase' # "cutover"
    BY <1>7 DEF stateVars, linkVars, CutoverIsOfCall
  <1> QED
    BY <1>1, <1>2, <1>3, <1>4, <1>5, <1>6, <1>7, CutoverMoves

(* The release that goes live is the one the call in progress was given,   *)
(* whatever links interrupted calls have left staged (state.py 50-52).     *)
THEOREM SwitchesGoWhereAsked == Spec => LiveIsAsAsked
  <1>1. ASSUME TypeOK, LinksOK, CutoverIsOfCall, [Next]_vars
        PROVE  [current' # current =>
                   request.tool \in SwitchTools /\ current' = request.argument]_vars
    <2> SUFFICES ASSUME current' # current
                 PROVE  request.tool \in SwitchTools /\ current' = request.argument
      OBVIOUS
    <2>1. FinishSwitch
      BY <1>1, StateMoves
      DEF vars, stateVars, linkVars, StartSwitch, SwitchRelease, BeginCutover, ContinueSwitch,
          CutoverContinues, UnlinkPrevious, LinkPrevious, StageLink, SwitchRaises,
          CutoverRaises, Interrupt, AbandonCutover, LeaveOff
    <2> QED
      BY <1>1, <2>1 DEF FinishSwitch, SwapCurrent, CutoverIsOfCall, LinksOK, CutoverOK,
                        TypeOK, ControlOK
  <1>2. Spec => [](TypeOK /\ LinksOK /\ CutoverIsOfCall)
    <2>1. Spec => []TypeOK
      BY TypeCorrect
    <2>2. Spec => []LinksOK
      BY LinksAreTheManagers, InitLinks, LinksStep, PTL DEF ImplementsStateManager, StateSpec
    <2>3. TypeOK /\ LinksOK /\ CutoverIsOfCall /\ [Next]_vars => CutoverIsOfCall'
      BY CutoverStays
    <2> QED
      BY <2>1, <2>2, <2>3, CutoverInit, PTL DEF Spec
  <1> QED
    BY <1>1, <1>2, PTL DEF Spec, LiveIsAsAsked
=============================================================================
