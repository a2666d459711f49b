--------------------------- MODULE HarnessProofs ----------------------------
(***************************************************************************)
(* Theorems about Harness, for every value of its constants.               *)
(***************************************************************************)
EXTENDS HarnessProperties, TLAPS

-----------------------------------------------------------------------------
(* Which actions touch which variables.                                    *)

(* What a step makes of the registry and of the call in progress.          *)
LEMMA CallMoves ==
    ASSUME Next
    PROVE  \/ \E s \in Submissions : Submit(s)
           \/ \E a \in Amendments : Amend(a)
           \/ \E r \in Requests : Execute(r)
           \/ ImpactCovered
           \/ \E c \in Contracts : VerifyContract(c)
           \/ Accept
           \/ Fail
           \/ EnterTool \/ StartSwitch \/ SeekApproval \/ FetchApproval \/ Authorize
           \/ Return /\ UNCHANGED registryVars
           \/ UNCHANGED <<registryVars, callVars>>
  <1>1. CASE Call
    BY <1>1 DEF Call, OverBudget, AssembleContext, SubmitRefused, AmendRefused, ExecuteRefused
  <1>2. CASE Environment
    BY <1>2 DEF Environment, EditDisk, Tick, Revoke, Grant, Interrupt
  <1>3. CASE Continue
    <2>1. (\/ ImpactMissed \/ ToolRefused \/ PatchRefused \/ SwitchRaises \/ ApprovalMissing
           \/ \E c \in Contracts : ContractViolated(c)) => Fail
      BY DEF ImpactMissed, ToolRefused, PatchRefused, SwitchRaises, ApprovalMissing,
             ContractViolated
    <2>2. (Inspect \/ Stage \/ FinishSwitch \/ Reload \/ Destroy)
             => Return /\ UNCHANGED registryVars
      BY DEF Inspect, Stage, FinishSwitch, Reload, Destroy, Perform
    <2>3. ContinueSwitch => UNCHANGED <<registryVars, callVars>>
      BY DEF ContinueSwitch
    <2> QED
      BY <1>3, <2>1, <2>2, <2>3 DEF Continue
  <1> QED
    BY <1>1, <1>2, <1>3 DEF Next

(* The registry is written by a submission, by an amendment, by the end of *)
(* their checks and by nothing else.                                       *)
LEMMA RegistryMoves ==
    ASSUME Next
    PROVE  \/ UNCHANGED registryVars
           \/ \E s \in Submissions : Submit(s)
           \/ \E a \in Amendments : Amend(a)
           \/ Fail
           \/ Accept
  BY CallMoves DEF Execute, ImpactCovered, VerifyContract, EnterTool, StartSwitch,
                   SeekApproval, FetchApproval, Authorize

(* The approvals and the clock are written by the operator and by time.    *)
LEMMA ApprovalMoves ==
    ASSUME Next
    PROVE  \/ UNCHANGED approvalVars
           \/ Tick
           \/ \E k \in ApprovalKeys : Revoke(k)
           \/ \E k \in ApprovalKeys, v \in Versions, a \in Arguments, d \in Durations :
                 Grant(k, v, a, d)
  <1>1. CASE Call
    BY <1>1 DEF Call, OverBudget, AssembleContext, SubmitRefused, Submit, AmendRefused, Amend,
                ExecuteRefused, Execute
  <1>2. CASE Continue
    BY <1>2 DEF Continue, ImpactCovered, ImpactMissed, VerifyContract, ContractViolated,
                Accept, EnterTool, ToolRefused, Inspect, Stage, PatchRefused, StartSwitch,
                ContinueSwitch, FinishSwitch, SwitchRaises, Reload, SeekApproval,
                FetchApproval, Authorize, Destroy, ApprovalMissing
  <1>3. CASE Environment
    BY <1>3 DEF Environment, EditDisk, Interrupt
  <1> QED
    BY <1>1, <1>2, <1>3 DEF Next

(* The history of changes grows by the four actions that perform one.      *)
LEMMA ChangeMoves ==
    ASSUME Next
    PROVE  \/ UNCHANGED <<effect, performed>>
           \/ (Stage \/ FinishSwitch \/ Reload \/ Destroy) /\ Perform
  <1>1. CASE Call
    BY <1>1 DEF Call, OverBudget, AssembleContext, SubmitRefused, Submit, AmendRefused, Amend,
                ExecuteRefused, Execute, historyVars, lastingVars
  <1>2. CASE Continue
    <2>1. (Stage \/ FinishSwitch \/ Reload \/ Destroy) => Perform
      BY DEF Stage, FinishSwitch, Reload, Destroy
    <2> QED
      BY <1>2, <2>1
      DEF Continue, ImpactCovered, ImpactMissed, VerifyContract, ContractViolated, Accept,
          EnterTool, ToolRefused, Inspect, PatchRefused, StartSwitch, ContinueSwitch,
          SwitchRaises, SeekApproval, FetchApproval, Authorize, ApprovalMissing,
          historyVars, lastingVars
  <1>3. CASE Environment
    BY <1>3 DEF Environment, EditDisk, Tick, Revoke, Grant, Interrupt, historyVars, lastingVars
  <1> QED
    BY <1>1, <1>2, <1>3 DEF Next

(* The evidence is written by an acceptance only.                          *)
LEMMA EvidenceMoves ==
    ASSUME Next
    PROVE  UNCHANGED evidence \/ Accept
  <1>1. CASE Call
    BY <1>1 DEF Call, OverBudget, AssembleContext, SubmitRefused, Submit, AmendRefused, Amend,
                ExecuteRefused, Execute, historyVars, lastingVars
  <1>2. CASE Continue
    BY <1>2
    DEF Continue, ImpactCovered, ImpactMissed, VerifyContract, ContractViolated, EnterTool,
        ToolRefused, Inspect, PatchRefused, StartSwitch, ContinueSwitch, SwitchRaises,
        SeekApproval, FetchApproval, Authorize, ApprovalMissing, historyVars, lastingVars,
        Stage, FinishSwitch, Reload, Destroy, Perform
  <1>3. CASE Environment
    BY <1>3 DEF Environment, EditDisk, Tick, Revoke, Grant, Interrupt, historyVars, lastingVars
  <1> QED
    BY <1>1, <1>2, <1>3 DEF Next

(* What the operator saw is written by a grant only.                       *)
LEMMA BriefingMoves ==
    ASSUME Next
    PROVE  \/ UNCHANGED briefed
           \/ \E k \in ApprovalKeys, v \in Versions, a \in Arguments, d \in Durations :
                 Grant(k, v, a, d)
  <1>1. CASE Call
    BY <1>1 DEF Call, OverBudget, AssembleContext, SubmitRefused, Submit, AmendRefused, Amend,
                ExecuteRefused, Execute, historyVars, lastingVars
  <1>2. CASE Continue
    BY <1>2
    DEF Continue, ImpactCovered, ImpactMissed, VerifyContract, ContractViolated, Accept,
        EnterTool, ToolRefused, Inspect, PatchRefused, StartSwitch, ContinueSwitch,
        SwitchRaises, SeekApproval, FetchApproval, Authorize, ApprovalMissing, historyVars,
        lastingVars, Stage, FinishSwitch, Reload, Destroy, Perform
  <1>3. CASE Environment
    BY <1>3 DEF Environment, EditDisk, Tick, Revoke, Interrupt, historyVars, lastingVars
  <1> QED
    BY <1>1, <1>2, <1>3 DEF Next

(* What has been approved is noted while a call seeks its approval, and    *)
(* forgotten when the call returns.                                        *)
LEMMA SanctionMoves ==
    ASSUME Next
    PROVE  \/ UNCHANGED sanctioned
           \/ Return
           \/ SeekApproval
           \/ \E k \in ApprovalKeys, v \in Versions, a \in Arguments, d \in Durations :
                 Grant(k, v, a, d)
  <1>1. CASE Call
    BY <1>1 DEF Call, OverBudget, AssembleContext, SubmitRefused, Submit, AmendRefused, Amend,
                ExecuteRefused, Execute, historyVars, lastingVars
  <1>2. CASE Continue
    <2>1. (\/ ImpactMissed \/ ToolRefused \/ PatchRefused \/ SwitchRaises \/ ApprovalMissing
           \/ \E c \in Contracts : ContractViolated(c)) => Return
      BY DEF ImpactMissed, ToolRefused, PatchRefused, SwitchRaises, ApprovalMissing,
             ContractViolated, Fail
    <2>2. (Accept \/ Inspect \/ Stage \/ FinishSwitch \/ Reload \/ Destroy) => Return
      BY DEF Accept, Inspect, Stage, FinishSwitch, Reload, Destroy, Perform
    <2> QED
      BY <1>2, <2>1, <2>2
      DEF Continue, ImpactCovered, VerifyContract, EnterTool, StartSwitch, ContinueSwitch,
          FetchApproval, Authorize, historyVars
  <1>3. CASE Environment
    BY <1>3 DEF Environment, EditDisk, Tick, Revoke, Interrupt, historyVars
  <1> QED
    BY <1>1, <1>2, <1>3 DEF Next

(* What records approve is a version and arguments an operator may name.   *)
LEMMA ScopesType ==
    ASSUME NEW S \in SUBSET (ApprovalRecord \cup {NoApproval})
    PROVE  Scopes(S) \in SUBSET (Versions \X Arguments)
  BY DEF Scopes, ApprovalRecord

(* The links are written by a switch in progress.                          *)
LEMMA StateMoves ==
    ASSUME Next
    PROVE  \/ UNCHANGED stateVars
           \/ StartSwitch \/ ContinueSwitch \/ FinishSwitch \/ SwitchRaises
           \/ Interrupt
  <1>1. CASE Call
    BY <1>1 DEF Call, OverBudget, AssembleContext, SubmitRefused, Submit, AmendRefused, Amend,
                ExecuteRefused, Execute
  <1>2. CASE Continue
    BY <1>2
    DEF Continue, ImpactCovered, ImpactMissed, VerifyContract, ContractViolated, Accept,
        EnterTool, ToolRefused, Inspect, Stage, PatchRefused, Reload, SeekApproval,
        FetchApproval, Authorize, Destroy, ApprovalMissing
  <1>3. CASE Environment
    BY <1>3 DEF Environment, EditDisk, Tick, Revoke, Grant
  <1> QED
    BY <1>1, <1>2, <1>3 DEF Next

-----------------------------------------------------------------------------
(* Type correctness.                                                       *)

(* Paths the canonicalizer accepts become files of the repository.         *)
LEMMA CanonicalPathsType ==
    ASSUME NEW paths \in SUBSET PathNames, Illegal \notin CanonicalPaths(paths)
    PROVE  CanonicalPaths(paths) \in SUBSET Files
  BY PathsAssumption DEF CanonicalPaths

(* An identifier in no dictionary has a value of the registry's type.      *)
LEMMA NoManifestType == NoManifest \in ChangeManifest
  BY DEF NoManifest, ChangeManifest, ManifestStatus

(* A submission files a well-formed manifest under a fresh identifier.     *)
LEMMA SubmitType ==
    ASSUME RegistryTypeOK, NEW s \in Submissions, Submit(s)
    PROVE  RegistryTypeOK' /\ counter + 1 \in Ids
  <1>1. /\ s.paths \in SUBSET PathNames
        /\ s.invariants \in SUBSET Contracts
    BY HarnessAssumption DEF Submission
  <1>2. CanonicalPaths(s.paths) \in SUBSET Files
    BY <1>1, CanonicalPathsType DEF Submit, IsValidSubmission
  <1>3. counter + 1 \in Ids /\ counter' \in 0..MaxManifests
    BY RegistryAssumption DEF Submit, CreatePendingManifest, RegistryTypeOK, Ids
  <1>4. [version |-> 1, targets |-> CanonicalPaths(s.paths), invariants |-> s.invariants,
         status |-> "PENDING_VALIDATION"] \in ChangeManifest
    BY <1>1, <1>2 DEF ChangeManifest, ManifestStatus
  <1> QED
    BY <1>3, <1>4 DEF Submit, CreatePendingManifest, RegistryTypeOK

(* An amendment stages a well-formed candidate.                            *)
LEMMA AmendType ==
    ASSUME RegistryTypeOK, NEW a \in Amendments, Amend(a)
    PROVE  RegistryTypeOK' /\ Candidate(a.id, a.paths, a.invariants) \in ChangeManifest
  <1>1. /\ a.id \in Ids
        /\ a.paths \in SUBSET PathNames
        /\ a.invariants \in SUBSET Contracts
    BY HarnessAssumption DEF Amendment
  <1>2. CanonicalPaths(a.paths) \in SUBSET Files
    BY <1>1, CanonicalPathsType DEF Amend, IsStageable
  <1>3. Candidate(a.id, a.paths, a.invariants) \in ChangeManifest
    BY <1>1, <1>2 DEF Candidate, ChangeManifest, ManifestStatus, RegistryTypeOK
  <1> QED
    BY <1>1, <1>3 DEF Amend, StageAmendment, RegistryTypeOK

(* Rejecting a manifest and discarding a candidate keep the registry's type.*)
LEMMA FailType ==
    ASSUME RegistryTypeOK, ControlOK, Fail
    PROVE  RegistryTypeOK'
  <1>1. CASE op = "submit" /\ RejectManifest(subject)
    BY <1>1 DEF ControlOK, RejectManifest, RegistryTypeOK, ChangeManifest, ManifestStatus
  <1>2. CASE op = "amend" /\ RollbackAmendment(subject)
    BY <1>2, NoManifestType DEF ControlOK, RollbackAmendment, RegistryTypeOK
  <1>3. CASE op = "execute" /\ UNCHANGED registryVars
    BY <1>3 DEF registryVars, RegistryTypeOK
  <1> QED
    BY <1>1, <1>2, <1>3 DEF Fail

(* Accepting a manifest and committing a candidate keep it too.            *)
LEMMA AcceptType ==
    ASSUME RegistryTypeOK, ControlOK, Accept
    PROVE  RegistryTypeOK'
  <1>1. CASE op = "submit" /\ AcceptManifest(subject)
    BY <1>1 DEF ControlOK, AcceptManifest, RegistryTypeOK, ChangeManifest, ManifestStatus
  <1>2. CASE op = "amend" /\ CommitAmendment(subject)
    <2>1. subject \in Ids
      BY <1>2 DEF ControlOK
    <2>2. [staging[subject] EXCEPT !.status = "ACCEPTED"] \in ChangeManifest
      BY <2>1 DEF RegistryTypeOK, ChangeManifest, ManifestStatus
    <2> QED
      BY <1>2, <2>1, <2>2, NoManifestType DEF CommitAmendment, RegistryTypeOK
  <1> QED
    BY <1>1, <1>2 DEF Accept

(* Every step keeps the registry's type.                                   *)
LEMMA RegistryTypeStep ==
    ASSUME RegistryTypeOK, ControlOK, Next
    PROVE  RegistryTypeOK'
  <1>1. CASE UNCHANGED registryVars
    BY <1>1 DEF registryVars, RegistryTypeOK
  <1> QED
    BY <1>1, RegistryMoves, SubmitType, AmendType, FailType, AcceptType

(* Every step keeps the type of the approvals and of the clock.            *)
LEMMA ApprovalTypeStep ==
    ASSUME ApprovalTypeOK, Next
    PROVE  ApprovalTypeOK'
  <1>1. CASE UNCHANGED approvalVars
    BY <1>1 DEF approvalVars, ApprovalTypeOK
  <1>2. CASE Tick
    BY <1>2, ApprovalAssumption DEF Tick, ClockTick, ApprovalTypeOK
  <1>3. ASSUME NEW k \in ApprovalKeys, Revoke(k)
        PROVE  ApprovalTypeOK'
    BY <1>3 DEF Revoke, RevokeApproval, RevokeAllApprovals, ApprovalTypeOK
  <1>4. ASSUME NEW k \in ApprovalKeys, NEW v \in Versions, NEW a \in Arguments,
               NEW d \in Durations, Grant(k, v, a, d)
        PROVE  ApprovalTypeOK'
    <2>1. [version |-> v, arguments |-> a, expires |-> now + d] \in ApprovalRecord
      BY ApprovalAssumption DEF ApprovalRecord, ApprovalTypeOK
    <2> QED
      BY <1>4, <2>1 DEF Grant, GrantApproval, ApprovalTypeOK
  <1> QED
    BY <1>1, <1>2, <1>3, <1>4, ApprovalMoves

(* A call that has come to a tool is an execution of one of the requests.  *)
LEMMA InTool ==
    ASSUME CallTypeOK, ControlOK, phase \in {"tool", "cutover"} \cup ApprovalPhases
    PROVE  op = "execute" /\ request \in Requests /\ subject = request.id
  BY DEF CallTypeOK, ControlOK, Operations, ApprovalPhases

(* A T5 tool's approval is filed under a key the service has.              *)
LEMMA ToolKey ==
    ASSUME CallTypeOK, ControlOK, phase \in {"tool", "cutover"} \cup ApprovalPhases,
           request.tool \in DestructiveTools
    PROVE  subject \in Ids /\ ApprovalKey \in ApprovalKeys
  <1>1. op = "execute" /\ request \in Requests
    BY InTool
  <1>2. subject \in Ids
    BY <1>1 DEF ControlOK, IsAccepted, GatedTools
  <1> QED
    BY <1>2, HarnessAssumption DEF ApprovalKey, ApprovalKeys, ActionOf

(* Every step keeps the type of the links.                                 *)
LEMMA StateTypeStep ==
    ASSUME StateTypeOK, CallTypeOK, ControlOK, Next
    PROVE  StateTypeOK'
  <1> USE DEF StateTypeOK, PathState, CutoverStep, LeaveOff
  <1>1. CASE UNCHANGED stateVars
    BY <1>1 DEF stateVars, linkVars
  <1>2. CASE StartSwitch
    <2>1. request.argument \in Releases
      BY <1>2, InTool, HarnessAssumption DEF StartSwitch
    <2> QED
      BY <1>2, <2>1 DEF StartSwitch, SwitchRelease, BeginCutover, CreateCheckpoint
  <1>3. CASE ContinueSwitch
    BY <1>3 DEF ContinueSwitch, CutoverContinues, UnlinkPrevious, LinkPrevious, StageLink
  <1>4. CASE FinishSwitch
    BY <1>4 DEF FinishSwitch, SwapCurrent
  <1>5. CASE SwitchRaises
    BY <1>5 DEF SwitchRaises, CutoverRaises
  <1>6. CASE Interrupt
    BY <1>6 DEF Interrupt, AbandonCutover, linkVars
  <1> QED
    BY <1>1, <1>2, <1>3, <1>4, <1>5, <1>6, StateMoves

(* The history variables record manifests, graphs and requests there are.  *)
LEMMA HistoryTypeStep ==
    ASSUME TypeOK, Next
    PROVE  HistoryTypeOK'
  <1> USE DEF TypeOK
  <1>1. evidence' \in [Ids -> Evidence]
    <2>1. CASE Accept
      BY <2>1 DEF Accept, Evidence, HistoryTypeOK, CallTypeOK, WorldTypeOK
    <2> QED
      BY <2>1, EvidenceMoves DEF HistoryTypeOK
  <1>2. briefed' \in [ApprovalKeys -> Briefing]
    <2>1. ASSUME NEW k \in ApprovalKeys, NEW v \in Versions, NEW a \in Arguments,
                 NEW d \in Durations, Grant(k, v, a, d)
          PROVE  briefed' \in [ApprovalKeys -> Briefing]
      <3>1. k[1] \in Ids
        BY HarnessAssumption DEF ApprovalKeys
      <3>2. [version |-> manifests[k[1]].version, targets |-> manifests[k[1]].targets]
               \in Briefing
        BY <3>1 DEF RegistryTypeOK, ChangeManifest, Briefing
      <3> QED
        BY <2>1, <3>2 DEF Grant, HistoryTypeOK
    <2> QED
      BY <2>1, BriefingMoves DEF HistoryTypeOK
  <1>3. effect' \in Effect \cup {NoEffect} /\ performed' \in Nat
    <2>1. ASSUME (Stage \/ FinishSwitch \/ Reload \/ Destroy), Perform
          PROVE  effect' \in Effect \cup {NoEffect} /\ performed' \in Nat
      <3>1. request \in Requests /\ subject = request.id
        BY <2>1, InTool DEF Stage, FinishSwitch, Reload, Destroy, ApprovalPhases
      <3>2. subject \in Ids
        <4>1. CASE Stage \/ Reload
          BY <4>1 DEF Stage, Reload, MayRun, IsAccepted, StagingTools, AvailabilityTools,
                      ReadOnlyTools
        <4>2. CASE FinishSwitch \/ Destroy
          BY <4>2, InTool DEF FinishSwitch, Destroy, ControlOK, IsAccepted, ApprovalPhases
        <4> QED
          BY <2>1, <4>1, <4>2
      <3>3. manifests[subject].version \in Nat
        BY <3>2 DEF RegistryTypeOK, ChangeManifest
      <3>4. request.tool \in Tools /\ request.argument \in ToolArguments
        BY <3>1, HarnessAssumption DEF Request
      <3> QED
        BY <2>1, <3>2, <3>3, <3>4 DEF Perform, Effect, HistoryTypeOK
    <2> QED
      BY <2>1, ChangeMoves DEF HistoryTypeOK
  <1>4. sanctioned' \subseteq Versions \X Arguments
    <2>1. CASE SeekApproval
      <3>1. ApprovalKey \in ApprovalKeys
        BY <2>1, ToolKey DEF SeekApproval
      <3> QED
        BY <2>1, <3>1, ScopesType DEF SeekApproval, ApprovalTypeOK
    <2>2. ASSUME NEW k \in ApprovalKeys, NEW v \in Versions, NEW a \in Arguments,
                 NEW d \in Durations, Grant(k, v, a, d)
          PROVE  sanctioned' \subseteq Versions \X Arguments
      <3>1. approvals'[k] \in ApprovalRecord \cup {NoApproval}
        BY <2>2, ApprovalTypeStep DEF ApprovalTypeOK
      <3>2. Scopes({approvals'[k]}) \subseteq Versions \X Arguments
        BY <3>1, ScopesType
      <3> QED
        BY <2>2, <3>2 DEF Grant, SanctionedWith, HistoryTypeOK
    <2> QED
      BY <2>1, <2>2, SanctionMoves DEF Return, HistoryTypeOK
  <1> QED
    BY <1>1, <1>2, <1>3, <1>4 DEF HistoryTypeOK

(* The graph and the disk are always those of some state of the            *)
(* repository, and the counters only count.                                *)
LEMMA WorldTypeStep ==
    ASSUME WorldTypeOK, Next
    PROVE  WorldTypeOK'
  <1>1. disk.graph \in Graph
    BY DEF WorldTypeOK, Disk
  <1>2. CASE Call
    <2>1. ASSUME NEW cost \in {SubmitCost, AmendCost, ToolCost}, Charge(cost)
          PROVE  turns' \in Nat /\ tokens' \in Nat
      BY <2>1 DEF Charge, WorldTypeOK, SubmitCost, AmendCost, ToolCost
    <2> QED
      BY <1>1, <1>2, <2>1
      DEF Call, OverBudget, AssembleContext, SubmitRefused, Submit, AmendRefused, Amend,
          ExecuteRefused, Execute, budgetVars, WorldTypeOK
  <1>3. CASE Continue
    BY <1>3
    DEF Continue, ImpactCovered, ImpactMissed, VerifyContract, ContractViolated, Accept,
        EnterTool, ToolRefused, Inspect, Stage, PatchRefused, StartSwitch, ContinueSwitch,
        FinishSwitch, SwitchRaises, Reload, SeekApproval, FetchApproval, Authorize,
        Destroy, ApprovalMissing, budgetVars, WorldTypeOK
  <1>4. CASE Environment
    BY <1>4, HarnessAssumption
    DEF Environment, EditDisk, Tick, Revoke, Grant, Interrupt, budgetVars, WorldTypeOK
  <1> QED
    BY <1>2, <1>3, <1>4 DEF Next

(* A call that has returned leaves nothing behind.                         *)
LEMMA ReturnIsIdle ==
    ASSUME Return
    PROVE  CallTypeOK' /\ ControlOK'
  BY DEF Return, CallTypeOK, ControlOK, Operations, Phases, ApprovalPhases, GatedTools,
         SwitchTools, AvailabilityTools, DestructiveTools, UnknownTools, NoRequest

(* A call that fails returns.                                              *)
LEMMA FailReturns == Fail => Return
  BY DEF Fail

(* A call moves from step to step as the code does, and what holds of a    *)
(* tool past its gate stays so: the registry is not written meanwhile.     *)
LEMMA CallTypeStep ==
    ASSUME TypeOK, Next
    PROVE  CallTypeOK' /\ ControlOK'
  <1> USE DEF TypeOK
  <1>1. CASE UNCHANGED <<registryVars, callVars>>
    BY <1>1 DEF callVars, registryVars, CallTypeOK, ControlOK, IsAccepted
  <1>2. CASE Return
    BY <1>2, ReturnIsIdle
  <1>3. ASSUME NEW s \in Submissions, Submit(s)
        PROVE  CallTypeOK' /\ ControlOK'
    BY <1>3, SubmitType DEF Submit, MayCall, CallTypeOK, ControlOK, Operations, Phases,
                            ApprovalPhases
  <1>4. ASSUME NEW a \in Amendments, Amend(a)
        PROVE  CallTypeOK' /\ ControlOK'
    BY <1>4, HarnessAssumption
    DEF Amend, Amendment, MayCall, CallTypeOK, ControlOK, Operations, Phases, ApprovalPhases
  <1>5. ASSUME NEW r \in Requests, Execute(r)
        PROVE  CallTypeOK' /\ ControlOK'
    <2>1. r.id \in Ids \cup {0}
      BY HarnessAssumption DEF Request
    <2>2. r.tool \in GatedTools => IsAccepted(r.id) /\ r.id \in Ids
      BY <1>5 DEF Execute, Gated, IsAccepted
    <2>3. todo' \subseteq Contracts
      BY <1>5, <2>2 DEF Execute, RegistryTypeOK, ChangeManifest
    <2>4. UNCHANGED registryVars
      BY <1>5 DEF Execute
    <2> QED
      BY <1>5, <2>1, <2>2, <2>3, <2>4
      DEF Execute, CallTypeOK, ControlOK, Operations, Phases, ApprovalPhases, IsAccepted,
          registryVars
  <1>6. CASE ImpactCovered
    <2>1. Proposal \in ChangeManifest
      BY <1>6 DEF ImpactCovered, Proposal, ControlOK, CallTypeOK, Operations, RegistryTypeOK,
             ApprovalPhases
    <2> QED
      BY <1>6, <2>1
      DEF ImpactCovered, ChangeManifest, CallTypeOK, ControlOK, Operations, Phases,
          ApprovalPhases
  <1>7. ASSUME NEW c \in Contracts, VerifyContract(c)
        PROVE  CallTypeOK' /\ ControlOK'
    BY <1>7 DEF VerifyContract, registryVars, CallTypeOK, ControlOK, IsAccepted
  <1>8. CASE EnterTool \/ StartSwitch \/ SeekApproval \/ Authorize
    BY <1>8, InTool
    DEF EnterTool, StartSwitch, SeekApproval, Authorize, registryVars, CallTypeOK, ControlOK,
        Phases, ApprovalPhases, IsAccepted, GatedTools
  <1>9. CASE FetchApproval
    <2>1. approvals[ApprovalKey] \in ApprovalRecord \cup {NoApproval}
      BY <1>9, ToolKey DEF FetchApproval, ControlOK, ApprovalTypeOK, ApprovalPhases
    <2> QED
      BY <1>9, <2>1, InTool
      DEF FetchApproval, registryVars, CallTypeOK, ControlOK, Phases, ApprovalPhases,
          IsAccepted, GatedTools
  <1> QED
    BY <1>1, <1>2, <1>3, <1>4, <1>5, <1>6, <1>7, <1>8, <1>9, FailReturns, CallMoves DEF Accept

(* The harness starts with nothing submitted, approved or spent.           *)
LEMMA InitType == Init => TypeOK
  <1> SUFFICES ASSUME Init PROVE TypeOK
    OBVIOUS
  <1> USE DEF Init
  <1>1. RegistryTypeOK
    BY NoManifestType, RegistryAssumption DEF RegistryInit, RegistryTypeOK
  <1>2. ApprovalTypeOK
    BY DEF ApprovalInit, ApprovalTypeOK
  <1>3. StateTypeOK
    BY PathAssumption DEF StateInit, StateTypeOK, PathState, CutoverStep
  <1>4. WorldTypeOK
    BY HarnessAssumption DEF WorldTypeOK, Disk
  <1>5. CallTypeOK /\ ControlOK
    BY DEF CallTypeOK, ControlOK, Operations, Phases, ApprovalPhases, NoRequest
  <1>6. HistoryTypeOK
    BY <1>4 DEF WorldTypeOK, HistoryTypeOK, Evidence, Briefing
  <1> QED
    BY <1>1, <1>2, <1>3, <1>4, <1>5, <1>6 DEF TypeOK

(* Every step of the harness keeps every type.                             *)
LEMMA TypeStep ==
    ASSUME TypeOK, [Next]_vars
    PROVE  TypeOK'
  <1>1. CASE Next
    BY <1>1, RegistryTypeStep, ApprovalTypeStep, StateTypeStep, WorldTypeStep, CallTypeStep,
       HistoryTypeStep DEF TypeOK
  <1>2. CASE UNCHANGED vars
    BY <1>2 DEF vars, registryVars, approvalVars, stateVars, linkVars, budgetVars,
                callVars, historyVars, lastingVars, TypeOK, RegistryTypeOK, ApprovalTypeOK,
                StateTypeOK, WorldTypeOK, CallTypeOK, ControlOK, IsAccepted, HistoryTypeOK
  <1> QED
    BY <1>1, <1>2

(* Every variable of the harness keeps its type and a call is always at a  *)
(* step the code has, whatever is submitted, granted, edited or            *)
(* interrupted (core.py 68-205).                                           *)
THEOREM TypeCorrect == Spec => []TypeOK
  BY InitType, TypeStep, PTL DEF Spec
=============================================================================
