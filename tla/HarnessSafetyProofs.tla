------------------------- MODULE HarnessSafetyProofs -------------------------
(***************************************************************************)
(* The safety of Harness, for every value of its constants: CallsAreSound  *)
(* is inductive, part by part, and the properties follow from it.          *)
(***************************************************************************)
EXTENDS HarnessProofs, FiniteSetTheorems

-----------------------------------------------------------------------------
(* The registry.                                                           *)

(* Filing a manifest under the next identifier disturbs no other.          *)
LEMMA SubmitRegistry ==
    ASSUME TypeOK, RegistryOK, StagedExtendsAccepted, NEW s \in Submissions, Submit(s)
    PROVE  RegistryOK' /\ StagedExtendsAccepted'
  <1> DEFINE i == counter + 1
  <1>1. /\ i \in Ids
        /\ i > counter
        /\ manifests' = [manifests EXCEPT ![i] =
                            [version |-> 1, targets |-> CanonicalPaths(s.paths),
                             invariants |-> s.invariants, status |-> "PENDING_VALIDATION"]]
        /\ staging' = staging
        /\ counter' = i
        /\ op' = "submit" /\ subject' = i
    <2>1. i \in Ids /\ i > counter
      BY SubmitType DEF TypeOK, RegistryTypeOK
    <2>2. UNCHANGED staging
      BY DEF Submit, CreatePendingManifest
    <2> QED
      BY <2>1, <2>2 DEF Submit, CreatePendingManifest
  <1> HIDE DEF i
  <1>2. staging[i] = NoManifest
    BY <1>1 DEF RegistryOK
  <1>3. \A j \in Ids : j > counter' => j > counter /\ j # i
    BY <1>1 DEF Ids, i, TypeOK, RegistryTypeOK
  <1>4. RegistryOK'
    BY <1>1, <1>3 DEF RegistryOK, TypeOK, RegistryTypeOK
  <1>5. ASSUME NEW j \in Ids, staging[j] # NoManifest
        PROVE  manifests'[j] = manifests[j]
    BY <1>1, <1>2, <1>5 DEF TypeOK, RegistryTypeOK
  <1>6. StagedExtendsAccepted'
    BY <1>1, <1>5 DEF StagedExtendsAccepted, HasStagedAmendment, IsAccepted
  <1> QED
    BY <1>4, <1>6

(* A candidate is staged beside an accepted manifest, and extends it.      *)
LEMMA AmendRegistry ==
    ASSUME TypeOK, RegistryOK, StagedExtendsAccepted, NEW a \in Amendments, Amend(a)
    PROVE  RegistryOK' /\ StagedExtendsAccepted'
  <1> DEFINE c == Candidate(a.id, a.paths, a.invariants)
  <1>1. /\ a.id \in Ids
        /\ IsAccepted(a.id)
        /\ staging' = [staging EXCEPT ![a.id] = c]
        /\ manifests' = manifests /\ counter' = counter
        /\ op' = "amend" /\ subject' = a.id
    BY DEF Amend, IsStageable, IsAccepted, StageAmendment
  <1>2. /\ c # NoManifest
        /\ c.version = manifests[a.id].version + 1
        /\ manifests[a.id].targets \subseteq c.targets
        /\ manifests[a.id].invariants \subseteq c.invariants
    BY DEF Candidate, NoManifest
  <1> HIDE DEF c
  <1>3. ~(a.id > counter)
    BY <1>1 DEF RegistryOK, IsAccepted, NoManifest
  <1>4. RegistryOK'
    BY <1>1, <1>2, <1>3 DEF RegistryOK, HasStagedAmendment, TypeOK, RegistryTypeOK
  <1>5. StagedExtendsAccepted'
    BY <1>1, <1>2 DEF StagedExtendsAccepted, HasStagedAmendment, IsAccepted, TypeOK,
                      RegistryTypeOK
  <1> QED
    BY <1>4, <1>5

(* A call that fails takes back what it had put into the registry.         *)
LEMMA FailRegistry ==
    ASSUME TypeOK, RegistryOK, StagedExtendsAccepted, Fail
    PROVE  RegistryOK' /\ StagedExtendsAccepted'
  <1>1. op' = "idle"
    BY DEF Fail, Return
  <1>2. CASE op = "submit" /\ RejectManifest(subject)
    <2>1. subject \in Ids /\ ~IsAccepted(subject) /\ ~(subject > counter)
      BY <1>2 DEF TypeOK, ControlOK, RegistryOK, IsAccepted, NoManifest
    <2>2. staging[subject] = NoManifest
      BY <2>1 DEF StagedExtendsAccepted, HasStagedAmendment
    <2> QED
      BY <1>1, <1>2, <2>1, <2>2
      DEF RejectManifest, RegistryOK, StagedExtendsAccepted, HasStagedAmendment, IsAccepted,
          TypeOK, RegistryTypeOK
  <1>3. CASE op = "amend" /\ RollbackAmendment(subject)
    BY <1>1, <1>3
    DEF RollbackAmendment, RegistryOK, StagedExtendsAccepted, HasStagedAmendment, IsAccepted,
        TypeOK, RegistryTypeOK
  <1>4. CASE op = "execute" /\ UNCHANGED registryVars
    BY <1>1, <1>4
    DEF registryVars, RegistryOK, StagedExtendsAccepted, HasStagedAmendment, IsAccepted
  <1> QED
    BY <1>2, <1>3, <1>4 DEF Fail

(* Accepting a manifest, and committing a candidate, empty its staging.    *)
LEMMA AcceptRegistry ==
    ASSUME TypeOK, RegistryOK, StagedExtendsAccepted, Accept
    PROVE  RegistryOK' /\ StagedExtendsAccepted'
  <1>1. op' = "idle"
    BY DEF Accept, Return
  <1>2. CASE op = "submit" /\ AcceptManifest(subject)
    <2>1. subject \in Ids /\ ~IsAccepted(subject) /\ ~(subject > counter)
      BY <1>2 DEF TypeOK, ControlOK, RegistryOK, IsAccepted, NoManifest
    <2>2. staging[subject] = NoManifest
      BY <2>1 DEF StagedExtendsAccepted, HasStagedAmendment
    <2> QED
      BY <1>1, <1>2, <2>1, <2>2
      DEF AcceptManifest, RegistryOK, StagedExtendsAccepted, HasStagedAmendment, IsAccepted,
          TypeOK, RegistryTypeOK
  <1>3. CASE op = "amend" /\ CommitAmendment(subject)
    <2>1. subject \in Ids /\ IsAccepted(subject) /\ ~(subject > counter)
      BY <1>3 DEF TypeOK, ControlOK, RegistryOK, StagedExtendsAccepted, IsAccepted, NoManifest
    <2> QED
      BY <1>1, <1>3, <2>1
      DEF CommitAmendment, RegistryOK, StagedExtendsAccepted, HasStagedAmendment, IsAccepted,
          TypeOK, RegistryTypeOK
  <1> QED
    BY <1>2, <1>3 DEF Accept

(* Every step keeps the registry in order and its candidates extending.    *)
LEMMA RegistryStep ==
    ASSUME TypeOK, RegistryOK, StagedExtendsAccepted, Next
    PROVE  RegistryOK' /\ StagedExtendsAccepted'
  <1>1. ASSUME UNCHANGED registryVars,
               op' \in {"idle", "execute"} \/ UNCHANGED <<op, subject>>
        PROVE  RegistryOK' /\ StagedExtendsAccepted'
    BY <1>1 DEF registryVars, RegistryOK, StagedExtendsAccepted, HasStagedAmendment, IsAccepted
  <1>2. ASSUME \/ \E r \in Requests : Execute(r)
               \/ ImpactCovered
               \/ \E c \in Contracts : VerifyContract(c)
               \/ EnterTool \/ StartSwitch \/ SeekApproval \/ FetchApproval \/ Authorize
               \/ Return /\ UNCHANGED registryVars
               \/ UNCHANGED <<registryVars, callVars>>
        PROVE  RegistryOK' /\ StagedExtendsAccepted'
    BY <1>1, <1>2 DEF Execute, ImpactCovered, VerifyContract, EnterTool, StartSwitch,
                      SeekApproval, FetchApproval, Authorize, Return, callVars
  <1> QED
    BY <1>2, SubmitRegistry, AmendRegistry, FailRegistry, AcceptRegistry, CallMoves

-----------------------------------------------------------------------------
(* What a manifest's acceptance rests on.                                  *)

(* The graph a call computes the impact on is refreshed before the call    *)
(* does anything else, never within it.                                    *)
LEMMA GraphMoves ==
    ASSUME Next
    PROVE  UNCHANGED graph \/ op = "idle"
  <1>1. CASE Call
    BY <1>1 DEF Call, OverBudget, AssembleContext, SubmitRefused, Submit, AmendRefused, Amend,
                ExecuteRefused, Execute, MayCall
  <1>2. CASE Continue
    BY <1>2
    DEF Continue, ImpactCovered, ImpactMissed, VerifyContract, ContractViolated, Accept,
        EnterTool, ToolRefused, Inspect, Stage, PatchRefused, StartSwitch, ContinueSwitch,
        FinishSwitch, SwitchRaises, Reload, SeekApproval, FetchApproval, Authorize,
        Destroy, ApprovalMissing
  <1>3. CASE Environment
    BY <1>3 DEF Environment, EditDisk, Tick, Revoke, Grant, Interrupt
  <1> QED
    BY <1>1, <1>2, <1>3 DEF Next

(* What a call has vetted stays what it is about to accept.                *)
LEMMA VettingStep ==
    ASSUME TypeOK, VettingOK, Next
    PROVE  VettingOK'
  <1>1. ASSUME op' \in {"idle", "execute"} \/ phase' = "impact"
        PROVE  VettingOK'
    BY <1>1 DEF VettingOK
  <1>2. ASSUME UNCHANGED <<registryVars, callVars>>
        PROVE  VettingOK'
    <2>1. CASE op = "idle"
      BY <1>1, <1>2, <2>1 DEF callVars
    <2>2. CASE UNCHANGED graph
      BY <1>2, <2>2 DEF callVars, registryVars, VettingOK, Proposal
    <2> QED
      BY <2>1, <2>2, GraphMoves
  <1>3. CASE ImpactCovered
    BY <1>3 DEF ImpactCovered, VettingOK, Proposal, registryVars
  <1>4. ASSUME NEW c \in Contracts, VerifyContract(c)
        PROVE  VettingOK'
    BY <1>4 DEF VerifyContract, VettingOK, Proposal, registryVars
  <1>5. (Accept \/ Fail) => op' = "idle"
    BY DEF Accept, Fail, Return
  <1>6. (EnterTool \/ StartSwitch \/ SeekApproval \/ FetchApproval \/ Authorize)
           => op' = "execute"
    BY InTool DEF ApprovalPhases, EnterTool, StartSwitch, SeekApproval, FetchApproval,
                  Authorize, TypeOK
  <1> QED
    BY <1>1, <1>2, <1>3, <1>4, <1>5, <1>6, CallMoves DEF Submit, Amend, Execute, Return

(* An acceptance records evidence that covers what it accepts; nothing     *)
(* else makes a manifest accepted or changes one that is.                  *)
LEMMA AcceptanceStep ==
    ASSUME TypeOK, RegistryOK, VettingOK, AcceptedIsVerified, Next
    PROVE  AcceptedIsVerified'
  <1>1. ASSUME NEW i \in Ids, IsAccepted(i)', manifests'[i] = manifests[i],
               evidence'[i] = evidence[i]
        PROVE  /\ ~ImpactGap(evidence[i].graph, manifests[i].targets)'
               /\ (manifests[i].invariants \subseteq evidence[i].checked)'
    BY <1>1 DEF AcceptedIsVerified, IsAccepted
  <1>2. CASE Accept
    <2>1. /\ subject \in Ids
          /\ phase = "contracts" /\ todo = {}
          /\ op \in {"submit", "amend"}
      BY <1>2 DEF Accept, TypeOK, ControlOK
    <2>2. evidence' = [evidence EXCEPT ![subject] = [graph |-> graph, checked |-> checked]]
      BY <1>2 DEF Accept
    <2>3. /\ manifests'[subject].targets = Proposal.targets
          /\ manifests'[subject].invariants = Proposal.invariants
      BY <1>2, <2>1 DEF Accept, AcceptManifest, CommitAmendment, Proposal, TypeOK,
                        RegistryTypeOK, ChangeManifest
    <2>4. ASSUME NEW i \in Ids, i # subject
          PROVE  manifests'[i] = manifests[i] /\ evidence'[i] = evidence[i]
      BY <1>2, <2>4 DEF Accept, AcceptManifest, CommitAmendment, TypeOK, RegistryTypeOK,
                        HistoryTypeOK
    <2>5. /\ evidence'[subject].graph = graph
          /\ evidence'[subject].checked = checked
      BY <2>1, <2>2 DEF TypeOK, HistoryTypeOK
    <2>6. /\ ~ImpactGap(evidence'[subject].graph, manifests'[subject].targets)
          /\ manifests'[subject].invariants \subseteq evidence'[subject].checked
      BY <2>1, <2>3, <2>5 DEF VettingOK
    <2> QED
      BY <1>1, <2>4, <2>6 DEF AcceptedIsVerified
  <1>3. ASSUME NEW s \in Submissions, Submit(s), UNCHANGED evidence
        PROVE  AcceptedIsVerified'
    <2>1. ASSUME NEW i \in Ids, IsAccepted(i)'
          PROVE  manifests'[i] = manifests[i]
      BY <1>3, <2>1 DEF Submit, CreatePendingManifest, IsAccepted, TypeOK, RegistryTypeOK
    <2> QED
      BY <1>1, <1>3, <2>1 DEF AcceptedIsVerified
  <1>4. ASSUME Fail, UNCHANGED evidence
        PROVE  AcceptedIsVerified'
    <2>1. ASSUME NEW i \in Ids, IsAccepted(i)'
          PROVE  manifests'[i] = manifests[i]
      <3>1. CASE RejectManifest(subject)
        BY <2>1, <3>1 DEF RejectManifest, IsAccepted, TypeOK, RegistryTypeOK, ChangeManifest
      <3>2. CASE RollbackAmendment(subject)
        BY <3>2 DEF RollbackAmendment
      <3>3. CASE UNCHANGED registryVars
        BY <3>3 DEF registryVars
      <3> QED
        BY <1>4, <3>1, <3>2, <3>3 DEF Fail
    <2> QED
      BY <1>1, <1>4, <2>1 DEF AcceptedIsVerified
  <1>5. ASSUME UNCHANGED <<manifests, evidence>>
        PROVE  AcceptedIsVerified'
    BY <1>5 DEF AcceptedIsVerified, IsAccepted
  <1>6. ASSUME NEW a \in Amendments, Amend(a)
        PROVE  UNCHANGED manifests
    BY <1>6 DEF Amend, StageAmendment
  <1> QED
    BY <1>2, <1>3, <1>4, <1>5, <1>6, RegistryMoves, EvidenceMoves DEF registryVars

-----------------------------------------------------------------------------
(* The gate before the tools.                                              *)

(* A gated tool starts, and goes on, with every invariant seen to hold.    *)
LEMMA GateStep ==
    ASSUME TypeOK, GateOK, Next
    PROVE  GateOK'
  <1>1. CASE UNCHANGED <<registryVars, callVars>>
    BY <1>1 DEF registryVars, callVars, GateOK
  <1>2. CASE Return
    BY <1>2 DEF Return, GateOK
  <1>3. ASSUME op' \in {"submit", "amend"}, phase' \in {"impact", "contracts"}
        PROVE  GateOK'
    BY <1>3 DEF GateOK, ApprovalPhases
  <1>4. ASSUME NEW r \in Requests, Execute(r)
        PROVE  GateOK'
    BY <1>4 DEF Execute, GateOK, registryVars, ApprovalPhases
  <1>5. CASE ImpactCovered
    BY <1>3, <1>5 DEF ImpactCovered, TypeOK, CallTypeOK, ControlOK, Operations, ApprovalPhases
  <1>6. ASSUME NEW c \in Contracts, VerifyContract(c)
        PROVE  GateOK'
    BY <1>6 DEF VerifyContract, GateOK, registryVars
  <1>7. CASE EnterTool \/ StartSwitch \/ SeekApproval \/ FetchApproval \/ Authorize
    BY <1>7 DEF EnterTool, StartSwitch, SeekApproval, FetchApproval, Authorize, GateOK,
                registryVars, ApprovalPhases
  <1> QED
    BY <1>1, <1>2, <1>3, <1>4, <1>5, <1>6, <1>7, FailReturns, CallMoves
    DEF Submit, Amend, Accept

-----------------------------------------------------------------------------
(* The budget.                                                             *)

(* Within a call nothing is charged and no more than one change is made.   *)
LEMMA WorkMoves ==
    ASSUME TypeOK, Continue \/ Environment
    PROVE  Work' <= Work /\ UNCHANGED <<turns, tokens, counter>>
  <1> USE DEF TypeOK, HistoryTypeOK, Work
  <1>1. UNCHANGED budgetVars
    BY DEF Continue, ImpactCovered, ImpactMissed, VerifyContract, ContractViolated, Accept,
           EnterTool, ToolRefused, Inspect, Stage, PatchRefused, StartSwitch,
           ContinueSwitch, FinishSwitch, SwitchRaises, Reload, SeekApproval, FetchApproval,
           Authorize, Destroy, ApprovalMissing, Environment, EditDisk, Tick, Revoke, Grant,
           Interrupt
  <1>2. UNCHANGED counter
    <2>1. ~\E s \in Submissions : Submit(s)
      BY DEF Submit, Continue, ImpactCovered, ImpactMissed, VerifyContract,
             ContractViolated, Accept, EnterTool, ToolRefused, Inspect, Stage,
             PatchRefused, StartSwitch, ContinueSwitch, FinishSwitch, SwitchRaises, Reload,
             SeekApproval, FetchApproval, Authorize, Destroy, ApprovalMissing, Environment,
             EditDisk, Tick, Revoke, Grant, Interrupt, Charge, budgetVars, WorldTypeOK
    <2> QED
      BY <2>1, RegistryMoves
      DEF Next, registryVars, Amend, StageAmendment, Fail, RejectManifest, RollbackAmendment,
          Accept, AcceptManifest, CommitAmendment
  <1>3. CASE (Stage \/ FinishSwitch \/ Reload \/ Destroy) /\ Perform
    <2>1. op = "execute"
      BY <1>3, InTool DEF Stage, FinishSwitch, Reload, Destroy, ApprovalPhases
    <2> QED
      BY <1>1, <1>2, <1>3, <2>1 DEF Perform, Return, budgetVars
  <1>4. CASE UNCHANGED performed
    <2>1. op' = op \/ op' = "idle"
      BY FailReturns
      DEF Return, Continue, ImpactCovered, ImpactMissed, VerifyContract, ContractViolated,
          Accept, EnterTool, ToolRefused, Inspect, Stage, PatchRefused, StartSwitch,
          ContinueSwitch, FinishSwitch, SwitchRaises, Reload, SeekApproval, FetchApproval,
          Authorize, Destroy, Perform, ApprovalMissing, Environment, EditDisk, Tick,
          Revoke, Grant, Interrupt, callVars
    <2> QED
      BY <1>1, <1>2, <1>4, <2>1 DEF budgetVars
  <1> QED
    BY <1>3, <1>4, ChangeMoves DEF Next

(* A call is charged before it creates a manifest or may make a change.    *)
LEMMA BudgetStep ==
    ASSUME TypeOK, BudgetOK, Next
    PROVE  BudgetOK'
  <1> USE DEF TypeOK, HistoryTypeOK, RegistryTypeOK, WorldTypeOK, BudgetOK, Work, Charge,
              SubmitCost, AmendCost, ToolCost
  <1>1. CASE Continue \/ Environment
    <2>1. Work \in Nat /\ Work' \in Nat
      BY <1>1, TypeStep
    <2> HIDE DEF Work
    <2> QED
      BY <1>1, <2>1, WorkMoves, HarnessAssumption
  <1>2. CASE OverBudget
    BY <1>2 DEF OverBudget, registryVars, callVars, historyVars, lastingVars
  <1>3. CASE AssembleContext
    BY <1>3 DEF AssembleContext, registryVars, budgetVars, callVars, historyVars, lastingVars
  <1>4. ASSUME NEW s \in Submissions, SubmitRefused(s)
        PROVE  BudgetOK'
    BY <1>4 DEF SubmitRefused, registryVars, callVars, historyVars, lastingVars
  <1>5. ASSUME NEW s \in Submissions, Submit(s)
        PROVE  BudgetOK'
    <2>1. counter' = counter + 1
      BY <1>5 DEF Submit, CreatePendingManifest
    <2> QED
      BY <1>5, <2>1, HarnessAssumption
      DEF Submit, MayCall, WithinBudget, historyVars, lastingVars
  <1>6. ASSUME NEW a \in Amendments, AmendRefused(a)
        PROVE  BudgetOK'
    BY <1>6 DEF AmendRefused, registryVars, callVars, historyVars, lastingVars
  <1>7. ASSUME NEW a \in Amendments, Amend(a)
        PROVE  BudgetOK'
    <2>1. counter' = counter
      BY <1>7 DEF Amend, StageAmendment
    <2> QED
      BY <1>7, <2>1 DEF Amend, MayCall, historyVars, lastingVars
  <1>8. ASSUME NEW r \in Requests, ExecuteRefused(r)
        PROVE  BudgetOK'
    BY <1>8 DEF ExecuteRefused, registryVars, callVars, historyVars, lastingVars
  <1>9. ASSUME NEW r \in Requests, Execute(r)
        PROVE  BudgetOK'
    BY <1>9, HarnessAssumption
    DEF Execute, MayCall, WithinBudget, registryVars, historyVars, lastingVars
  <1> QED
    BY <1>1, <1>2, <1>3, <1>4, <1>5, <1>6, <1>7, <1>8, <1>9 DEF Next, Call

-----------------------------------------------------------------------------
(* The operator's approvals.                                               *)

(* No version number is ever given a second meaning: a manifest that       *)
(* exists changes its targets only together with its version.              *)
LEMMA ScopeMoves ==
    ASSUME TypeOK, RegistryOK, StagedExtendsAccepted, Next, NEW i \in Ids, i <= counter
    PROVE  /\ i <= counter'
           /\ \/ /\ manifests'[i].version = manifests[i].version
                 /\ manifests'[i].targets = manifests[i].targets
              \/ manifests'[i].version = manifests[i].version + 1
  <1> USE DEF TypeOK, RegistryTypeOK
  <1>1. CASE UNCHANGED registryVars
    BY <1>1 DEF registryVars
  <1>2. ASSUME NEW s \in Submissions, Submit(s)
        PROVE  manifests'[i] = manifests[i] /\ i <= counter'
    <2>1. i # counter + 1 /\ i <= counter + 1
      BY DEF Ids
    <2> QED
      BY <1>2, <2>1 DEF Submit, CreatePendingManifest
  <1>3. ASSUME NEW a \in Amendments, Amend(a)
        PROVE  UNCHANGED <<manifests, counter>>
    BY <1>3 DEF Amend, StageAmendment
  <1>4. CASE Fail
    <2>1. CASE RejectManifest(subject)
      BY <2>1 DEF RejectManifest, ChangeManifest
    <2>2. CASE RollbackAmendment(subject) \/ UNCHANGED registryVars
      BY <2>2 DEF RollbackAmendment, registryVars
    <2> QED
      BY <1>4, <2>1, <2>2 DEF Fail
  <1>5. CASE Accept
    <2>1. CASE AcceptManifest(subject)
      BY <2>1 DEF AcceptManifest, ChangeManifest
    <2>2. CASE CommitAmendment(subject)
      <3>1. CASE i = subject
        <4>1. staging[i].version = manifests[i].version + 1
          BY <2>2, <3>1 DEF CommitAmendment, StagedExtendsAccepted
        <4> QED
          BY <2>2, <3>1, <4>1 DEF CommitAmendment, ChangeManifest
      <3>2. CASE i # subject
        BY <2>2, <3>2 DEF CommitAmendment
      <3> QED
        BY <3>1, <3>2
    <2> QED
      BY <1>5, <2>1, <2>2 DEF Accept
  <1> QED
    BY <1>1, <1>2, <1>3, <1>4, <1>5, RegistryMoves

(* What the operator saw is never behind a version with the same number.   *)
LEMMA BriefingStep ==
    ASSUME TypeOK, RegistryOK, StagedExtendsAccepted, BriefingOK, Next
    PROVE  BriefingOK'
  <1> USE DEF TypeOK
  <1>1. \A k \in ApprovalKeys : k[1] \in Ids
    BY HarnessAssumption DEF ApprovalKeys
  <1>2. ASSUME NEW k \in ApprovalKeys, approvals'[k] # NoApproval, approvals[k] # NoApproval,
               briefed'[k] = briefed[k]
        PROVE  /\ k[1] <= counter'
               /\ briefed'[k].version <= manifests'[k[1]].version
               /\ briefed'[k].version = manifests'[k[1]].version =>
                     briefed'[k].targets = manifests'[k[1]].targets
    <2>1. /\ k[1] <= counter
          /\ briefed[k].version <= manifests[k[1]].version
          /\ briefed[k].version = manifests[k[1]].version =>
                briefed[k].targets = manifests[k[1]].targets
      BY <1>2 DEF BriefingOK
    <2>2. briefed[k].version \in Nat /\ manifests[k[1]].version \in Nat
      BY <1>1 DEF HistoryTypeOK, Briefing, RegistryTypeOK, ChangeManifest
    <2> QED
      BY <1>1, <1>2, <2>1, <2>2, ScopeMoves
  <1>3. ASSUME UNCHANGED <<approvals, briefed>>
        PROVE  BriefingOK'
    BY <1>2, <1>3 DEF BriefingOK
  <1>4. ASSUME NEW k \in ApprovalKeys, Revoke(k)
        PROVE  BriefingOK'
    <2>1. \A j \in ApprovalKeys : approvals'[j] # NoApproval => approvals[j] # NoApproval
      BY <1>4 DEF Revoke, RevokeApproval, RevokeAllApprovals, ApprovalTypeOK
    <2>2. UNCHANGED briefed
      BY <1>4 DEF Revoke, historyVars, lastingVars
    <2> QED
      BY <1>2, <2>1, <2>2 DEF BriefingOK
  <1>5. ASSUME NEW k \in ApprovalKeys, NEW v \in Versions, NEW a \in Arguments,
               NEW d \in Durations, Grant(k, v, a, d)
        PROVE  BriefingOK'
    <2>1. /\ k[1] <= counter
          /\ UNCHANGED <<manifests, counter>>
          /\ briefed'[k] = [version |-> manifests[k[1]].version,
                            targets |-> manifests[k[1]].targets]
      BY <1>5 DEF Grant, registryVars, HistoryTypeOK
    <2>2. \A j \in ApprovalKeys \ {k} : /\ approvals'[j] = approvals[j]
                                       /\ briefed'[j] = briefed[j]
      BY <1>5 DEF Grant, GrantApproval, ApprovalTypeOK, HistoryTypeOK
    <2>3. /\ k[1] <= counter'
          /\ briefed'[k].version <= manifests'[k[1]].version
          /\ briefed'[k].version = manifests'[k[1]].version =>
                briefed'[k].targets = manifests'[k[1]].targets
      BY <1>1, <2>1 DEF RegistryTypeOK, ChangeManifest
    <2> QED
      BY <1>2, <2>2, <2>3 DEF BriefingOK
  <1>6. UNCHANGED approvals \/ (\E k \in ApprovalKeys : Revoke(k))
           \/ \E k \in ApprovalKeys, v \in Versions, a \in Arguments, d \in Durations :
                 Grant(k, v, a, d)
    BY ApprovalMoves DEF approvalVars, Tick, ClockTick
  <1> QED
    BY <1>3, <1>4, <1>5, <1>6, BriefingMoves DEF Revoke, historyVars, lastingVars

(* Time takes away from what records approve, and adds nothing.            *)
LEMMA ScopesWear ==
    ASSUME ApprovalTypeOK, now' \in Nat, now <= now',
           NEW S \in SUBSET (ApprovalRecord \cup {NoApproval})
    PROVE  Scopes(S)' \subseteq Scopes(S)
  BY DEF Scopes, ApprovalTypeOK, ApprovalRecord, NoApproval

(* A record that is judged valid approves what the tool is about to do.    *)
LEMMA ValidInScope ==
    ASSUME CallTypeOK, ApprovalTypeOK, record # NoApproval, IsApproved
    PROVE  <<manifests[subject].version, BoundArguments(request)>> \in Scopes({record})
  <1>1. record.expires \in Nat /\ now \in Nat
    BY DEF CallTypeOK, ApprovalTypeOK, ApprovalRecord
  <1> QED
    BY <1>1 DEF IsApproved, IsValid, Scopes

(* What the call relies on has been approved while it sought approval,     *)
(* whatever is granted, replaced or revoked before and after the look-up.  *)
LEMMA SanctionStep ==
    ASSUME TypeOK, SanctionOK, Next
    PROVE  SanctionOK'
  <1> USE DEF TypeOK
  <1>1. ASSUME phase' \notin ApprovalPhases
        PROVE  SanctionOK'
    BY <1>1 DEF SanctionOK, ApprovalPhases
  <1>2. ASSUME UNCHANGED <<registryVars, callVars, sanctioned>>, now' \in Nat, now <= now',
               phase = "approval" => approvals'[ApprovalKey] = approvals[ApprovalKey]
        PROVE  SanctionOK'
    <2>1. CASE phase = "approval"
      <3>1. approvals[ApprovalKey] \in ApprovalRecord \cup {NoApproval}
        BY <2>1, ToolKey DEF ControlOK, ApprovalPhases, ApprovalTypeOK
      <3>2. PICK r : r = approvals[ApprovalKey]
        OBVIOUS
      <3>3. Scopes({r})' \subseteq Scopes({r})
        BY <1>2, <3>1, <3>2, ScopesWear
      <3>4. Scopes({approvals[ApprovalKey]})' = Scopes({r})'
        BY <1>2, <2>1, <3>2 DEF callVars, ApprovalKey, Scopes
      <3> QED
        BY <1>2, <2>1, <3>2, <3>3, <3>4 DEF SanctionOK, callVars
    <2>2. CASE phase = "validity"
      <3>1. Scopes({record})' \subseteq Scopes({record})
        BY <1>2, ScopesWear DEF callVars, CallTypeOK, Scopes
      <3> QED
        BY <1>2, <2>2, <3>1 DEF SanctionOK, callVars
    <2>3. CASE phase = "act"
      BY <1>2, <2>3 DEF SanctionOK, callVars, registryVars, BoundArguments
    <2> QED
      BY <1>1, <1>2, <2>1, <2>2, <2>3 DEF callVars, ApprovalPhases
  <1>3. CASE SeekApproval
    BY <1>3 DEF SeekApproval, approvalVars, SanctionOK, Scopes, ApprovalKey
  <1>4. CASE FetchApproval
    BY <1>4 DEF FetchApproval, approvalVars, historyVars, SanctionOK, Scopes
  <1>5. CASE Authorize
    BY <1>5, ValidInScope
    DEF Authorize, registryVars, historyVars, SanctionOK, BoundArguments
  <1>6. ASSUME NEW k \in ApprovalKeys, NEW v \in Versions, NEW a \in Arguments,
               NEW d \in Durations, Grant(k, v, a, d)
        PROVE  SanctionOK'
    <2>1. /\ UNCHANGED <<registryVars, callVars, now>>
          /\ approvals' = [approvals EXCEPT ![k] = approvals'[k]]
          /\ sanctioned' = SanctionedWith(k, approvals'[k])
      BY <1>6 DEF Grant, GrantApproval, ApprovalTypeOK
    <2>2. CASE phase = "approval" /\ k = ApprovalKey
      <3>1. Scopes({approvals[ApprovalKey]})' = Scopes({approvals'[k]})
        BY <2>1, <2>2 DEF callVars, ApprovalKey, Scopes
      <3> QED
        BY <2>1, <2>2, <3>1 DEF SanctionedWith, SanctionOK, callVars
    <2>3. CASE ~(phase = "approval" /\ k = ApprovalKey)
      <3>1. sanctioned' = sanctioned
        BY <2>1, <2>3 DEF SanctionedWith
      <3>2. phase = "approval" => approvals'[ApprovalKey] = approvals[ApprovalKey]
        BY <2>1, <2>3, ToolKey DEF ControlOK, ApprovalPhases, ApprovalTypeOK
      <3> QED
        BY <1>2, <2>1, <3>1, <3>2 DEF ApprovalTypeOK
    <2> QED
      BY <2>2, <2>3
  <1>7. ASSUME UNCHANGED <<registryVars, callVars>>, UNCHANGED sanctioned
        PROVE  SanctionOK'
    <2>1. CASE UNCHANGED approvalVars \/ Tick
      <3>1. UNCHANGED approvals /\ now' \in Nat /\ now <= now'
        BY <2>1 DEF approvalVars, Tick, ClockTick, ApprovalTypeOK
      <3> QED
        BY <1>2, <1>7, <3>1
    <2>2. ASSUME NEW k \in ApprovalKeys, Revoke(k)
          PROVE  SanctionOK'
      <3>1. /\ now' = now
            /\ \A j \in ApprovalKeys : approvals'[j] \in {approvals[j], NoApproval}
        BY <2>2 DEF Revoke, RevokeApproval, RevokeAllApprovals, ApprovalTypeOK
      <3>2. CASE phase = "approval" /\ approvals'[ApprovalKey] = NoApproval
        <4>1. Scopes({NoApproval})' = {}
          BY DEF Scopes
        <4>2. Scopes({approvals[ApprovalKey]})' = {}
          BY <1>7, <3>2, <4>1 DEF callVars, ApprovalKey, Scopes
        <4> QED
          BY <1>7, <3>2, <4>2 DEF SanctionOK, callVars
      <3>3. CASE phase = "approval" => approvals'[ApprovalKey] = approvals[ApprovalKey]
        BY <1>2, <1>7, <3>1, <3>3 DEF ApprovalTypeOK
      <3> QED
        BY <3>1, <3>2, <3>3, ToolKey DEF ControlOK, ApprovalPhases
    <2>3. ASSUME NEW k \in ApprovalKeys, NEW v \in Versions, NEW a \in Arguments,
                 NEW d \in Durations, Grant(k, v, a, d)
          PROVE  SanctionOK'
      BY <1>6, <2>3
    <2> QED
      BY <2>1, <2>2, <2>3, ApprovalMoves
  <1>8. Return => phase' \notin ApprovalPhases
    BY DEF Return, ApprovalPhases
  <1>9. (\/ \E s \in Submissions : Submit(s)
         \/ \E a \in Amendments : Amend(a)
         \/ \E r \in Requests : Execute(r)
         \/ ImpactCovered
         \/ \E c \in Contracts : VerifyContract(c)
         \/ EnterTool \/ StartSwitch) => phase' \notin ApprovalPhases
    BY DEF Submit, Amend, Execute, ImpactCovered, VerifyContract, EnterTool, StartSwitch,
           ApprovalPhases
  <1>10. CASE UNCHANGED <<registryVars, callVars>>
    BY <1>1, <1>3, <1>6, <1>7, <1>8, <1>10, SanctionMoves
  <1> QED
    BY <1>1, <1>3, <1>4, <1>5, <1>8, <1>9, <1>10, FailReturns, CallMoves DEF Accept

-----------------------------------------------------------------------------
(* The invariant, and what follows from it.                                *)

(* At the start nothing is submitted, staged, approved or spent.           *)
LEMMA InitSound == Init => CallsAreSound
  <1> SUFFICES ASSUME Init PROVE CallsAreSound
    OBVIOUS
  <1>1. TypeOK
    BY InitType
  <1>2. RegistryOK /\ StagedExtendsAccepted /\ AcceptedIsVerified
    BY DEF Init, RegistryInit, RegistryOK, StagedExtendsAccepted, AcceptedIsVerified,
           HasStagedAmendment, IsAccepted, NoManifest
  <1>3. VettingOK /\ GateOK
    BY DEF Init, VettingOK, GateOK
  <1>4. BudgetOK
    BY HarnessAssumption DEF Init, RegistryInit, BudgetOK, Work, ToolCost, SubmitCost
  <1>5. BriefingOK
    BY DEF Init, ApprovalInit, BriefingOK
  <1>6. SanctionOK
    BY DEF Init, SanctionOK
  <1> QED
    BY <1>1, <1>2, <1>3, <1>4, <1>5, <1>6 DEF CallsAreSound

(* Every step, of the harness and of the world around it, keeps it.        *)
LEMMA SoundStep ==
    ASSUME CallsAreSound, [Next]_vars
    PROVE  CallsAreSound'
  <1>1. CASE Next
    BY <1>1, TypeStep, RegistryStep, VettingStep, GateStep, BudgetStep, BriefingStep,
       SanctionStep, AcceptanceStep DEF CallsAreSound
  <1>2. CASE UNCHANGED vars
    <2>1. TypeOK'
      BY <1>2, TypeStep DEF CallsAreSound
    <2>2. UNCHANGED <<manifests, staging, counter, approvals, now, graph, turns, tokens, op,
                      phase, subject, request, todo, record, checked, evidence, briefed,
                      sanctioned, performed>>
      BY <1>2 DEF vars, registryVars, approvalVars, budgetVars, callVars, historyVars,
                  lastingVars
    <2>3. RegistryOK' /\ StagedExtendsAccepted' /\ AcceptedIsVerified'
      BY <2>2 DEF CallsAreSound, RegistryOK, StagedExtendsAccepted, AcceptedIsVerified,
                  HasStagedAmendment, IsAccepted
    <2>4. VettingOK' /\ GateOK'
      BY <2>2 DEF CallsAreSound, VettingOK, GateOK, Proposal
    <2>5. BudgetOK' /\ BriefingOK'
      BY <2>2 DEF CallsAreSound, BudgetOK, Work, BriefingOK
    <2>6. SanctionOK'
      BY <2>2 DEF CallsAreSound, SanctionOK, Scopes, ApprovalKey, BoundArguments
    <2> QED
      BY <2>1, <2>3, <2>4, <2>5, <2>6 DEF CallsAreSound
  <1> QED
    BY <1>1, <1>2

(* At every step of every call, what it has checked still describes what   *)
(* it is about to accept or act upon (core.py 68-205).                     *)
THEOREM Soundness == Spec => []CallsAreSound
  BY InitSound, SoundStep, PTL DEF Spec

(* Whatever is accepted declares its whole blast radius and has had every  *)
(* one of its invariants seen to hold (core.py 98-114 and 140-156).        *)
THEOREM AcceptanceIsVerified == Spec => []AcceptedIsVerified
  <1>1. CallsAreSound => AcceptedIsVerified
    BY DEF CallsAreSound
  <1> QED
    BY <1>1, Soundness, PTL

(* A staged candidate is always the next version of an accepted manifest   *)
(* and drops nothing of it (manifest.py 240-284).                          *)
THEOREM CandidatesExtend == Spec => []StagedExtendsAccepted
  <1>1. CallsAreSound => StagedExtendsAccepted
    BY DEF CallsAreSound
  <1> QED
    BY <1>1, Soundness, PTL

(* The manifests created and the changes made fit in the budget of         *)
(* record_step (core.py 159-165).                                          *)
THEOREM BudgetBoundsWork == Spec => []WorkIsWithinBudget
  <1>1. CallsAreSound => WorkIsWithinBudget
    <2> SUFFICES ASSUME CallsAreSound PROVE WorkIsWithinBudget
      OBVIOUS
    <2>1. performed \in Nat /\ counter \in Nat /\ Work \in Nat /\ performed <= Work
      BY DEF CallsAreSound, TypeOK, RegistryTypeOK, HistoryTypeOK, Work
    <2> QED
      BY <2>1, HarnessAssumption
      DEF CallsAreSound, BudgetOK, WorkIsWithinBudget, ToolCost, SubmitCost
  <1> QED
    BY <1>1, Soundness, PTL

(* A version number an operator approved keeps the targets it stood for    *)
(* (manifest.py 268-283, approvals.py 55-72).                              *)
THEOREM VersionsKeepTheirScope == Spec => []ApprovalMeansScope
  <1>1. CallsAreSound => ApprovalMeansScope
    BY DEF CallsAreSound, BriefingOK, ApprovalMeansScope
  <1> QED
    BY <1>1, Soundness, PTL

(* No T3, T4 or T5 tool makes its change, and current never moves, but for *)
(* a manifest accepted then whose every invariant this call has seen hold  *)
(* (core.py 178-190).                                                      *)
THEOREM GatesHold == Spec => ChangesAreGated
  <1>1. ASSUME CallsAreSound, [Next]_vars
        PROVE  [(ChangeBy(GatedTools) \/ current' # current) =>
                   /\ IsAccepted(subject)
                   /\ manifests[subject].invariants \subseteq checked]_vars
    <2> SUFFICES ASSUME Next, ChangeBy(GatedTools) \/ current' # current
                 PROVE  /\ IsAccepted(subject)
                        /\ manifests[subject].invariants \subseteq checked
      BY <1>1
    <2> USE <1>1 DEF CallsAreSound, TypeOK
    <2>1. ASSUME phase \in {"tool", "cutover"} \cup ApprovalPhases, request.tool \in GatedTools
          PROVE  /\ IsAccepted(subject)
                 /\ manifests[subject].invariants \subseteq checked
      BY <2>1, InTool DEF ControlOK, GateOK
    <2>2. CASE ChangeBy(GatedTools)
      <3>1. Perform /\ phase \in {"tool", "cutover"} \cup ApprovalPhases
        BY <2>2, ChangeMoves DEF ChangeBy, Stage, FinishSwitch, Reload, Destroy, ApprovalPhases
      <3> QED
        BY <2>1, <2>2, <3>1 DEF ChangeBy, Perform
    <2>3. CASE current' # current
      <3>1. FinishSwitch
        BY <2>3, StateMoves
        DEF stateVars, linkVars, StartSwitch, SwitchRelease, BeginCutover, ContinueSwitch,
            CutoverContinues, UnlinkPrevious, LinkPrevious, StageLink, SwitchRaises,
            CutoverRaises, Interrupt, AbandonCutover, LeaveOff
      <3> QED
        BY <2>1, <3>1 DEF FinishSwitch, ControlOK, GatedTools
    <2> QED
      BY <2>2, <2>3
  <1> QED
    BY <1>1, Soundness, PTL DEF Spec, ChangesAreGated

(* A T5 tool acts only on a version and arguments that were approved, and  *)
(* in time, while this call sought approval; the invariant carries that    *)
(* from the look-up over the judgement to the act (tools.py 296-309,       *)
(* approvals.py 55-72 and 126-134).                                        *)
THEOREM DestructionNeedsApproval == Spec => DestructionIsApproved
  <1> DEFINE Sought == <<manifests[effect'.id].version,
                         IF effect'.tool = "t5_purge_old_backups" THEN effect'.argument
                                                                  ELSE NoArgument>>
                           \in sanctioned
  <1>1. ASSUME CallsAreSound, [Next]_vars
        PROVE  [ChangeBy(DestructiveTools) => Sought]_vars
    <2> SUFFICES ASSUME Next, ChangeBy(DestructiveTools) PROVE Sought
      BY <1>1
    <2> USE <1>1 DEF CallsAreSound, TypeOK
    <2>1. Perform /\ (Stage \/ FinishSwitch \/ Reload \/ Destroy)
      BY ChangeMoves DEF ChangeBy
    <2>2. effect' = [tool |-> request.tool, id |-> subject,
                     version |-> manifests[subject].version, argument |-> request.argument]
      BY <2>1 DEF Perform
    <2>3. request.tool \in DestructiveTools
      BY <2>2 DEF ChangeBy
    <2>4. phase = "act"
      BY <2>1, <2>3 DEF Stage, FinishSwitch, Reload, Destroy, ControlOK, StagingTools,
                        SwitchTools, AvailabilityTools, DestructiveTools
    <2> QED
      BY <2>2, <2>4 DEF SanctionOK, BoundArguments
  <1> QED
    BY <1>1, Soundness, PTL DEF Spec, DestructionIsApproved

(* The analysis sees of the targets only what is left of them stripped.    *)
LEMMA GapOfDeclared ==
    ASSUME NEW g, NEW S, NEW T, Declared(S) = Declared(T)
    PROVE  ImpactGap(g, S) <=> ImpactGap(g, T)
  BY DEF ImpactGap, Missing, Unparsable, AffectedFiles, StartNodes, Unmatched

(* A patch is staged for a file its manifest's analysis covers, as far as  *)
(* leading dots go (diff_guard.py 32-42, impact.py 93-140).                *)
THEOREM PatchesStayVetted == Spec => PatchesAreVetted
  <1> DEFINE patched == Canonical[effect'.argument]
             Vetted == ~ImpactGap(evidence[subject].graph,
                                  manifests[subject].targets \cup {patched})
  <1>1. ASSUME CallsAreSound, [Next]_vars
        PROVE  [ChangeBy({"t2_stage_config_patch"}) => Vetted]_vars
    <2> SUFFICES ASSUME Next, ChangeBy({"t2_stage_config_patch"})
                 PROVE  Vetted
      BY <1>1
    <2> USE <1>1 DEF CallsAreSound, TypeOK
    <2>1. Perform /\ (Stage \/ FinishSwitch \/ Reload \/ Destroy)
      BY ChangeMoves DEF ChangeBy
    <2>2. effect' = [tool |-> request.tool, id |-> subject,
                     version |-> manifests[subject].version, argument |-> request.argument]
      BY <2>1 DEF Perform
    <2>3. request.tool = "t2_stage_config_patch"
      BY <2>2 DEF ChangeBy
    <2>4. MayRun
      BY <2>1, <2>3 DEF Stage, FinishSwitch, Reload, Destroy, ControlOK, SwitchTools,
                        DestructiveTools, ApprovalPhases
    <2>5. IsDeclared(request.argument) /\ IsAccepted(subject)
      BY <2>3, <2>4 DEF MayRun, ReadOnlyTools
    <2>6. ~ImpactGap(evidence[subject].graph, manifests[subject].targets)
      BY <2>5 DEF AcceptedIsVerified, IsAccepted
    <2>7. patched = Canonical[request.argument]
      BY <2>2
    <2>8. Declared(manifests[subject].targets \cup {patched})
            = Declared(manifests[subject].targets)
      BY <2>5, <2>7 DEF IsDeclared, Declared
    <2> QED
      BY <2>6, <2>8, GapOfDeclared
  <1> QED
    BY <1>1, Soundness, PTL DEF Spec, PatchesAreVetted

-----------------------------------------------------------------------------
(* Calls are short.                                                        *)

(* Only finitely many invariants are ever asked for or still to do.        *)
AsksAreFinite ==
    /\ IsFiniteSet(todo)
    /\ \A i \in Ids : /\ IsFiniteSet(manifests[i].invariants)
                      /\ IsFiniteSet(staging[i].invariants)

LEMMA FiniteInit == Init => AsksAreFinite
  <1>1. IsFiniteSet(NoManifest.invariants)
    BY FS_EmptySet DEF NoManifest
  <1> QED
    BY <1>1, FS_EmptySet DEF Init, RegistryInit, AsksAreFinite

LEMMA FiniteFail ==
    ASSUME TypeOK, AsksAreFinite, Fail
    PROVE  AsksAreFinite'
  <1> USE DEF TypeOK, RegistryTypeOK, ControlOK
  <1>1. IsFiniteSet(todo')
    BY FS_EmptySet DEF Fail, Return
  <1>2. CASE op = "submit" /\ RejectManifest(subject)
    BY <1>1, <1>2 DEF RejectManifest, AsksAreFinite, ChangeManifest
  <1>3. CASE op = "amend" /\ RollbackAmendment(subject)
    <2>1. IsFiniteSet(NoManifest.invariants)
      BY FS_EmptySet DEF NoManifest
    <2>2. /\ manifests' = manifests
          /\ staging' = [staging EXCEPT ![subject] = NoManifest]
      BY <1>3 DEF RollbackAmendment
    <2> QED
      BY <1>1, <2>1, <2>2 DEF AsksAreFinite
  <1>4. CASE op = "execute" /\ UNCHANGED registryVars
    BY <1>1, <1>4 DEF registryVars, AsksAreFinite
  <1> QED
    BY <1>2, <1>3, <1>4 DEF Fail

LEMMA FiniteAccept ==
    ASSUME TypeOK, AsksAreFinite, Accept
    PROVE  AsksAreFinite'
  <1> USE DEF TypeOK, RegistryTypeOK, ControlOK
  <1>1. IsFiniteSet(todo')
    BY FS_EmptySet DEF Accept, Return
  <1>2. CASE op = "submit" /\ AcceptManifest(subject)
    BY <1>1, <1>2 DEF AcceptManifest, AsksAreFinite, ChangeManifest
  <1>3. CASE op = "amend" /\ CommitAmendment(subject)
    <2>1. [staging[subject] EXCEPT !.status = "ACCEPTED"].invariants
            = staging[subject].invariants
      BY <1>3 DEF ChangeManifest
    <2> QED
      BY <1>1, <1>3, <2>1, FS_EmptySet DEF CommitAmendment, AsksAreFinite, NoManifest
  <1> QED
    BY <1>2, <1>3 DEF Accept

LEMMA FiniteStep ==
    ASSUME TypeOK, AsksAreFinite, Next
    PROVE  AsksAreFinite'
  <1> USE DEF TypeOK, RegistryTypeOK
  <1>1. ASSUME NEW s \in Submissions, Submit(s)
        PROVE  AsksAreFinite'
    <2>1. IsFiniteSet(s.invariants)
      BY RequestsAreFinite
    <2>2. counter + 1 \in Ids
      BY <1>1, SubmitType
    <2> QED
      BY <1>1, <2>1, <2>2 DEF Submit, CreatePendingManifest, AsksAreFinite
  <1>2. ASSUME NEW a \in Amendments, Amend(a)
        PROVE  AsksAreFinite'
    <2>1. IsFiniteSet(a.invariants) /\ a.id \in Ids
      BY RequestsAreFinite, HarnessAssumption DEF Amendment
    <2>2. IsFiniteSet(manifests[a.id].invariants \cup a.invariants)
      BY <2>1, FS_Union DEF AsksAreFinite
    <2> QED
      BY <1>2, <2>1, <2>2 DEF Amend, StageAmendment, Candidate, AsksAreFinite
  <1>3. ASSUME NEW r \in Requests, Execute(r)
        PROVE  AsksAreFinite'
    <2>1. IsFiniteSet(todo')
      BY <1>3, FS_EmptySet DEF Execute, Gated, IsAccepted, AsksAreFinite
    <2> QED
      BY <1>3, <2>1 DEF Execute, registryVars, AsksAreFinite
  <1>4. CASE ImpactCovered
    <2>1. subject \in Ids
      BY <1>4 DEF ImpactCovered, ControlOK, CallTypeOK, Operations, ApprovalPhases
    <2> QED
      BY <1>4, <2>1 DEF ImpactCovered, Proposal, registryVars, AsksAreFinite
  <1>5. ASSUME NEW c \in Contracts, VerifyContract(c)
        PROVE  AsksAreFinite'
    BY <1>5, FS_RemoveElement DEF VerifyContract, registryVars, AsksAreFinite
  <1>6. CASE EnterTool \/ StartSwitch \/ SeekApproval \/ FetchApproval \/ Authorize
    BY <1>6 DEF EnterTool, StartSwitch, SeekApproval, FetchApproval, Authorize,
                registryVars, AsksAreFinite
  <1>7. CASE Return /\ UNCHANGED registryVars
    BY <1>7, FS_EmptySet DEF Return, registryVars, AsksAreFinite
  <1>8. CASE UNCHANGED <<registryVars, callVars>>
    BY <1>8 DEF registryVars, callVars, AsksAreFinite
  <1> QED
    BY <1>1, <1>2, <1>3, <1>4, <1>5, <1>6, <1>7, <1>8, FiniteFail, FiniteAccept, CallMoves

(* Each step of a call that does not end it is one of these.               *)
LEMMA StepsOfACall ==
    ASSUME op # "idle", op' # "idle", Next
    PROVE  \/ ImpactCovered
           \/ \E c \in Contracts : VerifyContract(c)
           \/ EnterTool \/ StartSwitch \/ ContinueSwitch
           \/ SeekApproval \/ FetchApproval \/ Authorize
           \/ UNCHANGED <<callVars, registryVars, stateVars>>
  <1>1. CASE Call
    BY <1>1 DEF Call, OverBudget, AssembleContext, SubmitRefused, Submit, AmendRefused, Amend,
                ExecuteRefused, Execute, MayCall
  <1>2. CASE Continue
    BY <1>2, FailReturns
    DEF Continue, ImpactMissed, ContractViolated, Accept, ToolRefused, Inspect, Stage,
        PatchRefused, FinishSwitch, SwitchRaises, Reload, Destroy, ApprovalMissing, Perform,
        Return
  <1>3. CASE Environment
    BY <1>3 DEF Environment, EditDisk, Tick, Revoke, Grant, Interrupt, Return
  <1> QED
    BY <1>1, <1>2, <1>3 DEF Next

(* A call ends within its invariants and six steps more: the measure is a  *)
(* number, every step of the call takes from it and nothing else adds.     *)
THEOREM CallsAreShort == Spec => CallsRunDown
  <1>1. ASSUME TypeOK, AsksAreFinite, op # "idle", op' # "idle", Next
        PROVE  StepsLeft' < StepsLeft \/ UNCHANGED <<callVars, registryVars, stateVars>>
    <2> USE <1>1 DEF TypeOK, ControlOK
    <2>1. CASE ImpactCovered
      <3>1. op \in {"submit", "amend"} /\ subject \in Ids
        BY <2>1 DEF ImpactCovered, CallTypeOK, Operations, ApprovalPhases
      <3>2. Cardinality(Proposal.invariants) \in Nat
        BY <3>1, FS_CardinalityType DEF Proposal, AsksAreFinite
      <3>3. StepsLeft = Cardinality(Proposal.invariants) + 2
        BY <2>1 DEF ImpactCovered, StepsLeft
      <3>4. StepsLeft' = Cardinality(Proposal.invariants) + 1
        BY <2>1, <3>1 DEF ImpactCovered, StepsLeft
      <3> QED
        BY <3>2, <3>3, <3>4
    <2>2. ASSUME NEW c \in Contracts, VerifyContract(c)
          PROVE  StepsLeft' < StepsLeft
      <3> DEFINE more == IF op = "execute" THEN 6 ELSE 1
      <3>1. StepsLeft = Cardinality(todo) + more /\ StepsLeft' = Cardinality(todo \ {c}) + more
        BY <2>2 DEF VerifyContract, StepsLeft
      <3>2. Cardinality(todo) \in Nat /\ Cardinality(todo \ {c}) = Cardinality(todo) - 1
        BY <2>2, FS_CardinalityType, FS_RemoveElement DEF VerifyContract, AsksAreFinite
      <3>3. more \in Nat
        OBVIOUS
      <3> QED
        BY <3>1, <3>2, <3>3
    <2>3. CASE EnterTool
      <3>1. StepsLeft = Cardinality(todo) + 6 /\ StepsLeft' = 5
        BY <2>3 DEF EnterTool, StepsLeft
      <3>2. Cardinality(todo) \in Nat
        BY FS_CardinalityType DEF AsksAreFinite
      <3> QED
        BY <3>1, <3>2
    <2>4. CASE StartSwitch
      <3>1. StepsLeft = 5
        BY <2>4 DEF StartSwitch, StepsLeft
      <3>2. StepsLeft' = CutoverStepsLeft[step']
        BY <2>4 DEF StartSwitch, StepsLeft
      <3>3. step' \in {"unlink", "relink", "stage"}
        BY <2>4 DEF StartSwitch, SwitchRelease, BeginCutover
      <3> QED
        BY <3>1, <3>2, <3>3 DEF CutoverStepsLeft
    <2>5. CASE ContinueSwitch
      <3>1. StepsLeft = CutoverStepsLeft[step] /\ StepsLeft' = CutoverStepsLeft[step']
        BY <2>5 DEF ContinueSwitch, callVars, StepsLeft
      <3>2. <<step, step'>> \in {<<"unlink", "relink">>, <<"relink", "stage">>,
                                 <<"stage", "swap">>}
        BY <2>5 DEF ContinueSwitch, CutoverContinues, UnlinkPrevious, LinkPrevious, StageLink
      <3> QED
        BY <3>1, <3>2 DEF CutoverStepsLeft
    <2>6. CASE SeekApproval \/ FetchApproval \/ Authorize
      BY <2>6 DEF SeekApproval, FetchApproval, Authorize, StepsLeft
    <2> QED
      BY <2>1, <2>2, <2>3, <2>4, <2>5, <2>6, StepsOfACall
  <1>2. TypeOK /\ AsksAreFinite /\ [Next]_vars =>
           [op # "idle" =>
               \/ op' = "idle"
               \/ StepsLeft' < StepsLeft
               \/ UNCHANGED <<callVars, registryVars, stateVars>>]_vars
    BY <1>1
  <1>3. TypeOK /\ AsksAreFinite /\ [Next]_vars => AsksAreFinite'
    <2>1. UNCHANGED vars /\ AsksAreFinite => AsksAreFinite'
      BY DEF vars, registryVars, callVars, AsksAreFinite
    <2> QED
      BY <2>1, FiniteStep
  <1> QED
    BY <1>2, <1>3, FiniteInit, TypeCorrect, PTL DEF Spec, CallsRunDown
=============================================================================
