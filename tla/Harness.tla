------------------------------- MODULE Harness ------------------------------
(***************************************************************************)
(* harness/core.py with the tools of harness/tools.py: the agent's calls   *)
(* through AgentToolGateway, one at a time, composed with the registry,    *)
(* the approval service, the impact analyzer and the state manager.        *)
(*                                                                         *)
(* A call is a sequence of steps.  Between any two of them the rest of the *)
(* world moves: someone edits the repository on disk, the operator grants  *)
(* or revokes, time passes, and the process may be interrupted (an         *)
(* exception that `except Exception` does not catch).                      *)
(***************************************************************************)
EXTENDS Naturals, FiniteSets, Paths, ImpactAnalyzer, ManifestRegistry, ApprovalService,
        StateManager

CONSTANTS KnownContracts,  \* the names verify_contract finds a method for
          Disks,           \* the states the repository may be in
          Submissions,     \* the agent's submit_manifest calls
          Amendments,      \* the agent's amend_manifest calls
          Requests,        \* the agent's execute_tool calls
          MaxTurns,        \* max_turns
          MaxTokens        \* max_tokens

Probes == {"nginx", "supervisor", "ssh"}

Disk == [graph : Graph, failing : SUBSET Contracts, probes : SUBSET Probes]

ReadOnlyTools == {"t0_calc_worker_sizing", "t1_inspect_service_status"}
StagingTools == {"t2_stage_release_directory", "t2_stage_config_patch"}
SwitchTools == {"t3_atomic_symlink_switch"}
AvailabilityTools == {"t4_reload_nginx", "t4_restart_supervisor"}
DestructiveTools == {"t5_purge_old_backups", "t5_firewall_lockdown"}
\* A name with a tier's prefix that is no method of DeploymentTools.
UnknownTools == {"t4_unrecognised"}

GatedTools == SwitchTools \cup AvailabilityTools \cup DestructiveTools \cup UnknownTools
Tools == ReadOnlyTools \cup StagingTools \cup GatedTools

ToolArguments == Arguments \cup Releases \cup PathNames

\* clean: no string argument trips the PolicyEngine.
Request == [tool : Tools, id : Ids \cup {0}, argument : ToolArguments, clean : BOOLEAN]

NoRequest == [tool |-> "none", id |-> 0, argument |-> NoArgument, clean |-> TRUE]

Submission == [paths : SUBSET PathNames, invariants : SUBSET Contracts, complete : BOOLEAN]
Amendment == [id : Ids, paths : SUBSET PathNames, invariants : SUBSET Contracts,
              reasoned : BOOLEAN]

ASSUME HarnessAssumption ==
    /\ KnownContracts \subseteq Contracts
    /\ Disks \subseteq Disk
    /\ Submissions \subseteq Submission
    /\ Amendments \subseteq Amendment
    /\ Requests \subseteq Request
    /\ \A r \in Requests : /\ r.tool \in ReadOnlyTools => r.id = 0
                           /\ r.tool \in SwitchTools => r.argument \in Releases
                           /\ r.tool = "t2_stage_config_patch" => r.argument \in PathNames
                           /\ r.tool \in DestructiveTools => r.argument \in Arguments
    /\ ApprovalIds = Ids
    /\ Actions = {"purge_backups", "firewall_lockdown"}
    /\ MaxTurns \in Nat
    /\ MaxTokens \in Nat

\* invariants_to_preserve and additional_invariants are lists.
ASSUME RequestsAreFinite == \A r \in Submissions \cup Amendments : IsFiniteSet(r.invariants)

VARIABLES disk,       \* the repository on disk
          graph,      \* self.graph, as of the last refresh
          turns,      \* current_turns
          tokens,     \* consumed_tokens
          op,         \* the gateway call in progress
          phase,      \* where it is
          subject,    \* the manifest it is about, 0 if none
          request,    \* the arguments of execute_tool
          todo,       \* invariants the call has still to verify
          record,     \* the approval the call has looked up and not yet acted upon
          checked,    \* history: invariants the call has seen to hold
          evidence,   \* history: what each manifest's acceptance rests on
          briefed,    \* history: the manifest the operator approved, when granting
          sanctioned, \* history: scopes approved while the call sought approval
          effect,     \* history: the last change made by a tool
          performed   \* history: how many changes tools have made

budgetVars == <<turns, tokens>>
callVars == <<op, phase, subject, request, todo, record, checked>>
lastingVars == <<evidence, briefed, effect, performed>>
historyVars == <<lastingVars, sanctioned>>
vars == <<registryVars, approvalVars, stateVars, disk, graph, budgetVars, callVars,
          historyVars>>

Operations == {"idle", "submit", "amend", "execute"}
ApprovalPhases == {"approval", "validity", "act"}
Phases == {"idle", "impact", "contracts", "tool", "cutover"} \cup ApprovalPhases

NoEffect == [tool |-> "none", id |-> 0, version |-> 0, argument |-> NoArgument]

Init ==
    /\ RegistryInit
    /\ ApprovalInit
    /\ StateInit
    /\ disk \in Disks
    /\ graph = disk.graph
    /\ turns = 0
    /\ tokens = 0
    /\ op = "idle"
    /\ phase = "idle"
    /\ subject = 0
    /\ request = NoRequest
    /\ todo = {}
    /\ record = NoApproval
    /\ checked = {}
    /\ evidence = [i \in Ids |-> [graph |-> graph, checked |-> {}]]
    /\ briefed = [k \in ApprovalKeys |-> [version |-> 0, targets |-> {}]]
    /\ sanctioned = {}
    /\ effect = NoEffect
    /\ performed = 0

-----------------------------------------------------------------------------
(* record_step, and the ends of a call.                                    *)

SubmitCost == 100
AmendCost == 50
ToolCost == 150

\* Both counters grow before either is looked at, in a refused call too.
Charge(cost) == /\ turns' = turns + 1
                /\ tokens' = tokens + cost

\* Wrong: the counters are looked at before they grow.
WithinBudgetSoFar(cost) == turns <= MaxTurns /\ tokens <= MaxTokens

WithinBudget(cost) == turns + 1 <= MaxTurns /\ tokens + cost <= MaxTokens

\* Bound: calls are explored up to the first one beyond max_turns.
MayCall == op = "idle" /\ turns <= MaxTurns

Return == /\ op' = "idle"
          /\ phase' = "idle"
          /\ subject' = 0
          /\ request' = NoRequest
          /\ todo' = {}
          /\ record' = NoApproval
          /\ checked' = {}
          /\ sanctioned' = {}

\* A call record_step refuses: nothing but the counters changes.
OverBudget ==
    /\ MayCall
    /\ \E cost \in {SubmitCost, AmendCost, ToolCost} :
          ~WithinBudget(cost) /\ Charge(cost)
    /\ UNCHANGED <<registryVars, approvalVars, stateVars, disk, graph, callVars, historyVars>>

-----------------------------------------------------------------------------
(* submit_change_manifest and amend_change_manifest, up to the checks.     *)

SubmitRefused(s) ==
    /\ MayCall
    /\ WithinBudget(SubmitCost) /\ Charge(SubmitCost)
    /\ graph' = disk.graph
    /\ ~IsValidSubmission(s.paths, s.invariants, s.complete)
    /\ UNCHANGED <<registryVars, approvalVars, stateVars, disk, callVars, historyVars>>

Submit(s) ==
    /\ MayCall
    /\ WithinBudget(SubmitCost) /\ Charge(SubmitCost)
    /\ graph' = disk.graph
    /\ IsValidSubmission(s.paths, s.invariants, s.complete)
    /\ CreatePendingManifest(s.paths, s.invariants)
    /\ op' = "submit"
    /\ phase' = "impact"
    /\ subject' = counter + 1
    /\ UNCHANGED <<approvalVars, stateVars, disk, request, todo, record, checked, historyVars>>

AmendRefused(a) ==
    /\ MayCall
    /\ WithinBudget(AmendCost) /\ Charge(AmendCost)
    /\ graph' = disk.graph
    /\ ~IsStageable(a.id, a.paths, a.reasoned)
    /\ UNCHANGED <<registryVars, approvalVars, stateVars, disk, callVars, historyVars>>

Amend(a) ==
    /\ MayCall
    /\ WithinBudget(AmendCost) /\ Charge(AmendCost)
    /\ graph' = disk.graph
    /\ IsStageable(a.id, a.paths, a.reasoned)
    /\ StageAmendment(a.id, a.paths, a.invariants)
    /\ op' = "amend"
    /\ phase' = "impact"
    /\ subject' = a.id
    /\ UNCHANGED <<approvalVars, stateVars, disk, request, todo, record, checked, historyVars>>

\* assemble_agent_context refreshes the graph; it is not charged.
AssembleContext ==
    /\ op = "idle"
    /\ graph' = disk.graph
    /\ UNCHANGED <<registryVars, approvalVars, stateVars, disk, budgetVars, callVars,
                   historyVars>>

-----------------------------------------------------------------------------
(* The checks.  The impact is computed on the graph of the last refresh;   *)
(* a contract reads the files when its turn comes.                         *)

\* Wrong: an amendment is judged by the version it amends.
StandingManifest == manifests[subject]

\* What the call is validating: the new manifest or the staged candidate.
Proposal == IF op = "amend" THEN staging[subject] ELSE manifests[subject]

ContractHolds(c) == c \in KnownContracts /\ c \notin disk.failing

\* What the except clauses, or a raising tool, leave behind.
Fail ==
    /\ \/ op = "submit" /\ RejectManifest(subject)
       \/ op = "amend" /\ RollbackAmendment(subject)
       \/ op = "execute" /\ UNCHANGED registryVars
    /\ Return

\* Wrong: an amendment has only the old invariants verified.
ImpactCoveredByOld ==
    /\ phase = "impact"
    /\ ~ImpactGap(graph, Proposal.targets)
    /\ phase' = "contracts"
    /\ todo' = manifests[subject].invariants
    /\ UNCHANGED <<registryVars, approvalVars, stateVars, disk, graph, budgetVars, op,
                   subject, request, record, checked, historyVars>>

ImpactCovered ==
    /\ phase = "impact"
    /\ ~ImpactGap(graph, Proposal.targets)
    /\ phase' = "contracts"
    /\ todo' = Proposal.invariants
    /\ UNCHANGED <<registryVars, approvalVars, stateVars, disk, graph, budgetVars, op,
                   subject, request, record, checked, historyVars>>

ImpactMissed ==
    /\ phase = "impact"
    /\ ImpactGap(graph, Proposal.targets)
    /\ Fail
    /\ UNCHANGED <<approvalVars, stateVars, disk, graph, budgetVars, lastingVars>>

\* Wrong: what has been verified is not taken off the list.
VerifyContractAgain(c) ==
    /\ phase = "contracts"
    /\ c \in todo
    /\ ContractHolds(c)
    /\ checked' = checked \cup {c}
    /\ UNCHANGED <<registryVars, approvalVars, stateVars, disk, graph, budgetVars, op,
                   phase, subject, request, todo, record, historyVars>>

VerifyContract(c) ==
    /\ phase = "contracts"
    /\ c \in todo
    /\ ContractHolds(c)
    /\ todo' = todo \ {c}
    /\ checked' = checked \cup {c}
    /\ UNCHANGED <<registryVars, approvalVars, stateVars, disk, graph, budgetVars, op,
                   phase, subject, request, record, historyVars>>

\* Wrong: a violated contract is tried again until it holds.
RetryContract(c) ==
    /\ phase = "contracts"
    /\ c \in todo
    /\ ~ContractHolds(c)
    /\ UNCHANGED vars

ContractViolated(c) ==
    /\ phase = "contracts"
    /\ c \in todo
    /\ ~ContractHolds(c)
    /\ Fail
    /\ UNCHANGED <<approvalVars, stateVars, disk, graph, budgetVars, lastingVars>>

\* Every check has passed: accept the manifest, or commit its amendment.
Accept ==
    /\ phase = "contracts"
    /\ todo = {}
    /\ \/ op = "submit" /\ AcceptManifest(subject)
       \/ op = "amend" /\ CommitAmendment(subject)
    /\ evidence' = [evidence EXCEPT ![subject] = [graph |-> graph, checked |-> checked]]
    /\ Return
    /\ UNCHANGED <<approvalVars, stateVars, disk, graph, budgetVars, briefed, effect,
                   performed>>

-----------------------------------------------------------------------------
(* execute_plan_step.                                                      *)

\* The policy engine or the manifest gate raises.
Gated(r) == r.tool \in GatedTools => IsAccepted(r.id)

ExecuteRefused(r) ==
    /\ MayCall
    /\ WithinBudget(ToolCost) /\ Charge(ToolCost)
    /\ ~(r.clean /\ Gated(r))
    /\ UNCHANGED <<registryVars, approvalVars, stateVars, disk, graph, callVars, historyVars>>

\* A gated tool has every invariant of its manifest verified first.
Execute(r) ==
    /\ MayCall
    /\ WithinBudget(ToolCost) /\ Charge(ToolCost)
    /\ r.clean /\ Gated(r)
    /\ op' = "execute"
    /\ subject' = r.id
    /\ request' = r
    /\ IF r.tool \in GatedTools
       THEN phase' = "contracts" /\ todo' = manifests[r.id].invariants
       ELSE phase' = "tool" /\ todo' = {}
    /\ UNCHANGED <<registryVars, approvalVars, stateVars, disk, graph, record, checked,
                   historyVars>>

\* Wrong: the tool starts with invariants still unverified.
EnterToolEarly ==
    /\ op = "execute"
    /\ phase = "contracts"
    /\ phase' = "tool"
    /\ UNCHANGED <<registryVars, approvalVars, stateVars, disk, graph, budgetVars, op,
                   subject, request, todo, record, checked, historyVars>>

EnterTool ==
    /\ op = "execute"
    /\ phase = "contracts"
    /\ todo = {}
    /\ phase' = "tool"
    /\ UNCHANGED <<registryVars, approvalVars, stateVars, disk, graph, budgetVars, op,
                   subject, request, todo, record, checked, historyVars>>

-----------------------------------------------------------------------------
(* The tools.  Each reads the manifest again, then its own preconditions.  *)

\* Wrong: any legal path may be patched.
IsLegalPath(path) == Canonical[path] \in Files

\* The change surface guard strips the canonical path once more.
IsDeclared(path) == /\ Canonical[path] \in Files
                    /\ Stripped[Canonical[path]] \in Declared(manifests[subject].targets)

MayRun ==
    LET t == request.tool
    IN  /\ t \notin UnknownTools
        /\ t \notin ReadOnlyTools => IsAccepted(subject)
        /\ t = "t2_stage_config_patch" => IsDeclared(request.argument)
        /\ t = "t4_reload_nginx" => "nginx" \in disk.probes
        /\ t = "t4_restart_supervisor" => "supervisor" \in disk.probes
        /\ t \in AvailabilityTools => RollbackReady
        /\ t = "t5_firewall_lockdown" => "ssh" \in disk.probes

ToolRefused ==
    /\ phase = "tool"
    /\ ~MayRun
    /\ Fail
    /\ UNCHANGED <<approvalVars, stateVars, disk, graph, budgetVars, lastingVars>>

\* The tool has made its change and the call returns.
Perform ==
    /\ effect' = [tool |-> request.tool, id |-> subject,
                  version |-> manifests[subject].version, argument |-> request.argument]
    /\ performed' = performed + 1
    /\ Return
    /\ UNCHANGED <<registryVars, evidence, briefed>>

Inspect ==
    /\ phase = "tool"
    /\ MayRun
    /\ request.tool \in ReadOnlyTools
    /\ Return
    /\ UNCHANGED <<registryVars, approvalVars, stateVars, disk, graph, budgetVars,
                   lastingVars>>

\* The staged change is returned, not written.
Stage ==
    /\ phase = "tool"
    /\ MayRun
    /\ request.tool \in StagingTools
    /\ Perform
    /\ UNCHANGED <<approvalVars, stateVars, disk, graph, budgetVars>>

\* ChangeSurfaceGuard refuses the content of a patch of a declared file.
PatchRefused ==
    /\ phase = "tool"
    /\ MayRun
    /\ request.tool = "t2_stage_config_patch"
    /\ Fail
    /\ UNCHANGED <<approvalVars, stateVars, disk, graph, budgetVars, lastingVars>>

\* Wrong: the checkpoint is left to the end of the cutover.
StartSwitchUnsaved ==
    /\ phase = "tool"
    /\ MayRun
    /\ request.tool \in SwitchTools
    /\ BeginCutover(request.argument)
    /\ phase' = "cutover"
    /\ UNCHANGED <<registryVars, approvalVars, checkpoints, disk, graph, budgetVars, op,
                   subject, request, todo, record, checked, historyVars>>

StartSwitch ==
    /\ phase = "tool"
    /\ MayRun
    /\ request.tool \in SwitchTools
    /\ SwitchRelease(request.argument)
    /\ phase' = "cutover"
    /\ UNCHANGED <<registryVars, approvalVars, disk, graph, budgetVars, op, subject, request,
                   todo, record, checked, historyVars>>

ContinueSwitch ==
    /\ phase = "cutover"
    /\ CutoverContinues
    /\ UNCHANGED <<registryVars, approvalVars, checkpoints, disk, graph, budgetVars, callVars,
                   historyVars>>

FinishSwitch ==
    /\ phase = "cutover"
    /\ SwapCurrent
    /\ Perform
    /\ UNCHANGED <<approvalVars, checkpoints, disk, graph, budgetVars>>

SwitchRaises ==
    /\ phase = "cutover"
    /\ CutoverRaises
    /\ Fail
    /\ UNCHANGED <<approvalVars, checkpoints, disk, graph, budgetVars, lastingVars>>

Reload ==
    /\ phase = "tool"
    /\ MayRun
    /\ request.tool \in AvailabilityTools
    /\ Perform
    /\ UNCHANGED <<approvalVars, stateVars, disk, graph, budgetVars>>

\* The action an approval is filed under, and the arguments it is bound to.
ActionOf(t) == IF t = "t5_purge_old_backups" THEN "purge_backups" ELSE "firewall_lockdown"

BoundArguments(r) == IF r.tool = "t5_purge_old_backups" THEN r.argument ELSE NoArgument

ApprovalKey == <<subject, ActionOf(request.tool)>>

\* The version and arguments of each of these records that is in force now.
Scopes(records) ==
    {<<a.version, a.arguments>> : a \in {b \in records : b # NoApproval /\ now <= b.expires}}

\* The tool turns to verify_action_authorization.
SeekApproval ==
    /\ phase = "tool"
    /\ MayRun
    /\ request.tool \in DestructiveTools
    /\ phase' = "approval"
    /\ sanctioned' = Scopes({approvals[ApprovalKey]})
    /\ UNCHANGED <<registryVars, approvalVars, stateVars, disk, graph, budgetVars, op, subject,
                   request, todo, record, checked, lastingVars>>

\* It takes the record on file, which is the one it judges from then on.
FetchApproval ==
    /\ phase = "approval"
    /\ approvals[ApprovalKey] # NoApproval
    /\ record' = approvals[ApprovalKey]
    /\ phase' = "validity"
    /\ UNCHANGED <<registryVars, approvalVars, stateVars, disk, graph, budgetVars, op, subject,
                   request, todo, checked, historyVars>>

IsApproved == IsValid(record, manifests[subject].version, BoundArguments(request))

\* is_valid has looked at the clock, the version and the arguments.
Authorize ==
    /\ phase = "validity"
    /\ IsApproved
    /\ phase' = "act"
    /\ UNCHANGED <<registryVars, approvalVars, stateVars, disk, graph, budgetVars, op, subject,
                   request, todo, record, checked, historyVars>>

ApprovalMissing ==
    /\ \/ phase = "approval" /\ approvals[ApprovalKey] = NoApproval
       \/ phase = "validity" /\ ~IsApproved
    /\ Fail
    /\ UNCHANGED <<approvalVars, stateVars, disk, graph, budgetVars, lastingVars>>

\* Nothing is looked at again: a revocation by now comes too late.
Destroy ==
    /\ phase = "act"
    /\ Perform
    /\ UNCHANGED <<approvalVars, stateVars, disk, graph, budgetVars>>

-----------------------------------------------------------------------------
(* The world around the call.                                              *)

EditDisk ==
    /\ \E d \in Disks : disk' = d
    /\ UNCHANGED <<registryVars, approvalVars, stateVars, graph, budgetVars, callVars,
                   historyVars>>

Tick ==
    /\ ClockTick
    /\ UNCHANGED <<registryVars, stateVars, disk, graph, budgetVars, callVars, historyVars>>

\* What has been in force while the tool seeks, with what is granted now.
SanctionedWith(k, granted) ==
    IF phase = "approval" /\ k = ApprovalKey
    THEN sanctioned \cup Scopes({granted})
    ELSE sanctioned

\* The operator names any version; nothing compares it with the registry's.
Grant(k, version, arguments, duration) ==
    /\ k[1] <= counter
    /\ GrantApproval(k, version, arguments, duration)
    /\ briefed' = [briefed EXCEPT ![k] = [version |-> manifests[k[1]].version,
                                          targets |-> manifests[k[1]].targets]]
    /\ sanctioned' = SanctionedWith(k, approvals'[k])
    /\ UNCHANGED <<registryVars, stateVars, disk, graph, budgetVars, callVars, evidence,
                   effect, performed>>

Revoke(k) ==
    /\ RevokeApproval(k) \/ RevokeAllApprovals(k[1])
    /\ UNCHANGED <<registryVars, stateVars, disk, graph, budgetVars, callVars, historyVars>>

\* KeyboardInterrupt and the like: the call ends where it is.
Interrupt ==
    /\ op # "idle"
    /\ Return
    /\ IF step = "idle" THEN UNCHANGED linkVars ELSE AbandonCutover
    /\ UNCHANGED <<registryVars, approvalVars, checkpoints, disk, graph, budgetVars,
                   lastingVars>>

Call ==
    \/ OverBudget
    \/ AssembleContext
    \/ \E s \in Submissions : SubmitRefused(s) \/ Submit(s)
    \/ \E a \in Amendments : AmendRefused(a) \/ Amend(a)
    \/ \E r \in Requests : ExecuteRefused(r) \/ Execute(r)

Continue ==
    \/ ImpactCovered \/ ImpactMissed
    \/ \E c \in Contracts : VerifyContract(c) \/ ContractViolated(c)
    \/ Accept
    \/ EnterTool \/ ToolRefused \/ Inspect \/ Stage \/ PatchRefused
    \/ StartSwitch \/ ContinueSwitch \/ FinishSwitch \/ SwitchRaises
    \/ Reload
    \/ SeekApproval \/ FetchApproval \/ Authorize \/ ApprovalMissing \/ Destroy

Environment ==
    \/ EditDisk
    \/ Tick
    \/ \E k \in ApprovalKeys :
          \/ Revoke(k)
          \/ \E v \in Versions, a \in Arguments, d \in Durations : Grant(k, v, a, d)
    \/ Interrupt

Next == Call \/ Continue \/ Environment

Spec == Init /\ [][Next]_vars

\* A call in progress runs on: the harness is one thread that waits for nobody.
FairSpec == Spec /\ WF_vars(Continue)
=============================================================================
