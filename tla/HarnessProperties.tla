------------------------- MODULE HarnessProperties --------------------------
(***************************************************************************)
(* What the harness of module Harness must never do, and what it must      *)
(* eventually do.                                                          *)
(***************************************************************************)
EXTENDS Harness

Evidence == [graph : Graph, checked : SUBSET Contracts]
Briefing == [version : Nat, targets : SUBSET Files]
Effect == [tool : Tools, id : Ids, version : Nat, argument : ToolArguments]

(***************************************************************************)
(* Every variable has its type, and a call is only where the code can be:  *)
(* a submission or an amendment has its manifest, a tool its request, and  *)
(* a tool past the manifest gate has an accepted manifest to its end.      *)
(***************************************************************************)
RegistryTypeOK == /\ manifests \in [Ids -> ChangeManifest]
                  /\ staging \in [Ids -> ChangeManifest]
                  /\ counter \in 0..MaxManifests

ApprovalTypeOK == /\ approvals \in [ApprovalKeys -> ApprovalRecord \cup {NoApproval}]
                  /\ now \in Nat

WorldTypeOK == /\ disk \in Disk
               /\ graph \in Graph
               /\ turns \in Nat
               /\ tokens \in Nat

CallTypeOK == /\ op \in Operations
              /\ phase \in Phases
              /\ subject \in Ids \cup {0}
              /\ request \in Requests \cup {NoRequest}
              /\ todo \subseteq Contracts
              /\ record \in ApprovalRecord \cup {NoApproval}
              /\ checked \subseteq Contracts

ControlOK == /\ op = "idle" <=> phase = "idle"
             /\ op \in {"submit", "amend"} => /\ phase \in {"impact", "contracts"}
                                             /\ subject \in Ids
             /\ op = "execute" => /\ phase \in {"contracts", "tool", "cutover"} \cup ApprovalPhases
                                  /\ request \in Requests
                                  /\ subject = request.id
             /\ op = "execute" /\ phase # "tool" => request.tool \in GatedTools
             /\ phase = "cutover" => request.tool \in SwitchTools
             /\ phase \in ApprovalPhases => request.tool \in DestructiveTools
             /\ op = "execute" /\ request.tool \in GatedTools => IsAccepted(subject)

HistoryTypeOK == /\ evidence \in [Ids -> Evidence]
                 /\ briefed \in [ApprovalKeys -> Briefing]
                 /\ sanctioned \subseteq Versions \X Arguments
                 /\ effect \in Effect \cup {NoEffect}
                 /\ performed \in Nat

TypeOK == /\ RegistryTypeOK
          /\ ApprovalTypeOK
          /\ StateTypeOK
          /\ WorldTypeOK
          /\ CallTypeOK
          /\ ControlOK
          /\ HistoryTypeOK

-----------------------------------------------------------------------------
(* The life of a manifest.                                                 *)

(***************************************************************************)
(* An accepted manifest, in the very version that is accepted, declares    *)
(* the whole blast radius of a graph discovered in the call that accepted  *)
(* it, and every one of its invariants was seen to hold in that call       *)
(* (core.py 98-114 and 140-156), whatever was edited or interrupted.       *)
(***************************************************************************)
AcceptedIsVerified ==
    \A i \in Ids : IsAccepted(i) =>
        /\ ~ImpactGap(evidence[i].graph, manifests[i].targets)
        /\ manifests[i].invariants \subseteq evidence[i].checked

(***************************************************************************)
(* A staged candidate, even one an interrupt left behind, is the next      *)
(* version of a manifest that is still accepted and drops none of its      *)
(* targets or invariants (manifest.py 240-284): amending again or          *)
(* executing meanwhile cannot make it outlive the version it extends.      *)
(***************************************************************************)
StagedExtendsAccepted ==
    \A i \in Ids : HasStagedAmendment(i) =>
        /\ IsAccepted(i)
        /\ staging[i].version = manifests[i].version + 1
        /\ manifests[i].targets \subseteq staging[i].targets
        /\ manifests[i].invariants \subseteq staging[i].invariants

(***************************************************************************)
(* A submission or an amendment that returns by itself, accepted or        *)
(* refused, leaves no candidate in staging and no manifest pending         *)
(* (core.py 109-111 and 151-153).                                          *)
(***************************************************************************)
CallsLeaveNoOrphan ==
    [][(op \in {"submit", "amend"} /\ Continue /\ op' = "idle") =>
            /\ staging'[subject] = NoManifest
            /\ manifests'[subject].status \in {"ACCEPTED", "REJECTED"}]_vars

Lifecycle == INSTANCE ChangeControl WITH Targets <- Files, Invariants <- Contracts,
                 life <- manifests, changed <- <<effect.id, effect.version>>

(***************************************************************************)
(* To a reader of get_manifest_status the harness behaves as ChangeControl *)
(* says: decided once, only ever widened, and only the accepted version is *)
(* acted upon.  A failed or interrupted amendment is invisible.            *)
(***************************************************************************)
ImplementsChangeControl == Lifecycle!Spec

(***************************************************************************)
(* The links behave as under the state manager alone: a call that skips a  *)
(* step of a cutover, takes it without its checkpoint or goes on with one  *)
(* that was interrupted breaks this, and with it what StateManager says of *)
(* the way back (tools.py 238-240, state.py 36-53).                        *)
(***************************************************************************)
ImplementsStateManager == StateSpec

(***************************************************************************)
(* The release that goes live is the one the call in progress was given,   *)
(* whatever links interrupted calls have left staged (state.py 50-52).     *)
(***************************************************************************)
LiveIsAsAsked ==
    [][current' # current =>
            request.tool \in SwitchTools /\ current' = request.argument]_vars

-----------------------------------------------------------------------------
(* What a tool may do.                                                     *)

ChangeBy(tools) == performed' # performed /\ effect'.tool \in tools

(***************************************************************************)
(* A T3, T4 or T5 tool makes its change, and current moves at all, only    *)
(* for a manifest accepted then, after every invariant of that version has *)
(* been seen to hold within the same call (core.py 178-190): what an       *)
(* earlier call verified does not count.                                   *)
(***************************************************************************)
ChangesAreGated ==
    [][(ChangeBy(GatedTools) \/ current' # current) =>
            /\ IsAccepted(subject)
            /\ manifests[subject].invariants \subseteq checked]_vars

(***************************************************************************)
(* A file is only patched in the name of a manifest that covers it: had    *)
(* that very file been declared as well, the impact analysis of the call   *)
(* that accepted the manifest would still have let it through.  It need    *)
(* not be declared: ChangeSurfaceGuard strips leading dots and slashes     *)
(* (diff_guard.py 32-36), so .env is patched under a manifest for env and  *)
(* env under one for .env.  That is harmless only as long as the analyzer, *)
(* calls earlier, strips the targets in the same way when it selects their *)
(* nodes and compares what they reach (impact.py 36-53 and 103-126).       *)
(***************************************************************************)
PatchesAreVetted ==
    [][ChangeBy({"t2_stage_config_patch"}) =>
            LET patched == Canonical[effect'.argument]
            IN  ~ImpactGap(evidence[subject].graph, manifests[subject].targets \cup {patched})
      ]_vars

(***************************************************************************)
(* The budget of record_step (core.py 159-165) bounds the work the harness *)
(* ever does, not just the calls it answers: manifests created and changes *)
(* made fit in the turns and, at their price, in the tokens.               *)
(***************************************************************************)
WorkIsWithinBudget ==
    /\ performed + counter <= MaxTurns
    /\ ToolCost * performed + SubmitCost * counter <= MaxTokens

(***************************************************************************)
(* An approval given for the version the registry then held means, as long *)
(* as that version stands, exactly the targets the operator could see: the *)
(* same version number never comes to stand for a wider scope.             *)
(***************************************************************************)
ApprovalMeansScope ==
    \A k \in ApprovalKeys :
        (/\ approvals[k] # NoApproval
         /\ approvals[k].version = briefed[k].version
         /\ approvals[k].version = manifests[k[1]].version)
        => briefed[k].targets = manifests[k[1]].targets

(***************************************************************************)
(* A T5 tool acts only under an approval that was on file and in time at   *)
(* some instant between this call's asking for one and its looking it up,  *)
(* given for the version that is accepted when the tool acts and for these *)
(* arguments, whatever is granted, replaced or revoked while the record is *)
(* looked up, judged and acted upon (tools.py 296-309, approvals.py        *)
(* 126-134).  What had ended before never counts; what ends after the      *)
(* record was looked up, other than by the clock, comes too late.          *)
(***************************************************************************)
DestructionIsApproved ==
    [][ChangeBy(DestructiveTools) =>
            <<manifests[effect'.id].version,
              IF effect'.tool = "t5_purge_old_backups" THEN effect'.argument ELSE NoArgument>>
                \in sanctioned]_vars

(***************************************************************************)
(* Every call ends: it is accepted, refused, done or interrupted, whatever *)
(* happens on disk while it runs.                                          *)
(***************************************************************************)
CallReturns == (op # "idle") ~> (op = "idle")

CutoverStepsLeft == [idle |-> 0, unlink |-> 4, relink |-> 3, stage |-> 2, swap |-> 1]

StepsLeft ==
    CASE phase = "idle"      -> 0
      [] phase = "impact"    -> Cardinality(Proposal.invariants) + 2
      [] phase = "contracts" -> Cardinality(todo) + (IF op = "execute" THEN 6 ELSE 1)
      [] phase = "tool"      -> 5
      [] phase = "cutover"   -> CutoverStepsLeft[step]
      [] phase = "approval"  -> 3
      [] phase = "validity"  -> 2
      [] phase = "act"       -> 1

(***************************************************************************)
(* Once begun, a call takes at most six steps beside one per invariant:    *)
(* each step that touches the call, the registry or the links brings its   *)
(* end nearer, and no edit, grant, revocation or tick meanwhile puts it    *)
(* off (core.py 68-205 has no loop but the one over the invariants).       *)
(***************************************************************************)
CallsRunDown ==
    [][op # "idle" =>
            \/ op' = "idle"
            \/ StepsLeft' < StepsLeft
            \/ UNCHANGED <<callVars, registryVars, stateVars>>]_vars

-----------------------------------------------------------------------------
(* Why it is so: what is true at each step of a call, of each part of the  *)
(* state the next steps will rely on.                                      *)

\* Identifiers are handed out in order, and each call works on a manifest in
\* the state the call left it in.
RegistryOK ==
    /\ \A i \in Ids : i > counter => manifests[i] = NoManifest /\ staging[i] = NoManifest
    /\ op = "submit" => manifests[subject].status = "PENDING_VALIDATION"
    /\ op = "amend" => HasStagedAmendment(subject)

\* Past the impact check the blast radius is declared, and the invariants
\* still unseen are those still to do.
VettingOK ==
    (op \in {"submit", "amend"} /\ phase = "contracts") =>
        /\ ~ImpactGap(graph, Proposal.targets)
        /\ Proposal.invariants \subseteq todo \cup checked

GateOK ==
    /\ phase \in {"tool", "cutover"} \cup ApprovalPhases => todo = {}
    /\ (op = "execute" /\ request.tool \in GatedTools) =>
          manifests[subject].invariants \subseteq todo \cup checked

\* The change a call in progress may still make is paid for already.
Work == IF op = "execute" THEN performed + 1 ELSE performed

BudgetOK ==
    /\ Work + counter <= turns
    /\ Work + counter <= MaxTurns
    /\ ToolCost * Work + SubmitCost * counter <= tokens
    /\ ToolCost * Work + SubmitCost * counter <= MaxTokens

\* What the operator saw is an earlier version, or this one.
BriefingOK ==
    \A k \in ApprovalKeys : approvals[k] # NoApproval =>
        /\ k[1] <= counter
        /\ briefed[k].version <= manifests[k[1]].version
        /\ briefed[k].version = manifests[k[1]].version =>
              briefed[k].targets = manifests[k[1]].targets

\* What the record on file or in hand approves was approved while the call sought
\* approval, if the clock has not run out on it; once it is judged, for good.
SanctionOK ==
    /\ phase = "approval" => Scopes({approvals[ApprovalKey]}) \subseteq sanctioned
    /\ phase = "validity" => record # NoApproval /\ Scopes({record}) \subseteq sanctioned
    /\ phase = "act" =>
          <<manifests[subject].version, BoundArguments(request)>> \in sanctioned

(***************************************************************************)
(* The inductive invariant: the accepted manifests are verified and the    *)
(* candidates extend them because, at every step of every call, what the   *)
(* call has checked so far still describes what it is about to accept or   *)
(* to act upon (core.py 68-205: nothing it reads twice can change between).*)
(***************************************************************************)
CallsAreSound ==
    /\ TypeOK
    /\ RegistryOK
    /\ VettingOK
    /\ GateOK
    /\ BudgetOK
    /\ BriefingOK
    /\ SanctionOK
    /\ StagedExtendsAccepted
    /\ AcceptedIsVerified

-----------------------------------------------------------------------------
(* What the documentation says and the code does not do.                   *)

(***************************************************************************)
(* README.md 82: an amendment "automatically revokes any previous          *)
(* Human-in-the-Loop authorization": none given before it authorizes       *)
(* anything on the amended manifest.                                       *)
(***************************************************************************)
AmendmentRevokesApprovals ==
    [][\A k \in ApprovalKeys :
            (/\ IsAccepted(k[1])
             /\ manifests'[k[1]].version > manifests[k[1]].version
             /\ approvals'[k] # NoApproval)
            => \/ approvals'[k].version # manifests'[k[1]].version
               \/ now' > approvals'[k].expires]_vars

(***************************************************************************)
(* tools.py 275, "rollback mechanism must be ready", and SKILL.md 33: a T4 *)
(* tool acts only where execute_rollback has a release to go back to,      *)
(* unless a cutover was cut short.                                         *)
(***************************************************************************)
RollbackMechanismIsReady ==
    [][(ChangeBy(AvailabilityTools) /\ ~torn) => previous \in Releases]_vars
=============================================================================
