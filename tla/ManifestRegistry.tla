-------------------------- MODULE ManifestRegistry --------------------------
(***************************************************************************)
(* harness/manifest.py: the in-memory registry of change manifests, one    *)
(* operator per method.  The order of the calls is the harness's business  *)
(* (module Harness); the registry only refuses what its own guards refuse. *)
(***************************************************************************)
EXTENDS Naturals, Paths

CONSTANTS Contracts,     \* contract names, known to the engine or not
          MaxManifests,  \* bound on the manifests ever created
          MaxVersion     \* bound on the version a manifest is amended to

ASSUME RegistryAssumption == /\ MaxManifests \in Nat
                             /\ MaxVersion \in Nat \ {0}

VARIABLES manifests,  \* _manifests
          staging,    \* _amendment_staging
          counter     \* _counter

registryVars == <<manifests, staging, counter>>

Ids == 1..MaxManifests

\* DRAFT, REVOKED and EXPIRED are declared in the code and never assigned.
ManifestStatus == {"ABSENT", "PENDING_VALIDATION", "ACCEPTED", "AMENDING", "REJECTED"}

ChangeManifest == [version : Nat, targets : SUBSET Files,
                   invariants : SUBSET Contracts, status : ManifestStatus]

\* The value of an identifier that is in no dictionary.
NoManifest == [version |-> 0, targets |-> {}, invariants |-> {}, status |-> "ABSENT"]

RegistryInit == /\ manifests = [i \in Ids |-> NoManifest]
                /\ staging = [i \in Ids |-> NoManifest]
                /\ counter = 0

IsAccepted(i) == i \in Ids /\ manifests[i].status = "ACCEPTED"

-----------------------------------------------------------------------------
\* complete stands for the checks on intent, verification, rollback and the
\* justification of a full rewrite.
IsValidSubmission(paths, invs, complete) ==
    /\ complete
    /\ paths # {}
    /\ invs # {}
    /\ Illegal \notin CanonicalPaths(paths)

CreatePendingManifest(paths, invs) ==
    /\ counter < MaxManifests
    /\ counter' = counter + 1
    /\ manifests' = [manifests EXCEPT ![counter + 1] =
                        [version |-> 1, targets |-> CanonicalPaths(paths),
                         invariants |-> invs, status |-> "PENDING_VALIDATION"]]
    /\ UNCHANGED staging

AcceptManifest(i) ==
    /\ manifests[i].status = "PENDING_VALIDATION"
    /\ manifests' = [manifests EXCEPT ![i].status = "ACCEPTED"]
    /\ UNCHANGED <<staging, counter>>

RejectManifest(i) ==
    /\ manifests' = [manifests EXCEPT ![i].status = "REJECTED"]
    /\ UNCHANGED <<staging, counter>>

-----------------------------------------------------------------------------
\* reasoned: the amendment_reason has at least five characters.
IsStageable(i, paths, reasoned) ==
    /\ IsAccepted(i)
    /\ reasoned
    /\ Illegal \notin CanonicalPaths(paths)

\* Three ways of getting the candidate wrong: the paths as they were written,
\* the invariants replaced instead of extended, the version not advanced.
CandidateOfSpellings(i, paths, invs) ==
    [version    |-> manifests[i].version + 1,
     targets    |-> manifests[i].targets \cup paths,
     invariants |-> manifests[i].invariants \cup invs,
     status     |-> "AMENDING"]

CandidateReplacing(i, paths, invs) ==
    [version    |-> manifests[i].version + 1,
     targets    |-> manifests[i].targets \cup CanonicalPaths(paths),
     invariants |-> IF invs = {} THEN manifests[i].invariants ELSE invs,
     status     |-> "AMENDING"]

CandidateOfSameVersion(i, paths, invs) ==
    [version    |-> manifests[i].version,
     targets    |-> manifests[i].targets \cup CanonicalPaths(paths),
     invariants |-> manifests[i].invariants \cup invs,
     status     |-> "AMENDING"]

\* The candidate is a copy: the manifest it amends is not touched.
Candidate(i, paths, invs) ==
    [version    |-> manifests[i].version + 1,
     targets    |-> manifests[i].targets \cup CanonicalPaths(paths),
     invariants |-> manifests[i].invariants \cup invs,
     status     |-> "AMENDING"]

\* Wrong: the accepted manifest is edited where it lies.
StageInPlace(i, paths, invs) ==
    /\ manifests[i].version < MaxVersion
    /\ staging' = [staging EXCEPT ![i] = Candidate(i, paths, invs)]
    /\ manifests' = [manifests EXCEPT ![i].targets = Candidate(i, paths, invs).targets]
    /\ UNCHANGED counter

StageAmendment(i, paths, invs) ==
    /\ manifests[i].version < MaxVersion
    /\ staging' = [staging EXCEPT ![i] = Candidate(i, paths, invs)]
    /\ UNCHANGED <<manifests, counter>>

HasStagedAmendment(i) == staging[i] # NoManifest

CommitAmendment(i) ==
    /\ HasStagedAmendment(i)
    /\ manifests' = [manifests EXCEPT ![i] = [staging[i] EXCEPT !.status = "ACCEPTED"]]
    /\ staging' = [staging EXCEPT ![i] = NoManifest]
    /\ UNCHANGED counter

\* Wrong: the candidate is left in staging.
ForgetRollback(i) == UNCHANGED registryVars

RollbackAmendment(i) ==
    /\ staging' = [staging EXCEPT ![i] = NoManifest]
    /\ UNCHANGED <<manifests, counter>>
=============================================================================
