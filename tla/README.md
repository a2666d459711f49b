# A verification of the deployment harness

TLA+ models of this repository's deployment system: the Python harness that
decides what an agent may change (`harness/`), the release links it switches
(`harness/state.py`), and the templates it guards (the deployment workflow, the
backup purge). TLC checks the models on small instances; TLAPS proves the
theorems at the end for every value of the constants. Paths below are relative
to the root of the repository.

## 1. The system

An agent never touches a server itself: it calls an `AgentToolGateway`. It
submits a *change manifest* (target files, invariants, rollback), which is
accepted only if it declares the whole blast radius of its targets and all its
invariants hold. It then asks for tools in tiers of danger: T0/T1 read, T2
stages, T3 switches releases, T4 reloads services, T5 destroys and also needs an
approval of the operator.

| part | state | operations | what makes it correct |
|---|---|---|---|
| registry, `manifest.py` | `_manifests`, `_staging_manifests`, `_counter` | create pending, accept, reject, stage, commit, roll back an amendment | decided once, only widened; a candidate extends what is accepted; nothing is orphaned |
| gateway, `core.py` | `graph`, `current_turns`, `consumed_tokens` | submit, amend, execute, assemble context | acceptance rests on a full verification; the gate is passed in each call; budgets bound the work |
| tools, `tools.py` | none of its own | T0..T5, each with preconditions | no tool acts past its preconditions |
| approvals, `approvals.py` | `_approvals` by (manifest, action) | grant, verify, revoke one, revoke all | approved and in time while the call asked for it, for this version and these arguments |
| state manager, `state.py` | links `current`, `previous`, `current.tmp_*`; checkpoints | cutover, rollback, checkpoint | `current` never taken away; always a way back |
| graph, `graph.py`, `impact.py` | the dependency graph | traverse, blast radius, verdict | a limited traversal misses nothing; a refusal leads on |
| discovery, `discovery.py` | none (rebuilds the graph) | one extractor per file type | what files share becomes one node |
| contracts, `contracts.py` | none (reads the disk, file by file) | one check per invariant | the answer is that of the files; fails closed on unknown names |
| deployment, `templates/cicd/deploy.yml` with `templates/supervisor/webapp.conf` | `releases/`, `current`, `previous`, the running service | upload, save, cut over, restart, check, roll back, prune | the live release stays on disk; a rollback undoes its own cutover |
| purge, `templates/scripts/clean_backups.sh` | the snapshots | count, delete the aged | keeps a minimum |

How they interact: the gateway refreshes the graph from the disk at the start of
a submission or amendment, asks the analyzer about that graph and the contracts
about the disk *as it is by then*, and writes the verdict to the registry.
`execute_plan_step` reads the registry, has the contracts verified again, and
calls a tool, which reads the registry again, then probes, approvals or
checkpoints; T3 runs the state manager's cutover.

The harness is one synchronous thread, so calls do not interleave with each
other. What is hard is what moves between two steps of one call: the repository
is edited, the operator grants, replaces or revokes, time passes, and an
exception that `except Exception` does not catch (KeyboardInterrupt) ends the
call where it stands. A single contract is such a call in small: it opens one file
after the other while they change. And a refused agent comes back with wider
targets to a repository that has moved on. In the state manager it is a crash between two system
calls; in the deployment a command that fails or a connection that drops, with
supervisor respawning the service from `current` at any time. `PROJECT.json`
lists each such hazard at its line with the properties that answer for it.

## 2. Modules

| module | models | extends |
|---|---|---|
| `Paths` | `canonicalize_path` as a function from spellings to files or a refusal; `Declared`, what `lstrip("./")` makes of targets | |
| `ImpactAnalyzer` | `traverse`, `compute_blast_radius`, `verify_manifest_impact` as operators on a graph | `Paths` |
| `ManifestRegistry` | class `ManifestRegistry` | `Paths` |
| `ApprovalService` | `TrustedApprovalService` and the clock | |
| `StateManager` | class `StateManager`, one action per system call of `atomic_cutover` | |
| `Harness` | `DeploymentHarness` behind `AgentToolGateway`, with the tools: the composition of all five | the five above |
| `HarnessProperties` | the properties of `Harness`, its inductive invariant | `Harness` |
| `ChangeControl` | abstract specification: what `get_manifest_status` promises | |
| `Discovery` | `InfrastructureScanner` on a repository that is edited | `ImpactAnalyzer` |
| `Resubmission` | an agent that follows the refusals of `ManifestIncompleteError` while the repository is edited | `Discovery` |
| `ContractEngine` | the contracts of `contracts.py` and the grepping probes of `tools.py` as operators: what each looks for, when it stops, how it judges | |
| `ContractScan` | one check reading the files one by one while they are written to | `ContractEngine` |
| `DeployPipeline` | the remote script of `deploy.yml`, and supervisor | |
| `Rollout` | abstract specification: what the pipeline promises whoever follows `current` | |
| `BackupPurge` | `clean_backups.sh` | |
| `MC*` | instances for TLC | |
| `*Proofs` | theorems | the module of that name |

**Harness.** A call is an opening action (`Submit`, `Amend`, `Execute`, their
`...Refused` forms, `OverBudget`) and the steps of `Continue`, with `op`,
`phase`, `subject`, `request` and `todo` as its program counter and locals:

- phase `impact`: `ImpactCovered` / `ImpactMissed`, on `graph`, the graph of the
  call's own refresh;
- phase `contracts`: `VerifyContract(c)` / `ContractViolated(c)`, each reading
  `disk` when its turn comes (in any order: the order of a list of names means
  nothing here); then `Accept`, or `EnterTool`;
- phase `tool`: `MayRun` is the conjunction of the tool's preconditions;
  `ToolRefused`, `Inspect`, `Stage`, `PatchRefused`, `Reload`, `StartSwitch`,
  `SeekApproval`;
- phase `cutover`: the state manager's own actions, to `FinishSwitch` or
  `SwitchRaises`;
- phases `approval`, `validity` and `act`, a T5 tool from its call of
  `verify_action_authorization` on: `FetchApproval` takes the record on file into
  `record`, `Authorize` has judged that record by the clock, the version and the
  arguments, `Destroy` acts; `ApprovalMissing` is a refusal at either of the first
  two. The operator and the clock move between them. Nothing is looked at twice, so
  what ends after the look-up comes too late, the clock's end excepted.

`Environment` holds `EditDisk`, `Tick`, `Grant`, `Revoke` and `Interrupt`; each
may happen between any two steps. `disk` is what discovery and contracts make of
the repository: a graph, the contracts that fail on it and the probes that
answer. `checked`, `evidence`, `briefed`, `sanctioned`, `effect`, `performed` are
history variables that no guard reads. `sanctioned` holds the version and arguments
of every record that was on file and in time at some instant from `SeekApproval` to
the look-up: what has been approved while this call asked, whichever record the
call then gets hold of.

**StateManager.** `BeginCutover`, `UnlinkPrevious`, `LinkPrevious`, `StageLink`,
`SwapCurrent` are `atomic_cutover` up to each change of the file system;
`CutoverRaises` is any of them raising (something in the way of a link). `tmp` is
the link the cutover in progress has staged, under a name made of the clock in
milliseconds; `stale` are the targets of links earlier cutovers staged and left.
They stay beside the new one, which never replaces them: if the clock shows a
leftover's time again, `os.symlink` raises, and `CutoverRaises` has that too.
`LeaveOff` is the end of a cutover that does not reach its swap.
`ExecuteRollback` is a cutover to `previous`. A cutover can be cut short in two
ways: `Crash` ends the process, and with it the checkpoints it kept in memory,
`BreakOff` leaves both alive. `current` and `previous` hold a release, or are
absent, a plain file or a directory. `Harness` uses the same actions, without
`ExecuteRollback` and `Crash`: the gateway has no call that reaches the first.
`Harness` declares the state manager's variables by the same names, so that
`StateSpec` itself is a property of it (`ImplementsStateManager`): `SwitchRelease`
under it is `StartSwitch`, `BreakOff` is `Interrupt`, and whatever else the
harness and its environment do leaves the links alone.

**Discovery.** The repository is what the extractors see in it: `blocks` (a file
opens an upstream, a program, a unit, or is a script), `lines` (an edge with the
file it stands in) and `unreadable` files. Every edit is followed by
`Discovered`, the whole scan, so `graph` is always that of the repository.
`LastOf` is the order of the scan: `add_node` keeps the last file of a node.
`Overlaps` and `NameEnds` are the string comparisons of `compute_blast_radius`,
and `Stripped` its `lstrip("./")`: `.env` and `env` are two files and one target.
The lines of `infra_manifest.yml` tie a node `external:...` that has no file to
any node they name, be it one whose identifier is a path; the file disappears
from the graph without a failure when it cannot be read.

**Resubmission.** `declared` are the targets the agent submits next. A submission
is let through (`LetThrough`), refused with the omitted files, which the agent
adds (`RefuseIncomplete`), or refused because a target cannot be parsed
(`RefuseUnparsed`), which tells it nothing to add. Edits of the repository fall
between any two submissions.

**ContractScan.** `check` goes through its patterns (`pass`), opens the files of
each in any order (`left`), fills its sets and flags (`facts`) and may answer
early (`Objects`, `Settles`); `Conclude` is the comparison after the last loop
(`Judge`). A file's content is the set of marks that the regular expressions tell
apart, or `Garbled`. `seen` (the reads it has made), `quiet` (nobody wrote to a
file it reads) and `before` (the files when the check began) are history
variables. `Holds` states each contract again, in terms of contents instead of
accumulated sets. `Harness` takes the whole of a check for one step,
`VerifyContract` or `ContractViolated`: by `QuietVerdict` that is right when
nobody writes to the files meanwhile, and otherwise the verdict is about the
contents that were read, which may never have stood on the disk together.

**DeployPipeline.** One action per command; `Abort` ends a deployment before any
of them (`set -e`, a lost connection); `Respawn` is supervisor starting the
service from `current`. `exported` is whether the environment of the host's shell
has a `RELEASES_DIR`: the workflow assigns it in its first remote script and uses it
in its second, so that is what decides between `Prune` and `PruneUnset`
(section 5). `Promise` maps the pipeline to `Rollout`: a release is `pending` up to
its cutover, and an undo is possible from there until the deployment is over.

**Definitions marked "Wrong:"** (`TraverseOnce`, `EnterToolEarly`, ...) are what
a definition would be with a plausible bug. No specification uses them; putting
one in place of the definition that follows it makes TLC violate the property
that `PROJECT.json` pairs it with, which shows that the property depends on that
piece of code.

## 3. What the runs check

| run | configuration | question |
|---|---|---|
| `lifecycle` | `HarnessLifecycle.cfg` | is everything accepted verified, extended and within budget, and is a failed or interrupted call invisible? |
| `switch` | `HarnessSwitch.cfg` | does every gated change pass the gate of its own call, does what was asked for go live, are the links in the state manager's hands alone, and does every call return? |
| `approval` | `HarnessApproval.cfg` | does a destructive tool act only on what was approved while it asked, and does an approval keep its meaning? |
| `contracts` | `ContractScan.cfg` | what does the verdict of a contract say of files that change while it reads them? |
| `state_manager` | `MCStateManager.cfg` | does `current` stay in place and, after it moves, is there a way back? |
| `discovery` | `Discovery.cfg` | is an accepted set of targets closed under what its files share, and does following the refusals lead to the least one? |
| `deploy_pipeline` | `DeployPipeline.cfg` | is the live release on disk, does a rollback undo its own cutover, and what does one who follows `current` see? |
| `amendment_approval`, `rollback_ready`, `discovery_ports`, `deploy_rollback`, `backup_retention` | one each | violated: see section 5 |

**The properties**, each stated above its definition:

- `AcceptedIsVerified`: an accepted version declares the blast radius of one
  graph of its own call, and all its invariants were seen to hold in that call.
- `StagedExtendsAccepted`: a candidate, also one an interrupt left in staging,
  is the next version of what is accepted now. `commit_amendment` does not look,
  so this is what makes it safe.
- `CallsLeaveNoOrphan`: a submission or amendment that returns by itself leaves
  nothing pending or staged. (An interrupted one does; the two properties above
  hold all the same.)
- `ImplementsChangeControl`: with `life <- manifests` and
  `changed <- <<effect.id, effect.version>>`, the harness implements
  `ChangeControl`: decided once, only widened, changed only in the name of the
  version accepted at that moment.
- `WorkIsWithinBudget`: the budget bounds the manifests and the changes, not
  only the calls.
- `ChangesAreGated`: no change of T3, T4 or T5, and no move of `current`, unless
  every invariant of the version then accepted was verified in that call. They
  are read one by one from a disk that moves, so not all at one instant.
- `ApprovalMeansScope`: while the version the operator saw stands, so do its
  targets.
- `DestructionIsApproved`: what a T5 tool does, for the version accepted when it
  acts and with the arguments it is given, was approved and in time at some instant
  between the call's asking and its look-up, whatever the operator grants, replaces
  or revokes before the tool acts. An approval that ended before the call asked
  never counts; a later revocation does not reach a call that has its record. The
  look-up, the judgement and the act are steps of their own.
- `PatchesAreVetted`: a file that is patched could have been declared in so many
  words and the manifest would still have been let through. The guard and the
  analyzer strip paths each in its own place; if they disagreed, a patch could
  reach a file whose ties nobody looked at. It does not say that the file *was*
  declared: `.env` is patched under a manifest for `env`, and `env` under one for
  `.env`, in this run (section 5).
- `ImplementsStateManager`: under the harness, interrupts and all, the links behave
  as the state manager alone would have them.
- `LiveIsAsAsked`: the release that goes live is the one the call in progress was
  given, although interrupted calls may have left staged links behind.
- `CallReturns`: every call ends. `CallsRunDown` is what makes it so and a safety
  property: each step of a call makes `StepsLeft` smaller, and nothing the
  environment does makes it larger.
- `RollbackTarget`, `NeverDark`, `SwitchIsRecoverable`: where a rollback leads;
  no step or crash removes `current` once it is a link to a release; `previous`
  names the old release before `current` leaves it. A release here is any path a
  switch was asked for: whether the directory exists is nothing the code looks at
  (`tools.py` 231-240), so a dangling link is outside of this.
- `AcceptedIsClosed`: a manifest that is let through declares every file that
  shares a node with one of its targets, although the traversal is cut off after
  three rounds. Excepted are blocks whose *name* several files open: `add_node`
  keeps only the last file of a node, so that the other file's path no longer
  selects it and the code gives no such guarantee. Excepted too are a file that a
  declared path hides (`Shadowed`) and the declared topology's own lines; the files
  demanded are demanded up to leading dots.
- `RoundsAreBounded`, `Converges`: every refusal for an omission names a file not
  yet declared, so there are fewer refusals than files; and once the repository
  rests, following them ends in acceptance, unless the agent has come to declare
  a file that cannot be parsed.
- `RefusalsDemandNoMore`: whatever a refusal names is declared by every set of
  targets that contains the refused one and would be let through. No call narrows a
  manifest, so a demand that could have been spared would stay.
- `VerdictIsOfWhatWasRead`: the answer of a contract is the contract's for exactly
  the contents it read, whatever the order, the writes in between and the point
  where it stopped. Unreadable files count for nothing, except in the syntax probe.
- `QuietVerdict`: if nobody wrote to a file it reads, that is the contract's answer
  for the repository.
- `EarlyAnswersAreFinal`: a check that returns early would have come to the same
  answer whatever the files it did not open contain.
- `OneEditIsAtomic`: when a single write falls into a check, the answer is the
  contract's for the repository before the write or after it. Excepted is a file
  that two patterns of the check match (`InOnePass`): `*.sh` (`contracts.py` 97)
  matches the health script too, which line 109 opens again, and a write between the
  two can give an answer that is right neither before nor after.
- `VerdictComes`: every check returns.
- `LiveReleasesExist`, `RollbackUndoesTheCutover`: the prune spares what is
  current or running, whatever was aborted before; a rollback returns to the
  release its own deployment displaced, and that release is on disk.
- `ImplementsRollout`: seen through `current`, each release is published at most
  once, newest last, and only the last can be taken back, once, before the next is
  prepared.
- `TypeOK`, `StateTypeOK`, `DiscoveryTypeOK`, `PipelineTypeOK`, `ScanTypeOK`: one
  type invariant per specification. `CallsAreSound` is the inductive invariant
  (section 4).

**Bounds**, and why they are enough:

- Harness: the nginx file (with two spellings), the start script, `.env` and `env`,
  and a spelling that is refused; the graphs tie the files by a socket or a port,
  leave them loose, or miss one that does not parse; a contract that
  fails on some disks and a name no engine knows. `MaxManifests` is 2 in
  `lifecycle`, so that two lives interleave, and 1 elsewhere, where the
  properties relate one manifest to its call. `MaxVersion` 2 or 3 admits one or
  two amendments, the second after an interrupted first. `MaxTurns` 2 to 4 is
  the shortest life that uses the tool of the run: submit, amend, act and one
  more. With `MaxTokens` 300 (`lifecycle`) the tokens run out before the turns,
  with 600 mostly the turns. `MaxTime` 1 with durations 0 and 1 has approvals at,
  before and after their expiry. `approval` keeps one disk (`OneDisk`) and two
  values of the destroy tool's argument: it is about who approved what and when,
  and reads nothing else of the disk. Calls are explored up to the first beyond
  `max_turns` (`MayCall`); nothing but the counters changes in later ones.
- State manager: three releases, the least for which "older than the displaced
  one" means something; every layout of `current` and `previous`.
- Deployment: seven deployments, two more than the five the prune keeps, so that
  it removes releases and the live one can be among the oldest.
- Purge: eight snapshots against a minimum of five.
- Discovery: the ties among the templates themselves (proxy, start script, socket,
  port, the environment file that sets it), an old copy of the script with the
  same name, a file `env` beside `.env`, and a declared balancer that routes to the
  upstream or names a path. Every repository made of these blocks and lines is
  reached and judged against every set of targets. `Fragile` bounds the files that
  may become unreadable to two, one that the scan reports and one that it passes
  over; every file takes the same two paths through the code. `Drafts` has the agent
  start from `.env`, whose refusals lead through port, script and socket to the
  proxy: the longest chain there is. The repository is followed until the first
  acceptance (`Edit`), after which nothing new can happen to that agent.
- Contracts: seven files, one or two of each kind a pattern matches, each with the
  few contents that the check at hand tells apart, unreadable ones included.
  `MaxEdits` 2 is the least for which a port can move on both sides while the check
  is between them.

`CHECK_DEADLOCK FALSE` stands where the bound stops the system: turns used up and
the clock at its end, all deployments made, all snapshots taken, a verdict given, a
submission let through. The state manager never stops and keeps the check.

**Fairness.** `FairSpec` assumes `WF_vars(Continue)`, a call in
progress takes its next step, and `ScanSpec` `WF_scanVars(ScanStep)`, a check that
has begun goes on reading. The harness is a single thread that waits for
nobody (no lock, no queue, no network), so it does. `ResubmissionSpec` assumes
`WF_resubmissionVars(Resubmit)`: the agent submits again as long as it is refused,
as `ManifestIncompleteError` tells it to; `Converges` is a statement about such an
agent. Nothing is assumed of the operator, the disk, the clock or those who edit
the repository.

## 4. What is proved

Every theorem holds for all values of the constants under the named
assumptions: any files, spellings, graphs, contracts, requests, any number of
manifests, any budget, any number of releases and deployments.

| module | theorems | invariant |
|---|---|---|
| `HarnessProofs` | `TypeCorrect` | `TypeOK`, inductive by itself: types, and where the program counter can be |
| `HarnessSafetyProofs` | `Soundness`, `AcceptanceIsVerified`, `CandidatesExtend`, `BudgetBoundsWork`, `VersionsKeepTheirScope`, `GatesHold`, `DestructionNeedsApproval`, `PatchesStayVetted`, `CallsAreShort` | `CallsAreSound` |
| `HarnessRefinementProofs` | `Refinement`, `NoOrphans`, `LinksAreTheManagers`, `RollbackLeadsBackFromCalls`, `CallsNeverGoDark`, `CallsAreRecoverable`, `SwitchesGoWhereAsked` | `CallsAreSound`, `LinksOK` |
| `StateManagerProofs` | `LinksTypeCorrect`, `RollbackLeadsBack`, `NeverWithoutRelease`, `SwitchesAreRecoverable` | `LinksOK` |
| `DeployPipelineProofs` | `PipelineTypeCorrect`, `LiveStaysOnDisk`, `RollbackIsOwn`, `PipelineRollsOut` | `PipelineOK` |
| `DiscoveryProofs` | `ScanIsWellFormed`, `DepthSuffices` | `ScanOK` |
| `ResubmissionProofs` | `RefusalsAreFew`, `DemandIsLeast` | `RoundsAreBounded` with the types of the agent's variables (`RoundsOK`) |
| `ContractScanProofs` | `ScanTypeCorrect`, `VerdictsAreOfReads`, `EarlyReturnsAreSound`, `QuietVerdictsAreTrue`, `OneEditIsSeenWhole` | `ScanInv`, for the last also `EditInv` |

**Assumptions**, all in the modules that declare the constants and evaluated by
TLC in the passing runs: `PathsAssumption` (a spelling denotes a file or is
refused; stripping twice is stripping once), `NoFileAssumption`, `RegistryAssumption`, `ApprovalAssumption`
(natural durations and versions), `PathAssumption` (a release is none of the
markers for other path contents), `HarnessAssumption` (the calls are well
typed: a T0/T1 tool names no manifest, a switch a release, a patch a path),
`RequestsAreFinite` (a request lists finitely many invariants),
`PipelineAssumption`, `DiscoveryAssumption`, `DraftsAssumption` (finitely many
files), `ContractAssumption` and `ScanAssumption`.

**The argument for the harness.** `AcceptedIsVerified` is not inductive: an
acceptance is right because of what the call checked some steps before.
`CallsAreSound` says so for each place a call can be:

- `RegistryOK`: identifiers are handed out in order, and the manifest a call
  works on is pending (submit) or has its candidate staged (amend);
- `VettingOK`: past the impact check the proposal covers its blast radius, and
  its invariants are each still to do or seen;
- `GateOK`: in a gated tool's call the same for the accepted version; once the
  tool is entered nothing is left to do;
- `BudgetOK`: the change a call may still make is already paid for;
- `BriefingOK`: the version the operator saw is an earlier one, or this one with
  these targets;
- `SanctionOK`: while a call seeks approval, what the record on file approves is
  among what was approved since it asked; so is the record in its hand, as long as
  its time runs; and once that is judged, the version and arguments it is about to
  act on;
- with `TypeOK`, `StagedExtendsAccepted` and `AcceptedIsVerified`.

The other theorems follow from it. The refinement maps each step to a step of
`ChangeControl` or to a stutter: `Submit` is `Propose`, `Accept` is `Decide` or
`Widen`, failing a submission is `Decide`, and `Perform` for a manifest is
`Change`.

**For the length of a call** `StepsLeft` counts what lies ahead: the verification of
each invariant still to do, then the tool, at most five more steps for a cutover.
It is a set's cardinality plus a constant, hence `RequestsAreFinite` and the
invariant `AsksAreFinite` that goes with it. This is the part of `CallReturns` that
needs no fairness: a call that keeps taking steps cannot take them for ever.

**For the links under the harness** `LinksAreTheManagers` maps each step of the
harness to one of the state manager or to a stutter. The state manager's theorems
then hold of the harness without a second proof (the three corollaries), and
`SwitchesGoWhereAsked` adds that during a cutover `target`, and once staged `tmp`,
is what the call asked for: the link that is moved is always the cutover's own, and
what earlier ones left (`stale`) is never read.

**For the links** `CutoverOK` says what each system call may rely on (the
staged link is in place when it is moved; `previous` is the old release by then).
**For the pipeline** `ScriptOK` says that from the cutover on the release being
deployed is the newest, hence never pruned (`PruneSparesLatest`). **For the
discovery** `ScanOK` says that the graph is that of the repository as it is; the
rest is a lemma on one round of the traversal. A target selects the node of its
own line, the first round reaches the other end, and the second every edge
there: two rounds are enough, one is not (`TraverseOnce`), the code walks three.

**For the patches**, `GapOfDeclared`: the verdict of the analyzer depends on the
stripped targets only, so adding a file of the same stripped name changes nothing.
**For the resubmissions** each refusal adds at least one stripped name, since the
missing names are stripped and none of them is declared; the number of names
declared is more than that of the refusals. That they demand no more than they must
is `SpreadIsMonotone`: wider targets select more start nodes, and each round of the
traversal keeps what the one before had, so the files affected by the refused
targets are among those affected by any wider set; the depth limit does not spoil
this, since both are cut off after the same number of rounds. **For the contracts** `ScanInv` says
that the facts are those of the reads, that what lies behind the scan has been
read, and that an answer is the judgement of the facts. Judging the facts is then
what the contract says of the reads (`JudgingIsHolding`, check by check), and
`EarlyAnswersStand` shows that what was not read any more could not have changed an
early answer: offences and evidence stay, and by the time a probe is compared the
ports it is compared with are complete. `AnswersOutlast` states it for any completion
of the reads; `QuietVerdict` and `OneEditIsAtomic` take the completion by the
repository as it is or was. For the latter `EditInv` says that every read shows the
repository before the one write or after it, and that a file in one pass only is
read once; the reads of the edited file then decide which of the two it is.

**For the pipeline and its promise** the mapping sends `CreateRelease`, `Cutover` and
`Relink` to `Prepare`, `Publish` and `Undo`, whatever ends a deployment to `Settle`,
and the rest to stutters. `Relink` needs that `previous` is what `current` was before
the cutover, which `ScriptOK` carries through every command.

**Only model-checked**: `CallReturns`, `Converges`, `VerdictComes` (liveness under fairness is beyond the
prover), and the violated properties, which are counterexamples.

## 5. Where the code and its documentation disagree

Each has a run in which TLC violates what the documentation says.

- `amendment_approval`: `README.md` 82 says an amendment "automatically revokes
  any previous Human-in-the-Loop authorization". The code compares version
  numbers at the moment of use and revokes nothing: an approval the operator
  granted in advance for version 2 survives the amendment that commits version 2.
  What does hold is `ApprovalMeansScope`.
- `rollback_ready`: `harness/tools.py` 275 says "rollback mechanism must be
  ready". It is considered ready once a checkpoint exists, and the first release
  switch on a fresh host takes one with nothing to roll back to.
- `discovery_ports`: `README.md` 81 says that changing "a shared backend port"
  while omitting a file that uses it is intercepted. A proxy's port becomes
  `endpoint:<address>`, a server's `port:<number>`; nothing joins the two. For
  sockets, which are one node, the promise holds (`AcceptedIsClosed`).
- `deploy_rollback`: `references/deployment/01_atomic_deployment.md` 68-72 gives
  the rollback the step "Verify previous health". A deployment whose restart
  fails leaves its unverified release current; the next one rolls back to it,
  without a check.
- `backup_retention`: `templates/scripts/clean_backups.sh` 3 says it purges
  "while retaining at least 5 backups". The count is compared before a deletion
  that goes by age alone.

Five more that no run is about, because the model shows what the code does and
no counterexample is needed to see it:

- `README.md` 86 says the change surface guard "Rejects mutations of files outside
  the declared manifest targets", and `harness/diff_guard.py` 34 calls it an "Exact
  canonical target authorization check". It compares what `lstrip("./")` leaves of
  both sides (32, 35), and `canonicalize_path` keeps the dot of `.env`
  (`harness/manifest.py` 63-75): under a manifest that declares `env` only, a patch
  of `.env` is accepted, and the other way round. `IsDeclared` does the same, and
  `lifecycle` has both patches. What does hold is `PatchesAreVetted`.
- `templates/cicd/deploy.yml` 106 says "Prune old releases (keep latest 5)". The
  next line uses `RELEASES_DIR`, which only the first of the two remote scripts
  assigns (36). The second runs under `set -u` (55), so on a host whose environment
  does not happen to provide the variable, a deployment that has just been verified
  ends there as a failed job, and no release is ever removed: `PruneUnset`. Links and
  service are then as they should be, and every property of the pipeline is checked
  and proved for both kinds of host.
- `harness/contracts.py` 29 says the engine "Fails closed". Each contract goes on
  past a file it cannot read (92, 106, 119 and so on), so an unreadable file can
  only make it hold; `ReadFacts` is empty for one. The syntax *probe*
  (`harness/tools.py` 63) refuses.
- The same file, line 5, describes `socket_permission_consistency` as "Socket path
  match + www-data group ownership"; it compares no paths
  (`backend_port_consistency` does), and line 7 `secret_reference_integrity` as "No
  orphaned secret tokens", while the references gathered in 223-232 are never used.
- Line 4 there has `backend_port_consistency` compare "Gunicorn == Supervisor ==
  Nginx Upstream == Healthcheck". Supervisor's files are skipped (81), and when one
  side names only a socket and the other only a port, no comparison is made (122,
  126): `Agree` holds as soon as one side is empty.

## 6. What is not modelled

- In `Harness` a disk carries the set of contracts that fail on it; how a verdict
  comes about is the business of `ContractScan`, and the two are not composed: with
  the files' contents in the state, the calls could not be explored.
- `execute_plan_step` dispatches by `getattr` (`harness/core.py` 193-197), so any
  attribute of `DeploymentTools` can be named; the requests of the model name its
  tools and one name that is none.
- The clock of the approvals does not go back.
- In the exchange of refusals and resubmissions the budget of `record_step`
  (`harness/core.py` 83) is left out: it ends the exchange, refused, wherever it
  stands. `Converges` is about an agent that may go on, and excepts the refusal of a
  file that cannot be parsed.
- In `ContractScan` a write replaces a file at once. A reader that catches a file
  half written sees what two writes would have shown it.
- The prune lists releases by the modification time of their directories (`ls -1dt`,
  `deploy.yml` 108), the model by their number (`NewestReleases`). Each deployment
  fills its own directory and no later one touches it, so the orders agree.
- The set of files does not change while a contract runs; a file that appears or
  disappears is one whose content changes from or to nothing the check looks for.
- The content checks of the change surface guard (`PatchRefused` may always
  happen) and the patterns of the policy engine (a payload is clean or not).
- String work: canonicalisation and stripping are given functions, the regular
  expressions of discovery and contracts a given set of lines or marks. A missing
  extractor pattern would show in the model as a smaller set.
- Of `infra_manifest.yml`, the attributes an external dependency may bring along
  (one called `file` would give its node a file).
- In the context builder, `node_file in norm` is true of every node without a file
  (`harness/context_builder.py` 100), so the neighbours it names are too many. The
  result only words the agent's context and changes no state.
- Secret masking, context routing, the simulated host, the evaluation and
  benchmark suites, CI and maintenance scripts: stateless, or straight-line
  commands. `PROJECT.json` lists every component with the reason.

## 7. Plan

Done, in this order: registry, approvals, impact analysis and harness with their
invariants and refinement; state manager; deployment and purge; discovery; paths
with the analyzer's own normalisation; resubmission; contracts. Then the proofs of
every property of a passing run that is not a liveness property, among them three
refinements (harness to `ChangeControl`, harness to state manager, pipeline to
`Rollout`).

What a next step could add: the order independence of the discovery's extractors;
the content checks of `ChangeSurfaceGuard` as an operator in place of
`PatchRefused`; `MockHost`, the order of firewall and SSH rule in the simulated
host, against what its tests assume; `canonicalize_path` on segments against a
reference resolution, in place of the given function.
