# Wren in TLA+

A verification project for Wren, which runs coding agents as Kubernetes pods:
a user submits a run, a control plane stores it and creates an `AgentRun`
object, an operator drives one agent pod after another on a persistent
workspace, sidecars checkpoint the workspace, and the result is a branch and a
pull request. The models follow the Go source; the comments in the modules name
the functions, `PROJECT.json` gives the lines of every definition.

## 1. Inventory

| Part | State it keeps | Operations | Hard because |
|---|---|---|---|
| `internal/controller` (operator) | `AgentRun` status, annotations, pods, PVC, RunSpec ConfigMap | `Reconcile`: admit, cancel, pause, resume, prerequisites, pod creation and observation, retry | every pass is several API writes; users, kubelet and crashes come in between; reads come from caches |
| `internal/coreapi` | none of its own | `CreateRun`, outbox worker, `GetRun`, `ReconcileFromCluster`, `DeleteRun`, `StopRun`, `PauseRun`, `ResumeRun`, event ingest | read-then-write without a common transaction; several replicas |
| `internal/store` | runs, run events, outbox operations, projects (Postgres or memory) | leased claims, complete, retry, fail, upserts, event inserts and pages | leases run out under slow workers; ids are given out before rows are visible |
| `internal/launcher` | none | create, delete, annotate an `AgentRun`; logs | answers get lost, creation is replayed |
| `internal/podruntime` | the workspace, pod-local files | hydrate, harness, checkpointer, gateway, egress proxy, lockdown | the pod may end anywhere in it |
| `internal/blob` | archives and manifests in a bucket mount | publish, verify, prune, load | no atomic file writes, several writers |
| `podruntime/gateway.go` | its position in the event file | read, post, retry until accepted | answers get lost, a restart replays everything |
| `internal/finalize`, `gitwork`, `github` | local and remote branch, pull request | commit, push, open or reuse a PR | retried by other pods after lost answers; agents and people change the same branches |
| `internal/install` | namespaces, Deployments, Secrets, images, the cluster itself | `install`, `uninstall` | a sequence of calls that may stop anywhere and is repeated with other options while pods start |
| `internal/egress` | credentials | allow list, credential injection | a decision table |
| `internal/harness` | none | start an agent CLI, translate its output | external programs |
| `apiserver`, `client`, `cli`, `desktop`, `config` | none | HTTP, user interface | input and output only |

How they meet: the clients call the HTTP API, which calls `coreapi`. `CreateRun`
writes the run, an outbox operation and a journal event in one transaction; an
outbox worker claims the operation and creates the `AgentRun` through the
launcher. The operator watches `AgentRun`, pods and PVCs and writes status;
`coreapi` mirrors that status back into the store when it reads. Pause, resume
and cancel travel as annotations on the object. Inside the pod, hydrate prepares
the workspace, the harness works, the checkpointer publishes to the bucket, and
the operator reaches the containers through `pods/exec`. The harness writes its
events to a file that the gateway sidecar delivers to the journal through the
HTTP API. When the agent is done the harness container commits, pushes and opens
the pull request. `wren install` puts all of this into a cluster, with the token
that the gateways and the API server share.

What makes the parts correct: at most one agent per workspace; a phase that is
true of the pods; bounded retries, charged for losses only; attempts that only
advance; no work lost over a pause or a lost disk; a submission that gets exactly
one answer; a checkpoint that can be restored once it was reported; a journal that
holds every event once and in order; a reported pull request that contains the
run's work, that of earlier pods included; an installation that is what the last
command asked for. The hazards behind these are listed, line by
line, in `PROJECT.json`.

## 2. Modules

| Module | Models | Checked by |
|---|---|---|
| `AgentRunOperator` | one run, its pods, PVC, ConfigMap, the operator, the annotations set by users, hydrate, harness and checkpointer as far as they move the workspace | `MCAgentRunOperator`, `AgentRunOperatorProofs`, `AgentRunSafetyProofs`, `AgentRunPauseProofs` |
| `AgentRunLifecycle` | abstract: how a run's status moves, as its readers see it | (refined by `AgentRunOperator`) |
| `LaunchRequest` | abstract: what submitting a run promises | (refined by `LaunchOutbox`) |
| `LaunchOutbox` | `CreateRun`, outbox workers, launcher, status mirrors, `DeleteRun` over the Postgres store | `LaunchOutboxProofs` |
| `CheckpointStore` | publishers, retention and restore on a mounted bucket | `MCCheckpointStore`, `CheckpointStoreProofs` |
| `EventJournal` | event file, gateway, ingest handlers, the journals of both stores, a reader with a cursor | `EventJournalProofs` |
| `Delivery` | finalize over several pods, the agent's use of git, GitHub and the people on it | `DeliveryProofs` |
| `Installer` | install and uninstall commands, the cluster's Deployments, Secrets and namespaces | `MCInstaller`, `InstallerProofs` |

### AgentRunOperator and AgentRunLifecycle

`run` is the object on the API server (phase, reason of the Ready condition,
attempt, restarts, recorded pod, last checkpoint, annotations, true conditions).
`pods[g]` is the pod of attempt generation `g`, the pod name of the code.
`rec` is the reconcile in flight: its step, its in-memory copy of the run, and
whether the copy still carries the current resourceVersion. **Each API-server
write is one step**; `Persist` is an update under optimistic concurrency, which
ends the pass on a conflict. `handleRequestedTransition` is
`RequestedTransition`; the other actions bear the names of the functions they
come from. `Crash` abandons a pass anywhere, which also stands for any failed
API call.

With `StaleReads` the operator reads from `cache`, one copy per kind of object,
each brought up to date by an action of its own, as
controller-runtime informers do (`mgr.GetClient()`); without it reads are
current. Writes and `pods/exec` always reach the real objects.

The workspace is a version number: 0 the empty disk of a new PVC, 1 the
hydrated base, then one number per piece of work. A checkpoint is the version it
holds. This is enough to say whether work is lost, and it leaves out contents.

A pod deletion is graceful: `del` is set and the containers work on until
`PodGone`; the removal after a pause checkpoint has grace period zero and is
immediate, as the code asks for. A node loss removes the pods at once and the
PVC later, so that the operator sees one incident as two.

The environment is a set of `Scenarios`: how often each kind of event (pause,
resume, cancel, pod, node or disk loss, retryable exit, failing exec, forbidden
admission, crash) may happen. The proofs hold for every such set.

`AgentRunLifecycle` is what all this looks like from outside: a phase, an attempt, the
restarts charged, the requests not withdrawn yet, and seventeen single steps without
passes, copies or conflicts. Each step is guarded by what is visible at that moment: a
visible cancel stops everything but the cancel itself (and the resume of a failed run,
which does not look at it), a retry needs budget, a lost disk does not, `Paused` needs a
recorded snapshot and a withdrawn request. The mapping reads all of it off the object,
except `granted`, a resume whose request has been withdrawn and that is not carried out
yet: that is the pass standing at `resumeStatus` with a current copy. It can be lost
(`LoseResume`, a crash; `Request`, somebody else's write), because the code withdraws
the request first and does not repeat it; it cannot be carried out twice.

### LaunchOutbox and LaunchRequest

A step is one transaction or one API call. A worker claims a batch under a
lease (any part of what is ready, since rows locked by another claim are skipped),
and for each operation launches, then completes, retries or fails it;
`Holds` is the lease check of these statements. `ExpireLease` is the clock: for
free when nobody works on the operation, as a fault when a worker is only slow.
`Die` is the end of a process at any step. A create call may succeed, find the
object, fail for good, fail without effect, or fail after its effect. The API
server's defaulting is a conversion from `"submitted"` to `"defaulted"`
specifications, since a replay compares the two. Readers are `GetRun` and
`ReconcileFromCluster`, split into read and upsert. `LaunchRequest` says what all
this is for; the refinement mapping turns the operation's state into a verdict.

### CheckpointStore

A step is one file operation. `Put` creates a file and fills it, so it can be torn.
Publishers take an id, write and read back the archive, write the manifest (the commit
point), list, and delete the surplus, manifest first. Modification times order the
listing as in `MountStore.List`. A restore without a pinned key walks the directory as
`filepath.WalkDir` does: it reads the names in `checkpoints/`, asks for the information
of each in key order, then does the same in `objects/`. A file that a prune has deleted
in between fails the whole listing, and with it the restore (`unlisted`). Otherwise it
tries the candidates newest first, passes over what is torn, gone or unreadable
(`unread`), opens the archive a second time and unpacks it, which may fail half way. The
pruner's own listing stays one step: it either sees a snapshot of the directory or
fails, which retention ignores. `undeleted` and `created` are history for the properties
only. `created` dates a checkpoint at the creation of its manifest file, because the
retention of others counts it from then on.

`AgentRunOperator` uses this store in an abstract form (`latest`, the newest
checkpoint): `CheckpointStore` says when that abstraction is justified, namely as
long as retention does not overrun what was reported.

### EventJournal

A step is one line read, one request, one check or one transaction. The gateway
and the handler that serves it are separate actors: `conn` is the handler whose
answer the gateway waits for, and when the connection breaks (`LoseAnswer`) or the
gateway restarts, the handler works on without it. Lines are named by attempt and
position; `Kinds` keeps what the code tells apart: an event, a line that is no
JSON, and an event the control plane always refuses. In Postgres an insert takes its
id in one step and commits in another, and a second insert of the same key waits;
the in-memory store does both under its lock. `store` is chosen in `Init`. Snapshots
(`ReadSnapshot`, `WriteSnapshot`) share the journal and, as upserts, can bring the
row of a deleted run back.

### Delivery

A branch is the set of commits its tip descends from, so fast-forward and ancestry
are set inclusion, and a tree is the number of the edit that made it. The agent may
edit, commit, amend or orphan the history, reset to the base, go back to the base
branch, fetch and merge the base (which moves `origin/<base>`, the anchor finalize
compares with), move that ref itself, and push without force; or its harness fails and
finalize is not reached. Then the steps are those of `finalize.Run`, with `CommitAll`
split at the two ref updates of `ensureBranch`; any git command before the push may
fail, for good. A call to GitHub may be answered, refused, or lost with or without its
effect, and every error of Create is followed by the listing. Another pod starts over
with the agent on the same workspace or on the last checkpoint; a disk lost without a
checkpoint ends the run. People push, move the base, close and merge as long as the run
goes on. `causes` is history: everything that may make a refusal permanent; `committed`
is what any finalize has had on the run branch.

### Installer

A command is the sequence of calls that `Install` or `Uninstall` makes, one step
each; `Abort` ends it anywhere. Options are few: kind or registry, the tag, the
run namespace, creating or deleting the cluster, credentials and exposure. The
cluster is external: it starts a pod when a Deployment's template differs from the
running pod's, if the image can be pulled, and the pod keeps the token it found at
that moment. A deleted namespace is `dying` until it disappears, in one step, with what
it holds; so is the CRD, whose deletion the uninstall does not await. As in
Kubernetes, a dying namespace refuses new objects and accepts changes of those that are
still there, so an install after an interrupted uninstall can get through and report
Ready on ground that is about to go; the history `doomed` collects what it took for
existing although it was dying. `old` marks a
running pod whose tag has been delivered again. `alone` marks a command that no other
command overlapped. `mixed` is history: an install went on with a token that is not
the system's, because it replaced the system's token by its own, or because it
pointed the apiserver at its run namespace after somebody had removed or replaced the
token it had written. The second case came out of the proof: three overlapping
commands (an install about to set the run namespace, an uninstall, another install)
leave an apiserver pod that started without a token, and a later lone install with the
same template keeps it. That takes more overlap than the run allows.

## 3. Runs

| Run | Shows | Instance |
|---|---|---|
| `operator_safety` | pause, resume and cancel, losses of pods, nodes and disks, failing exec and crashes, with and without a bucket: one agent, truthful Paused and Canceled, restarts covered by losses, budget, refinement of `AgentRunLifecycle`, paused work survives | 4 attempts, 2 versions, budget 1, 8 mixes of events |
| `operator_progress` | cancel, pause and interruption resolve, under fairness | 4 attempts, budget 1 |
| `operator_cached` | with lagging caches: final phases, advancing attempts | 2 attempts, one request |
| `outbox` | one verdict, no lost work, refinement of `LaunchRequest`; every submission is resolved, under fairness | 1 run, 2 workers, 1 reader, 2 faults |
| `checkpoint_retention` | manifests have archives, what was reported can be restored, restores take the newest | 2 publishers, 3 checkpoints, retention 2, 2 faults, symmetry; 6 million states |
| `journal` | each event once, in order, nothing skipped, readers of the in-memory store miss nothing; a living pod's events arrive, under fairness | 2 attempts, 2 lines, 1 snapshot, 1 fault, 2 handlers, both stores |
| `delivery` | success is delivered, with the work of earlier pods, "no changes" is true, only descendants of the base are published, refusals have a cause | budget 1, 3 commands of the agent, 3 faults, 1 intervention; 6 million states |
| `installer` | a command that ran alone does what it reports; the token is kept; uninstall leaves nothing | 2 people, 4 commands, the first 2 may overlap, 4 sets of install and 2 of uninstall options, symmetry; 0.9 million states |
| `operator_cached_agents` | **violated** `OneAgentAtATime` | as `operator_cached`, no events |
| `operator_double_charge` | **violated** `ChargedOncePerIncident` | one lost node, budget 2 |
| `operator_second_pause` | **violated** `PausedCheckpointIsCurrent` | two pauses, one resume |
| `outbox_replay` | **violated** `ReplayIsIdempotent` | 1 run, 1 worker, 1 fault, the code's 12 attempts |

The four violated runs are disagreements between the code and what its comments or its
technical specification say; `findings` in `PROJECT.json` quotes both sides, also of
those that show as an exception a passing property has to make (among them a restore
that fails because retention deleted a file under its listing, an install into a
namespace that is being deleted, and a CRD reported removed that is not), and of two
that were found while modelling: an agent that runs on an empty disk after a first
attempt that ended before its clone, and a status mirror that brings back the row of a
deleted run. `OneAgentAtATime` holds whenever reads are current, and is lost only with
caches. `PausedCheckpointIsCurrent` holds for the first pause of a run. A lost node
costs at most two restarts (`ChargedPerLoss`), not one.

Why the bounds are enough to be of use: a budget of one makes the last allowed
and the first refused retry both happen; four attempts let a loss follow a loss
and a manual resume reset a spent budget; two versions above the empty disk
tell hydrated, worked-on and lost apart; two workers suffice for a lease to
change hands, and two faults for a torn write to meet a failed delete; batches of
several runs are left to the theorems, which hold for any number. In the
journal one fault and two handlers suffice for two handlers to work on one line,
and two attempts for a number to be used twice; in the delivery three faults let a
lost push, a lost disk and a failed listing meet in one run, and three commands of the
agent let it commit, rewrite and move the anchor; four commands are a
first one that stops halfway, one that overlaps it, and two that run alone on what
they leave; with three overlapping (5 million states) nothing else is found, and the
theorems hold for any number.
Every mix of events is explored in all interleavings. The runs allow deadlock
(`CHECK_DEADLOCK FALSE`) because a finished run, a settled outbox and an
exhausted bound are proper ends.

Some properties have conditions that say exactly what the code promises.
`RetryBudgetRespected` lets the count exceed the budget by one per lost disk, since
`ensurePVC` charges without looking. `AbortedPauseLeavesHarnessRunning` is checked with
at most one failing exec call. `RestorableOnceReported` holds while the faults so far
and the publishers `n` satisfy `faults + n <= Retain` and `faults + 2n <= Retain + 2`,
because torn and unfinished manifests count against the retention, and so do manifests
that a pruner listed while they were torn and that were finished before it came to
delete them. The second condition was found by the proof attempt: with four publishers
and retention 4 the last whole checkpoint can be removed without any fault. For two
publishers, as in the run, the two conditions are one. `ManifestsAreBacked` excepts
manifests whose deletion failed, whose archive is deleted nevertheless.
`EveryEventArrives` excepts what is behind a line that is refused for good, and an
exited harness, whose last events may be lost. `MemoryReaderMissesNothing` does not hold
in Postgres. `RestoreFailsOnlyWhenOverrun` says of a failed listing only that the file
it met had been overrun: the newest checkpoint may be whole. `FailsOnlyForCause` counts
a rolled-back workspace, a moved anchor and a failed listing among the causes, each for
the refusal it can lead to; it leaves out a harness that failed, a git command that
failed and a lost disk without checkpoint, which fail a run by themselves.
`InstallConverges` excepts what was put into something that was dying when the install
found it, and claims the rest. `InstalledIsServed` says nothing of the default run
namespace, where no template change follows the token, and claims the new build only for
a new tag; `TokenIsKept` excepts overlapping commands, and `UninstallLeavesNothing` a
CRD whose deletion is under way and a cluster that could not be described.

### Fairness

`AgentRunOperator`: weak fairness of the operator (a work queue that requeues
after errors), of the kubelet starting and removing pods, of the removal of a lost
node's PVC, of the informers, and of a call past its check reaching its patch.
Nothing is assumed of the harness, of checkpoints, of users or of losses.
`LaunchOutbox`: weak fairness of each worker (it drains on a ticker) and of the
expiry of a lease nobody works under (the database clock). Clients, readers and
the operator are under no obligation.
`EventJournal`: weak fairness of the gateway (it retries for ever) and of every
handler (it answers or its request ends). Nothing is assumed of the harness, of
faults or of readers; when everything fails for ever nothing arrives, and the bound
on faults stands for failures that end. `Delivery` and `Installer` state no
fairness: whether a run is delivered depends on its budget and on GitHub, and
whether an install ends depends on people.

## 4. Proofs

Every theorem holds for all values of the constants that satisfy the named
assumptions (`OperatorConstants`, `OutboxConstants`, `CheckpointConstants`,
`JournalAssumption`, `DeliveryAssumption`, `InstallerAssumption`: the bounds are
naturals, retention and limits are positive, the publishers are finitely many, the
options are records of their types).

* `AgentRunOperatorProofs`: `TypeCorrect`, `AttemptsAdvance`, `FinishedStaysFinished`,
  `NoFreshStart`, `LifecycleImplemented`. None of the properties is inductive: a write
  replaces the whole object by the pass's copy, so what matters is how old the copy is.
  The invariant `IInv` says that a copy marked fresh (in the pass or in the cache)
  equals the object, that any copy is of the current or an earlier attempt, that the
  step a pass has chosen fits the phase it read, that no pod exists for an attempt not
  reached yet, and that after a RunSpec in resume mode no copy of the first attempt is
  left to act on. It holds with current and with cached reads alike.
  `LifecycleImplemented` is `Spec => ImplementsLifecycle`, the refinement of
  `AgentRunLifecycle`. A write that is not refused was made from a copy equal to the
  object, so it is a step from what is visible; that it is the right one needs
  `PassFits`: what the copy must have said for the pass to have come as far as it has (a
  cancel requested, nothing requested, `Pausing`, a snapshot recorded, budget left). One
  group of lemmas says which lifecycle step each write is seen as, `UnseenSteps` that
  deletions, exec calls, the PVC, the RunSpec and the pod are not seen at all.
* `AgentRunSafetyProofs`: `OneAgent`, `PausedIsQuiet`, `CanceledIsStopping`,
  `RetryBudget`, `ChargesAreCovered`, all under the assumption `~StaleReads`, without
  which `operator_cached_agents` shows the first to be false. With current reads the
  copy of a pass differs from the object only in requests made since (`SInv` says so,
  step by step), so every write has a lemma that describes what it does to the object.
  `SInv` then says which pods can still come up: none of an attempt that is over, none
  of a halted run, none that a pass is about to give up. `BInv` leaves room in the
  budget for the charge of a lost disk that no pass has seen yet. `CInv` counts the
  charges: those made, and those that a lost pod or disk can still cause, are together
  no more than the losses.
* `AgentRunPauseProofs`: `PausedWorkReturns`, `AbortedPauseContinues`,
  `PauseCheckpointIsCurrent`, also with current reads. `DiskInv` relates disk,
  checkpoints and what a pod is told: a disk holds the recorded checkpoint, or a restore
  is recorded; `FirstInv` and `SpecInv` say that the RunSpec a pod starts with still
  tells it so. `StopInv` follows a stopped harness to whoever starts it again; its
  theorem is about states with at most one failed exec call, since two leave the harness
  stopped. `ProofInv` and `OnceInv` say that a harness whose snapshot is recorded stays
  stopped and its disk unchanged; their theorem is about states after at most one pause,
  since `operator_second_pause` shows a second one to reuse the first one's record.
* `LaunchOutboxProofs`: `TypeCorrect`, `OneVerdictHolds`, `WorkIsNeverLostHolds` and
  `Refinement`, `Spec => ImplementsLaunchRequest`. The invariant adds to the types what
  a process in flight knows: a worker handles only submitted runs; one about to complete
  has launched its run; one about to fail holds a row that existed; a reader that has
  seen an object reads a launched run; the journal agrees with the state of the
  operation. In the refinement `CreateRun`, a creating `Launch`, `CompleteOperation`,
  `FailOperation` and `DeleteRow` are the five abstract actions, or stutters when their
  lease is lost; all else stutters.
* `CheckpointStoreProofs`: `TypeCorrect`, `Backed` (`Spec => []ManifestsAreBacked`),
  `RestoreFailure`, `RestoreNewest` and `Restorable` (`Spec =>
  []RestorableOnceReported`). The invariant says that an id being written belongs to one
  publisher and has no readable manifest yet, that its archive, once verified, stays
  whole until the manifest is written, that a publisher going to delete an archive never
  means one still being written, and that it has removed the manifest before, or failed
  to. For restores `RInv` adds that what was reported loads or has been overrun by
  `Retain` later checkpoints, because the victims of a prune were overrun when it listed
  them and being overrun never ends; that the overrun never ends needs that the clock is
  ahead of every creation. `RestoreInv` says that whatever a restore has tried and given
  up is overrun or was unreadable, that the rest comes later in its order, and that a
  name its walk has read is still there or is overrun. For `Restorable`, `KInv` follows
  the newest checkpoint that is whole and that no publisher has chosen to remove: when a
  prune lists, every manifest newer than it is debris that a fault has paid for, is
  being written, or was chosen for removal before it was finished. The last kind was
  being written when that checkpoint was committed, by a publisher other than its own
  (`FewStraddle`), so that under the condition the checkpoint is among the `Retain`
  newest and spared.
* `EventJournalProofs`: `OnceOnly`, `InOrderWithoutGaps`, `NothingIsSkipped`,
  `ReaderMissesNothing` and `TypeCorrect`. The invariant `IndInv` follows a line from
  the gateway to its row: whoever is at work on a line, also a handler the gateway has
  left and a transaction not yet committed, knows that every event before it is
  committed with a smaller id; a transaction has its key for itself; the gateway waits
  for a handler of the line it read last; later attempts have written nothing. That a
  key names one line, attempt included, is the lemma `SourceIDIsInjective`. The reader
  has an invariant of its own, `ReaderInv`: in memory no handler holds an id whose row
  is not there, and the cursor is below the next id; that a page leaves out no row below
  its last is the lemma `PageIsContiguous`.
* `DeliveryProofs`: `Delivered`, `EarlierDelivered`, `OnlyDescendants`, `NoChanges`,
  `FailsForCause` and `TypeCorrect`. The invariant says what finalize has established
  when it has come as far as a step (the run branch descends from the recorded base, it
  holds the worktree, GitHub has it), and `Sane` what every workspace, the saved ones
  included, can be relied on for, depending on what has happened so far: as long as the
  agent has not moved the anchor it is part of the base branch, until a fetch it is the
  first base, until a rewrite all branches have it, and a branch within the base branch
  is within the anchor unless a merge brought it there. `Kept` says what the run branch
  still has of what was committed or pushed. The causes only grow, so each of these is
  lost only for a named reason.
* `InstallerProofs`: `TypeCorrect`, `InstallServes`, `InstallsConverge`, `TokenKept`,
  `UninstallRemoves`. `Inv` has the types, that a command is where its kind can be, that
  a command marked alone is the only one in progress, and that what is in the cluster is
  in a namespace that exists. `Deeds` says what a lone command has done when it has come
  as far as a step; it stays done because only the cluster moves besides it, and the
  cluster removes nothing but what is dying, which is why each deed in a namespace or
  about the CRD is conditional on its not being in `doomed`. One is not: an install that
  has written the system's token has it there, or has lost the apiserver's Deployment
  with it, so that the next step fails. Two parts are about pods: a running pod's image
  was pulled, and a pod that has a template with another run namespace than the shipped
  one has the system's token, unless tokens were mixed.

Only model-checked: liveness (`CancelIsHonoured`, `PauseResolves`,
`InterruptionResolves`, `RequestResolves`, `EveryEventArrives`), which is out of the
proof system's reach. All other properties of the passing runs are theorems. The type
invariants of the operator, the journal and the delivery are proved and not repeated in
runs.

## 5. Not modelled

The egress proxy and lockdown (stateless rules), the workspace archive's format,
the harness adapters, the client, the command line, the desktop application and
the configuration: reasons in `PROJECT.json`. In the modelled parts: several runs at
once in the operator (they share no state); a run with a deletion timestamp; an
operator without executor or log reader; pod phase Unknown; the pod manifest;
scraped token counts; contents of archives; snapshots that predate manifests (the
`.tar.gz` fallback of `LoadCheckpoint`); two checkpoints with one timestamp; an agent
that forces a push; two
apiserver processes with one host name; the in-memory store's outbox; projects; a
pull request against another base than the run's; clusters with several installations;
the Artifact Registry repository that `--create-cluster` makes; the order in which a
dying namespace loses its objects.

The in-memory store lives in the apiserver's process (`memory.go:16`,
`memory_durable.go:146`): a restart loses runs and journal and starts the ids at one
again, which `docs/technical-spec.md:321-322` documents. `EventJournal` has no such
restart, so on that store its properties hold for the life of one apiserver process; on
Postgres the end of an apiserver process is that of its requests (`FailRequest`, before
the commit, `LoseAnswer` after it). A removal with grace period zero is taken to stop
the containers at once.

## 6. Plan

Done, in this order of importance: operator, launch outbox with its abstract
specification, checkpoint store, event journal, delivery, installer; proofs of every
safety property of the passing runs; the operator's abstract lifecycle and its
refinement. Next:

1. Composition of operator and checkpoint store: `latest` and the pinned
   checkpoint replaced by the store's state.
2. The in-memory store as a second implementation of the outbox's transactions.
