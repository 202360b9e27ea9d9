-------------------------- MODULE AgentRunOperator --------------------------
(***************************************************************************)
(* The AgentRun operator (internal/controller) together with what it       *)
(* drives: one AgentRun object, the agent pods of its attempts, the        *)
(* workspace PVC, the RunSpec ConfigMap and the run's checkpoints.         *)
(*                                                                         *)
(* A reconcile is a sequence of API-server writes.  Every write is a step  *)
(* of its own, so users, the kubelet, node failures and an operator crash  *)
(* can come between any two of them.  `rec` is the reconcile in flight:    *)
(* its in-memory copy of the run and whether that copy still carries the   *)
(* current resourceVersion (a write from a copy that does not is refused   *)
(* with a conflict and ends the reconcile).                                *)
(*                                                                         *)
(* Workspace contents are versions: 0 is the empty disk of a new PVC, 1    *)
(* the hydrated base, every larger number one more piece of agent work     *)
(* (never reused).  A checkpoint is the version it holds.                  *)
(***************************************************************************)
EXTENDS Integers, FiniteSets

CONSTANTS
  Buckets,                 \* whether the run names a checkpoint bucket: a choice
  StaleReads,              \* operator reads come from lagging informer caches
  MaxRestarts,             \* spec.retry.maxRestarts after defaulting
  MaxGen,                  \* bound: last attempt generation explored
  MaxWork,                 \* bound: last workspace version explored
  Scenarios                \* bound: how often each environment event may occur,
                           \* one function per mix of events explored

Events == {"pause", "resume", "cancel", "podLoss", "nodeLoss", "pvcLoss",
           "exit", "exec", "forbid", "crash"}

ASSUME OperatorConstants ==
  /\ Buckets \in (SUBSET BOOLEAN) \ {{}}
  /\ StaleReads \in BOOLEAN
  /\ MaxRestarts \in Nat \ {0}
  /\ MaxGen \in Nat \ {0}
  /\ MaxWork \in Nat \ {0}
  /\ Scenarios \subseteq [Events -> Nat]

VARIABLES
  run,      \* the AgentRun object on the API server
  pods,     \* attempt generation -> its pod object and containers
  pvc,      \* the workspace PVC exists
  doomed,   \* ... on a lost node or zone: it can no longer be mounted
  disk,     \* version of the workspace on the PVC
  work,     \* largest version any agent has produced
  latest,   \* version in the newest published checkpoint
  runSpec,  \* the RunSpec ConfigMap
  rec,      \* the reconcile in flight
  cache,    \* the operator's informer caches (used when StaleReads)
  asked,    \* lifecycle calls past their check, annotation not yet patched
  spent     \* environment events so far

vars == <<run, pods, pvc, doomed, disk, work, latest, runSpec, rec, cache,
          asked, spent>>
workspace == <<pvc, doomed, disk, work, latest>>
cluster == <<pods, workspace, runSpec>>
client == <<asked, spent>>

None == -1
Gens == 0..MaxGen
Versions == 0..MaxWork

Terminal == {"Succeeded", "Failed", "Canceled"}
Phases == Terminal \cup {"", "Pending", "Provisioning", "Running", "Pausing",
                         "Paused", "Interrupted"}
Reasons == {"", "Admitted", "Pausing", "PausePodLost", "PauseAborted", "Paused",
            "WorkspaceLost", "PodAdmissionForbidden", "RetryBudgetExhausted",
            "HarnessError", "PodPending", "PodRunning", "HarnessCompleted",
            "Canceled"}
Annotations == {"cancel", "pause", "resume"}

\* Written once per run, whatever their status.
Posture == {"EgressEnforcement", "CheckpointStorage"}
\* Cleared together once a replacement pod is seen Running.
Recovery == {"Resuming", "WorkspaceRestorePending", "PauseResumePending"}
Conditions == Posture \cup Recovery \cup {"PauseCheckpointReady"}

\* bucket = spec.workspace.checkpoint.bucket is set (never changes);
\* phase and reason of the Ready condition; attempt = AttemptGeneration,
\* restarts = RestartCount, podName = generation of the recorded pod,
\* lastCk = LastCheckpoint, conds = the conditions that are True.
Runs == [bucket: BOOLEAN, phase: Phases, reason: Reasons, attempt: Gens, restarts: Gens,
         podName: Gens \cup {None}, lastCk: Versions \cup {None},
         annots: SUBSET Annotations, conds: SUBSET Conditions]

PodPhases == {"Absent", "Pending", "Running", "Succeeded", "Retryable", "Fatal"}
\* del = deletionTimestamp set, stopped = harness SIGSTOPped,
\* ck = newest periodic checkpoint its sidecar has logged.
Pods == [phase: PodPhases, del: BOOLEAN, stopped: BOOLEAN,
         ck: Versions \cup {None}]
RunSpecs == [mode: {"start", "resume"}, restore: BOOLEAN,
             pin: Versions \cup {None}]

Steps == {"idle", "admit", "cancel", "cancelStatus", "resume", "resumeClear",
          "resumeStatus", "enterPausing", "quiesce", "snapshot", "commitProof",
          "unquiesce", "abortClear", "abortStatus", "removePod",
          "pausedStatus", "prerequisites", "lostStatus", "restoreStatus",
          "runSpec", "ensurePod", "recordPod", "podRunning",
          "failStatus"}

NewRun(b) == [bucket |-> b, phase |-> "", reason |-> "", attempt |-> 0, restarts |-> 0,
           podName |-> None, lastCk |-> None, annots |-> {}, conds |-> {}]
NoPod == [phase |-> "Absent", del |-> FALSE, stopped |-> FALSE, ck |-> None]
FreshPod == [NoPod EXCEPT !.phase = "Pending"]
Idle == [pc |-> "idle", run |-> NewRun(FALSE), fresh |-> FALSE, proof |-> None]

TypeOK ==
  /\ run \in Runs
  /\ pods \in [Gens -> Pods]
  /\ pvc \in BOOLEAN /\ doomed \in BOOLEAN
  /\ disk \in Versions /\ work \in Versions
  /\ latest \in Versions \cup {None}
  /\ runSpec \in RunSpecs
  /\ rec \in [pc: Steps, run: Runs, fresh: BOOLEAN, proof: Versions \cup {None}]
  /\ cache \in [run: Runs, fresh: BOOLEAN, pods: [Gens -> Pods], pvc: BOOLEAN]
  /\ asked \in SUBSET Annotations
  /\ spent \in [Events -> Nat]

Init ==
  /\ run \in {NewRun(b) : b \in Buckets}
  /\ pods = [g \in Gens |-> NoPod]
  /\ pvc = FALSE /\ doomed = FALSE
  /\ disk = 0 /\ work = 0 /\ latest = None
  /\ runSpec = [mode |-> "start", restore |-> FALSE, pin |-> None]
  /\ rec = Idle
  /\ cache = [run |-> run, fresh |-> TRUE, pods |-> pods, pvc |-> FALSE]
  /\ asked = {}
  /\ spent = [e \in Events |-> 0]

\* Event e happens: allowed while some scenario still covers all that did.
Spend(e) ==
  /\ spent' = [spent EXCEPT ![e] = @ + 1]
  /\ \E s \in Scenarios : \A x \in Events : spent'[x] <= s[x]

-----------------------------------------------------------------------------
(* What the operator reads and how it writes.                              *)

SeenRun == IF StaleReads THEN cache.run ELSE run
SeenPods == IF StaleReads THEN cache.pods ELSE pods
SeenPVC == IF StaleReads THEN cache.pvc ELSE pvc

\* The operator is started with a checkpoint mount; a run opts in by bucket.
CheckpointMountEnabled(r) == r.bucket

\* attemptGeneration: tolerates objects that only ever counted restarts.
AttemptGeneration(r) == IF r.attempt > r.restarts THEN r.attempt ELSE r.restarts

AdvanceAttempt(r) == [r EXCEPT !.attempt = AttemptGeneration(r) + 1]

CurrentGen == AttemptGeneration(rec.run)
SeenPod == SeenPods[CurrentGen]

At(step) == rec.pc = step
Continue(step) == rec' = [rec EXCEPT !.pc = step]
Return == rec' = Idle

\* Somebody else wrote the run: the caches and the copy in flight are behind.
Supersede(new) ==
  /\ run' = new
  /\ rec' = [rec EXCEPT !.fresh = @ /\ new = run]
  /\ cache' = [cache EXCEPT !.fresh = @ /\ new = run]

\* Mutant: an unconditional write.
PersistAnyVersion(new, step) ==
  /\ run' = new
  /\ rec' = IF step = "idle" THEN Idle
            ELSE [rec EXCEPT !.pc = step, !.run = new]
  /\ cache' = [cache EXCEPT !.fresh = @ /\ new = run]
\* Update / Status().Update under optimistic concurrency; on a conflict the
\* reconcile returns the error.
Persist(new, step) ==
  IF rec.fresh
  THEN /\ run' = new
       /\ rec' = IF step = "idle" THEN Idle
                 ELSE [rec EXCEPT !.pc = step, !.run = new]
       /\ cache' = [cache EXCEPT !.fresh = @ /\ new = run]
  ELSE Return /\ UNCHANGED <<run, cache>>

SetPhase(phase, reason) ==
  Persist([rec.run EXCEPT !.phase = phase, !.reason = reason], "idle")

\* Graceful delete: the object stays, terminating, until the kubelet is done.
Terminate(g) ==
  pods' = IF pods[g].phase = "Absent" THEN pods
          ELSE [pods EXCEPT ![g].del = TRUE]

\* Get, then Delete ignoring NotFound.
DeleteCurrentPod == IF SeenPod.phase = "Absent" THEN UNCHANGED pods
                    ELSE Terminate(CurrentGen)

-----------------------------------------------------------------------------
(* Reconcile and handleRequestedTransition: which path this pass takes.    *)

\* Mutant: the phase check of the pause journal is lost.
PauseTransitionRestarting(r) ==
  IF ~CheckpointMountEnabled(r) THEN "abortClear" ELSE "enterPausing"
PauseTransition(r) ==
  CASE ~CheckpointMountEnabled(r) -> "abortClear"
    [] CheckpointMountEnabled(r) /\ r.phase # "Pausing" -> "enterPausing"
    [] OTHER -> IF "PauseCheckpointReady" \in r.conds /\ r.lastCk # None
                THEN "removePod" ELSE "quiesce"

ActiveTransition(r) ==
  CASE "cancel" \in r.annots -> "cancel"
    [] "cancel" \notin r.annots /\ (r.phase = "Pausing" \/ "pause" \in r.annots)
         -> PauseTransition(r)
    [] OTHER -> IF r.phase = "" THEN "admit" ELSE "prerequisites"

\* Mutant: a paused run looks only for a resume request.
RequestedTransitionPausedDeaf(r) ==
  CASE r.phase \in {"Paused", "Failed"} -> IF "resume" \in r.annots THEN "resume" ELSE "idle"
    [] r.phase \in Terminal \ {"Failed"} -> "idle"
    [] OTHER -> ActiveTransition(r)
RequestedTransition(r) ==
  CASE r.phase = "Paused" -> IF "cancel" \in r.annots THEN "cancel"
                             ELSE IF "resume" \in r.annots THEN "resume" ELSE "idle"
    [] r.phase \in Terminal -> IF r.phase = "Failed" /\ "resume" \in r.annots
                               THEN "resume" ELSE "idle"
    [] OTHER -> ActiveTransition(r)

Reconcile ==
  /\ At("idle")
  /\ RequestedTransition(SeenRun) # "idle"
  /\ rec' = [pc |-> RequestedTransition(SeenRun), run |-> SeenRun,
             fresh |-> ~StaleReads \/ cache.fresh, proof |-> None]
  /\ UNCHANGED <<run, cluster, cache, client>>

Admit ==
  /\ At("admit")
  /\ SetPhase("Pending", "Admitted")
  /\ UNCHANGED <<cluster, client>>

-----------------------------------------------------------------------------
(* cancel, resume and pause.                                               *)

\* Mutant: cancel only marks the run.
CancelKeepsPod ==
  /\ At("cancel")
  /\ Continue("cancelStatus")
  /\ UNCHANGED <<run, pods, workspace, runSpec, cache, client>>
Cancel ==
  /\ At("cancel")
  /\ DeleteCurrentPod
  /\ Continue("cancelStatus")
  /\ UNCHANGED <<run, workspace, runSpec, cache, client>>

CancelStatus ==
  /\ At("cancelStatus")
  /\ SetPhase("Canceled", "Canceled")
  /\ UNCHANGED <<cluster, client>>

Resume ==
  /\ At("resume")
  /\ DeleteCurrentPod
  /\ Continue("resumeClear")
  /\ UNCHANGED <<run, workspace, runSpec, cache, client>>

\* Mutant: the resume request is not withdrawn.
ResumeClearKeepsRequest ==
  /\ At("resumeClear")
  /\ Persist(rec.run, "resumeStatus")
  /\ UNCHANGED <<cluster, client>>
ResumeClear ==
  /\ At("resumeClear")
  /\ Persist([rec.run EXCEPT !.annots = @ \ {"resume"}], "resumeStatus")
  /\ UNCHANGED <<cluster, client>>

\* A resume from Failed gets a fresh retry budget; a resume from Paused keeps
\* its budget and pins the pause checkpoint.
Resumed(r) ==
  LET paused == r.phase = "Paused"
  IN [AdvanceAttempt(r) EXCEPT
        !.restarts = IF paused THEN @ ELSE 0,
        !.phase = "Interrupted",
        !.conds = @ \cup {"Resuming"}
                    \cup (IF paused THEN {"PauseResumePending"} ELSE {})]

ResumeStatus ==
  /\ At("resumeStatus")
  /\ CurrentGen < MaxGen
  /\ Persist(Resumed(rec.run), "idle")
  /\ UNCHANGED <<cluster, client>>

EnterPausing ==
  /\ At("enterPausing")
  /\ SetPhase("Pausing", "Pausing")
  /\ UNCHANGED <<cluster, client>>

\* publishPauseCheckpoint finds no pod to snapshot.
PausePodLost ==
  /\ At("quiesce")
  /\ SeenPod.phase = "Absent"
  /\ SetPhase("Failed", "PausePodLost")
  /\ UNCHANGED <<cluster, client>>

\* A pods/exec call that stops or continues the harness: it takes effect and
\* says so, or it returns an error, with or without having taken effect.
SignalHarness(stop, ok, failed) ==
  LET signalled == [pods EXCEPT ![CurrentGen].stopped = stop]
  IN \/ /\ pods[CurrentGen].phase = "Running"
        /\ pods' = signalled
        /\ Continue(ok)
        /\ UNCHANGED spent
     \/ /\ pods[CurrentGen].phase # "Running"
        /\ Continue(failed)
        /\ UNCHANGED <<pods, spent>>
     \/ /\ pods[CurrentGen].phase = "Running"
        /\ Spend("exec")
        /\ pods' \in {pods, signalled}
        /\ Continue(failed)

\* Mutant: the snapshot is taken of a running harness.
QuiesceSkipped ==
  /\ At("quiesce")
  /\ SeenPod.phase # "Absent"
  /\ Continue("snapshot")
  /\ UNCHANGED <<run, cluster, cache, client>>
\* wren-runtime quiesce: SIGSTOP to the harness.
Quiesce ==
  /\ At("quiesce")
  /\ SeenPod.phase # "Absent"
  /\ SignalHarness(TRUE, "snapshot", "unquiesce")
  /\ UNCHANGED <<run, workspace, runSpec, cache, asked>>

\* wren-runtime checkpoint-once in the checkpointer; its output is the proof.
Snapshot ==
  /\ At("snapshot")
  /\ \/ /\ pods[CurrentGen].phase = "Running"
        /\ latest' = disk
        /\ rec' = [rec EXCEPT !.pc = "commitProof", !.proof = disk]
        /\ UNCHANGED spent
     \/ /\ pods[CurrentGen].phase # "Running"
        /\ Continue("unquiesce")
        /\ UNCHANGED <<latest, spent>>
     \/ /\ pods[CurrentGen].phase = "Running"
        /\ Spend("exec")
        /\ latest' \in {latest, disk}
        /\ Continue("unquiesce")
  /\ UNCHANGED <<run, pods, pvc, doomed, disk, work, runSpec, cache, asked>>

CommitProof ==
  /\ At("commitProof")
  /\ Persist([rec.run EXCEPT !.lastCk = rec.proof,
                             !.conds = @ \cup {"PauseCheckpointReady"}], "idle")
  /\ UNCHANGED <<cluster, client>>

\* Mutant: abortPause forgets the stopped harness.
UnquiesceSkipped ==
  /\ At("unquiesce")
  /\ Continue("abortClear")
  /\ UNCHANGED <<run, cluster, cache, client>>
\* abortPause: let the harness continue (best effort), withdraw the request,
\* report Running again.
Unquiesce ==
  /\ At("unquiesce")
  /\ SignalHarness(FALSE, "abortClear", "abortClear")
  /\ UNCHANGED <<run, workspace, runSpec, cache, asked>>

AbortClear ==
  /\ At("abortClear")
  /\ Persist([rec.run EXCEPT !.annots = @ \ {"pause"}], "abortStatus")
  /\ UNCHANGED <<cluster, client>>

AbortStatus ==
  /\ At("abortStatus")
  /\ Persist([rec.run EXCEPT !.phase = "Running", !.reason = "PauseAborted",
                             !.conds = @ \ {"PauseCheckpointReady"}], "idle")
  /\ UNCHANGED <<cluster, client>>

\* Mutant: Paused is reported without waiting for the pod to be gone.
RemoveCheckpointedPodEager ==
  /\ At("removePod")
  /\ Terminate(CurrentGen)
  /\ Persist([rec.run EXCEPT !.annots = @ \ {"pause"}], "pausedStatus")
  /\ UNCHANGED <<workspace, runSpec, client>>
\* removeCheckpointedPod: a zero-grace delete, then, once the pod is seen
\* gone, withdraw the request and report Paused.
RemoveCheckpointedPod ==
  /\ At("removePod")
  /\ IF SeenPod.phase # "Absent"
     THEN /\ pods' = [pods EXCEPT ![CurrentGen] = NoPod]
          /\ Return
          /\ UNCHANGED <<run, cache>>
     ELSE /\ Persist([rec.run EXCEPT !.annots = @ \ {"pause"}], "pausedStatus")
          /\ UNCHANGED pods
  /\ UNCHANGED <<workspace, runSpec, client>>

PausedStatus ==
  /\ At("pausedStatus")
  /\ SetPhase("Paused", "Paused")
  /\ UNCHANGED <<cluster, client>>

-----------------------------------------------------------------------------
(* ensurePrerequisites: posture conditions, workspace PVC, RunSpec.        *)

PostureRecorded == Posture \subseteq rec.run.conds

\* ensureEgressCondition, then ensureCheckpointStorageCondition.
RecordPosture ==
  /\ At("prerequisites")
  /\ ~PostureRecorded
  /\ LET c == IF "EgressEnforcement" \in rec.run.conds THEN "CheckpointStorage"
              ELSE "EgressEnforcement"
     IN Persist([rec.run EXCEPT !.conds = @ \cup {c}], "prerequisites")
  /\ UNCHANGED <<cluster, client>>

\* Mutant: a recorded loss is not recognised on the next pass.
MayCreatePVCFirstOnly(r) == r.phase = "Pending"
\* A missing PVC is the first one (Pending), the replacement of a recorded
\* loss (WorkspaceRestorePending), or a loss seen for the first time.
MayCreatePVC(r) ==
  \/ r.phase = "Pending"
  \/ CheckpointMountEnabled(r) /\ "WorkspaceRestorePending" \in r.conds

MissingPVC == At("prerequisites") /\ PostureRecorded /\ ~SeenPVC

CreateWorkspacePVC ==
  /\ MissingPVC
  /\ MayCreatePVC(rec.run)
  /\ IF pvc THEN Return /\ UNCHANGED <<pvc, disk>>      \* AlreadyExists
     ELSE pvc' = TRUE /\ disk' = 0 /\ Continue("runSpec")
  /\ UNCHANGED <<run, pods, doomed, work, latest, runSpec, cache, client>>

\* A first-seen loss with checkpoints: delete the pod, then journal the loss.
BeginRestore ==
  /\ MissingPVC
  /\ ~MayCreatePVC(rec.run)
  /\ CheckpointMountEnabled(rec.run)
  /\ DeleteCurrentPod
  /\ Continue("restoreStatus")
  /\ UNCHANGED <<run, workspace, runSpec, cache, client>>

Charged(r) == [AdvanceAttempt(r) EXCEPT !.restarts = @ + 1]
\* Mutant: the loss is charged but not journalled.
RestoringUnrecorded(r) ==
  LET counted == IF "Resuming" \in r.conds THEN [r EXCEPT !.podName = None]
                 ELSE Charged(r)
  IN [counted EXCEPT !.phase = "Interrupted"]
\* The loss is journalled, and charged unless a recovery is in progress.
Restoring(r) ==
  LET counted == IF "Resuming" \in r.conds THEN [r EXCEPT !.podName = None]
                 ELSE Charged(r)
  IN [counted EXCEPT !.phase = "Interrupted",
                     !.conds = @ \cup {"WorkspaceRestorePending"}]

RestoreStatus ==
  /\ At("restoreStatus")
  /\ CurrentGen < MaxGen
  /\ Persist(Restoring(rec.run), "idle")
  /\ UNCHANGED <<cluster, client>>

\* A loss without checkpoints is terminal.
WorkspaceLost ==
  /\ MissingPVC
  /\ ~MayCreatePVC(rec.run)
  /\ ~CheckpointMountEnabled(rec.run)
  /\ DeleteCurrentPod
  /\ Continue("lostStatus")
  /\ UNCHANGED <<run, workspace, runSpec, cache, client>>

LostStatus ==
  /\ At("lostStatus")
  /\ SetPhase("Failed", "WorkspaceLost")
  /\ UNCHANGED <<cluster, client>>

\* Mutant: the mode is taken from the retry counter.
BuildRunSpecFromCounter(r) ==
  LET restore == "WorkspaceRestorePending" \in r.conds
  IN [mode |-> IF r.restarts > 0 THEN "resume" ELSE "start",
      restore |-> restore,
      pin |-> IF restore /\ "PauseResumePending" \in r.conds THEN r.lastCk
              ELSE None]
\* Mutant: the replacement pod is not told to restore.
BuildRunSpecNoRestore(r) ==
  [mode |-> IF AttemptGeneration(r) > 0 THEN "resume" ELSE "start",
   restore |-> FALSE, pin |-> None]
BuildRunSpec(r) ==
  LET restore == "WorkspaceRestorePending" \in r.conds
  IN [mode |-> IF AttemptGeneration(r) > 0 THEN "resume" ELSE "start",
      restore |-> restore,
      pin |-> IF restore /\ "PauseResumePending" \in r.conds THEN r.lastCk
              ELSE None]

EnsureRunSpec ==
  /\ At("runSpec") \/ (At("prerequisites") /\ PostureRecorded /\ SeenPVC)
  /\ runSpec' = BuildRunSpec(rec.run)
  /\ Continue("ensurePod")
  /\ UNCHANGED <<run, pods, workspace, cache, client>>

-----------------------------------------------------------------------------
(* ensurePod and reconcilePodState.                                        *)

PodRecorded == rec.run.podName = CurrentGen
\* Mutant: a terminating pod counts as gone.
PodMissingOrLeaving ==
  At("ensurePod") /\ (SeenPod.phase = "Absent" \/ SeenPod.del)
PodMissing == At("ensurePod") /\ SeenPod.phase = "Absent"
PodFound(phases) ==
  /\ At("ensurePod")
  /\ PodRecorded
  /\ ~SeenPod.del
  /\ SeenPod.phase \in phases

CreatePod ==
  /\ PodMissing
  /\ ~PodRecorded
  /\ IF pods[CurrentGen].phase # "Absent"
     THEN Return /\ UNCHANGED pods                        \* AlreadyExists
     ELSE /\ pods' = [pods EXCEPT ![CurrentGen] = FreshPod]
          /\ Continue("recordPod")
  /\ UNCHANGED <<run, workspace, runSpec, cache, client>>

PodAdmissionForbidden ==
  /\ PodMissing
  /\ ~PodRecorded
  /\ Spend("forbid")
  /\ SetPhase("Failed", "PodAdmissionForbidden")
  /\ UNCHANGED <<cluster, asked>>

\* The pod's identity is persisted before its phase is interpreted.
RecordPod ==
  /\ \/ At("recordPod")
     \/ At("ensurePod") /\ SeenPod.phase # "Absent" /\ ~PodRecorded
  /\ Persist([rec.run EXCEPT !.podName = CurrentGen], "idle")
  /\ UNCHANGED <<cluster, client>>

\* Mutant: one restart too many.
BudgetExhaustedOffByOne(r) == r.restarts > MaxRestarts
BudgetExhausted(r) == r.restarts >= MaxRestarts

Interrupted(r) == [Charged(r) EXCEPT !.phase = "Interrupted",
                                     !.conds = @ \cup {"Resuming"}]

\* handleMissingPod: the recorded pod is gone without a terminal object.
HandleMissingPod ==
  /\ PodMissing
  /\ PodRecorded
  /\ IF BudgetExhausted(rec.run) THEN SetPhase("Failed", "RetryBudgetExhausted")
     ELSE CurrentGen < MaxGen /\ Persist(Interrupted(rec.run), "idle")
  /\ UNCHANGED <<cluster, client>>

\* A terminating pod is left alone; so is one whose phase is already recorded.
ObserveNothing ==
  /\ At("ensurePod")
  /\ SeenPod.phase # "Absent"
  /\ PodRecorded
  /\ SeenPod.del \/ (SeenPod.phase = "Pending" /\ rec.run.phase = "Provisioning")
  /\ Return
  /\ UNCHANGED <<run, cluster, cache, client>>

ObservePending ==
  /\ PodFound({"Pending"})
  /\ rec.run.phase # "Provisioning"
  /\ SetPhase("Provisioning", "PodPending")
  /\ UNCHANGED <<cluster, client>>

ClearRecoveryConditions ==
  /\ PodFound({"Running"})
  /\ rec.run.conds \cap Recovery # {}
  /\ Persist([rec.run EXCEPT !.conds = @ \ Recovery], "podRunning")
  /\ UNCHANGED <<cluster, client>>

\* scrapeCheckpointStatus is best effort: the recorded checkpoint is kept or
\* replaced by a later one from the sidecar's log.
Scraped == {rec.run.lastCk} \cup
           (IF pods[CurrentGen].ck > rec.run.lastCk THEN {pods[CurrentGen].ck} ELSE {})

ObserveRunning ==
  /\ At("podRunning") \/ (PodFound({"Running"}) /\ rec.run.conds \cap Recovery = {})
  /\ \E ck \in Scraped :
       LET seen == [rec.run EXCEPT !.lastCk = ck, !.phase = "Running",
                      !.reason = IF rec.run.phase = "Running" THEN @ ELSE "PodRunning"]
       IN IF seen = rec.run THEN Return /\ UNCHANGED <<run, cache>>
          ELSE Persist(seen, "idle")
  /\ UNCHANGED <<cluster, client>>

ObserveSucceeded ==
  /\ PodFound({"Succeeded"})
  /\ SetPhase("Succeeded", "HarnessCompleted")
  /\ UNCHANGED <<cluster, client>>

\* handlePodFailure: deterministic failures and an exhausted budget are
\* terminal; otherwise the failed pod is deleted, then the retry journalled.
FailTerminally ==
  /\ PodFound({"Fatal", "Retryable"})
  /\ \/ SeenPod.phase = "Fatal" /\ SetPhase("Failed", "HarnessError")
     \/ /\ SeenPod.phase = "Retryable"
        /\ BudgetExhausted(rec.run)
        /\ SetPhase("Failed", "RetryBudgetExhausted")
  /\ UNCHANGED <<cluster, client>>

RetryFailedPod ==
  /\ PodFound({"Retryable"})
  /\ ~BudgetExhausted(rec.run)
  /\ Terminate(CurrentGen)
  /\ Continue("failStatus")
  /\ UNCHANGED <<run, workspace, runSpec, cache, client>>

FailStatus ==
  /\ At("failStatus")
  /\ CurrentGen < MaxGen
  /\ Persist(Interrupted(rec.run), "idle")
  /\ UNCHANGED <<cluster, client>>

Operator ==
  \/ Reconcile \/ Admit \/ Cancel \/ CancelStatus
  \/ Resume \/ ResumeClear \/ ResumeStatus
  \/ EnterPausing \/ PausePodLost \/ Quiesce \/ Snapshot \/ CommitProof
  \/ Unquiesce \/ AbortClear \/ AbortStatus
  \/ RemoveCheckpointedPod \/ PausedStatus
  \/ RecordPosture \/ CreateWorkspacePVC \/ BeginRestore \/ RestoreStatus
  \/ WorkspaceLost \/ LostStatus \/ EnsureRunSpec
  \/ CreatePod \/ PodAdmissionForbidden \/ RecordPod \/ HandleMissingPod
  \/ ObserveNothing \/ ObservePending \/ ClearRecoveryConditions
  \/ ObserveRunning \/ ObserveSucceeded
  \/ FailTerminally \/ RetryFailedPod \/ FailStatus

-----------------------------------------------------------------------------
(* The pod's own roles (internal/podruntime), as far as they move the      *)
(* workspace: hydrate, the harness and the checkpointer.                   *)

Live(g) == pods[g].phase = "Running"
SetPodPhase(g, phase) == pods' = [pods EXCEPT ![g].phase = phase]

\* Which workspace hydrate leaves; None when it fails for good: a clone onto
\* a clone, or a mandatory restore without a checkpoint.
Hydrated(spec) ==
  CASE spec.mode = "start" -> IF disk = 0 THEN 1 ELSE None
    [] spec.mode = "resume" /\ ~spec.restore -> disk
    [] OTHER -> IF spec.pin # None THEN spec.pin ELSE latest

Hydrate(g) ==
  /\ pods[g].phase = "Pending" /\ ~pods[g].del
  /\ pvc /\ ~doomed
  /\ LET v == Hydrated(runSpec)
     IN IF v = None
        THEN SetPodPhase(g, "Fatal") /\ UNCHANGED <<disk, work>>
        ELSE /\ SetPodPhase(g, "Running")
             /\ disk' = v
             /\ work' = IF v > work THEN v ELSE work
  /\ UNCHANGED <<run, pvc, doomed, latest, runSpec, rec, cache, client>>

\* The harness changes the workspace (until it is gone, also while terminating).
Work(g) ==
  /\ Live(g) /\ ~pods[g].stopped
  /\ work < MaxWork
  /\ work' = work + 1
  /\ disk' = work + 1
  /\ UNCHANGED <<run, pods, pvc, doomed, latest, runSpec, rec, cache, client>>

\* takeCheckpoint of the periodic loop; its success is logged.
TakeCheckpoint(g) ==
  /\ CheckpointMountEnabled(run)
  /\ Live(g)
  /\ <<latest, pods[g].ck>> # <<disk, disk>>
  /\ latest' = disk
  /\ pods' = [pods EXCEPT ![g].ck = disk]
  /\ UNCHANGED <<run, pvc, doomed, disk, work, runSpec, rec, cache, client>>

\* The pod ends: completed, failed deterministically (a clone can, too), or
\* failed retryably (exit 75, OOM, eviction: also a stopped or hydrating pod).
Exit(g) ==
  /\ \/ /\ Live(g) /\ ~pods[g].stopped
        /\ \E phase \in {"Succeeded", "Fatal"} : SetPodPhase(g, phase)
     \/ pods[g].phase = "Pending" /\ SetPodPhase(g, "Fatal")
  /\ UNCHANGED <<run, workspace, runSpec, rec, cache, client>>

ExitRetryable(g) ==
  /\ Live(g) \/ pods[g].phase = "Pending"
  /\ Spend("exit")
  /\ SetPodPhase(g, "Retryable")
  /\ UNCHANGED <<run, workspace, runSpec, rec, cache, asked>>

-----------------------------------------------------------------------------
(* The cluster: kubelet, losses, informers, operator crashes.              *)

PodGone(g) ==
  /\ pods[g].del
  /\ pods' = [pods EXCEPT ![g] = NoPod]
  /\ UNCHANGED <<run, workspace, runSpec, rec, cache, client>>

\* Deleted by somebody else, gracefully or by force.
LosePod(g) ==
  /\ pods[g].phase # "Absent"
  /\ Spend("podLoss")
  /\ \/ ~pods[g].del /\ pods' = [pods EXCEPT ![g].del = TRUE]
     \/ pods' = [pods EXCEPT ![g] = NoPod]
  /\ UNCHANGED <<run, workspace, runSpec, rec, cache, asked>>

\* One incident, reported as two: the pod objects go now, the PVC later.
LoseNode ==
  /\ pvc /\ ~doomed
  /\ \E g \in Gens : pods[g].phase # "Absent"
  /\ Spend("nodeLoss")
  /\ pods' = [g \in Gens |-> NoPod]
  /\ doomed' = TRUE
  /\ UNCHANGED <<run, pvc, disk, work, latest, runSpec, rec, cache, asked>>

RemovePVC == pvc' = FALSE /\ doomed' = FALSE /\ disk' = 0

DoomedPVCGone ==
  /\ doomed
  /\ RemovePVC
  /\ UNCHANGED <<run, pods, work, latest, runSpec, rec, cache, client>>

\* PVC protection: a claim in use by a running pod is not removed.
LosePVC ==
  /\ pvc /\ ~doomed
  /\ \A g \in Gens : ~Live(g)
  /\ Spend("pvcLoss")
  /\ RemovePVC
  /\ UNCHANGED <<run, pods, work, latest, runSpec, rec, cache, asked>>

\* Each informer catches up on its own.
SyncRun ==
  /\ StaleReads
  /\ cache' = [cache EXCEPT !.run = run, !.fresh = TRUE]
  /\ UNCHANGED <<run, cluster, rec, client>>

SyncPods ==
  /\ StaleReads
  /\ cache' = [cache EXCEPT !.pods = pods]
  /\ UNCHANGED <<run, cluster, rec, client>>

SyncPVC ==
  /\ StaleReads
  /\ cache' = [cache EXCEPT !.pvc = pvc]
  /\ UNCHANGED <<run, cluster, rec, client>>

\* A crash or any failed API call: the pass is abandoned where it stands.
Crash ==
  /\ ~At("idle")
  /\ Spend("crash")
  /\ Return
  /\ UNCHANGED <<run, cluster, cache, asked>>

-----------------------------------------------------------------------------
(* StopRun, PauseRun and ResumeRun (internal/coreapi): the check of the    *)
(* live object, and later the annotation patch (no resourceVersion).       *)

MayAsk(a) ==
  CASE a = "pause" -> /\ run.phase = "Running"
                      /\ CheckpointMountEnabled(run)
                      /\ "CheckpointStorage" \in run.conds
    [] a = "resume" -> run.phase \in {"Failed", "Paused"}
    [] OTHER -> TRUE

Ask(a) ==
  /\ MayAsk(a)
  /\ Spend(a)
  /\ asked' = asked \cup {a}
  /\ UNCHANGED <<run, cluster, rec, cache>>

RequestAnnotation(a) ==
  /\ a \in asked
  /\ asked' = asked \ {a}
  /\ Supersede([run EXCEPT !.annots = @ \cup {a}])
  /\ UNCHANGED <<cluster, spent>>

-----------------------------------------------------------------------------
PodStep(g) ==
  \/ Hydrate(g) \/ Work(g) \/ TakeCheckpoint(g) \/ Exit(g) \/ ExitRetryable(g)
  \/ PodGone(g) \/ LosePod(g)

Next ==
  \/ Operator
  \/ \E g \in Gens : PodStep(g)
  \/ LoseNode \/ DoomedPVCGone \/ LosePVC \/ SyncRun \/ SyncPods \/ SyncPVC \/ Crash
  \/ \E a \in Annotations : Ask(a) \/ RequestAnnotation(a)

\* The work queue keeps reconciling, the kubelet starts and removes pods, the
\* informers catch up and an accepted call is patched.  Harness progress, losses and
\* user calls are not promised.
Fairness ==
  /\ WF_vars(Operator)
  /\ \A g \in Gens : WF_vars(Hydrate(g)) /\ WF_vars(PodGone(g))
  /\ WF_vars(DoomedPVCGone)
  /\ WF_vars(SyncRun) /\ WF_vars(SyncPods) /\ WF_vars(SyncPVC)
  /\ \A a \in Annotations : WF_vars(RequestAnnotation(a))

Spec == Init /\ [][Next]_vars
FairSpec == Spec /\ Fairness

-----------------------------------------------------------------------------
(* Properties.                                                             *)

\* What can interrupt an attempt, and the part of it that takes the disk.
DiskLosses == spent.nodeLoss + spent.pvcLoss
Incidents == spent.podLoss + spent.exit + DiskLosses

\* At most one agent works on the workspace: a replacement pod is never up
\* while the pod of an earlier attempt still runs, terminating or not
\* (ensurePod, handleMissingPod, handlePodFailure, resume).
OneAgentAtATime == \A g, h \in Gens : Live(g) /\ Live(h) => g = h

\* Paused is reported only once no agent is left running, whatever crashed or
\* raced on the way (pause, removeCheckpointedPod).
PausedHasNoAgent == run.phase = "Paused" => \A g \in Gens : ~Live(g)

\* The checkpoint a paused run is pinned to holds everything on its disk: no
\* work was done between the snapshot and the removal of the pod
\* (publishPauseCheckpoint, removeCheckpointedPod).
PausedCheckpointIsCurrent ==
  run.phase = "Paused" /\ pvc => run.lastCk = disk

\* One incident costs at most one restart, even when it is seen as a lost pod
\* and later as a lost PVC: the pod deleted for the PVC's sake is not counted
\* as a second interruption (ensurePVC, handleMissingPod).
ChargedOncePerIncident == run.restarts <= Incidents

\* A restart is charged for a loss: at most one for each pod that is lost or
\* fails and each lost disk, so at most two for a lost node, which takes both;
\* never for what the operator deletes of its own accord, wherever it crashes
\* (ensurePVC, handleMissingPod, handlePodFailure).
ChargedPerLoss == run.restarts <= Incidents + spent.nodeLoss

\* Retries stop at the budget; only the loss of a disk, which ensurePVC
\* charges without looking at the budget, can take the count past it.
RetryBudgetRespected == run.restarts <= MaxRestarts + DiskLosses

\* Once a run reads Canceled, no agent is running that has not been told to
\* stop (cancel, deleteCurrentPod).
CanceledStopsTheAgent ==
  run.phase = "Canceled" => \A g \in Gens : Live(g) => pods[g].del

\* A pause that was given up leaves no agent behind with its harness stopped, as
\* the PauseAborted message says; at most one of the exec calls fails here
\* (abortPause).
AbortedPauseLeavesHarnessRunning ==
  run.phase = "Running" /\ run.reason = "PauseAborted" /\ At("idle")
    => \A g \in Gens : Live(g) => ~pods[g].stopped

\* Succeeded and Canceled are final; Failed is left only for a new attempt,
\* one that no pod exists for yet (handleRequestedTransition, resume).
TerminalIsFinal ==
  [][/\ run.phase \in {"Succeeded", "Canceled"} => run'.phase = run.phase
     /\ run.phase = "Failed" /\ run'.phase # "Failed" =>
          /\ run'.phase = "Interrupted"
          /\ pods[AttemptGeneration(run')].phase = "Absent"]_vars

\* The attempt generation, and with it the pod name, never goes back, although
\* resume resets the retry counter (attemptGeneration, advanceAttempt).
AttemptsOnlyAdvance ==
  [][AttemptGeneration(run') >= AttemptGeneration(run)]_vars

\* Once a pod has been told to resume, no later pod is told to start afresh
\* (buildRunSpec, mode).
NoFreshStartAfterResume ==
  [][runSpec.mode = "resume" => runSpec'.mode = "resume"]_vars

\* A paused run comes back with at least the work of its pause checkpoint,
\* also when its disk was lost meanwhile (resume, ensurePVC, buildRunSpec,
\* restoreFromCheckpoint).
PausedWorkSurvives ==
  [][\A g \in Gens : pods[g].phase = "Pending" /\ pods'[g].phase = "Running"
       /\ "PauseResumePending" \in run.conds => disk' >= run.lastCk]_vars

\* The run as its readers see it.
Visible == INSTANCE AgentRunLifecycle
             WITH phase <- run.phase, attempt <- AttemptGeneration(run),
                  restarts <- run.restarts, requests <- run.annots,
                  recovering <- "Resuming" \in run.conds,
                  snapshot <- "PauseCheckpointReady" \in run.conds,
                  granted <- At("resumeStatus") /\ rec.fresh

\* However passes are interleaved, cut short or based on old reads, the status
\* moves in the steps of the lifecycle: from the phase that is visible, charged as
\* the budget says, a pause or a resume at most once per request (Reconcile,
\* handleRequestedTransition).
ImplementsLifecycle == Visible!Spec

\* A cancel request ends the run, whatever phase it arrives in.
CancelIsHonoured == "cancel" \in run.annots ~> run.phase \in Terminal

\* A pause in progress completes, is given up, or ends with the run.
PauseResolves == run.phase = "Pausing" ~> run.phase # "Pausing"

\* An interrupted run gets its next attempt or ends (ensurePVC, ensurePod).
InterruptionResolves == run.phase = "Interrupted" ~> run.phase # "Interrupted"

=============================================================================
