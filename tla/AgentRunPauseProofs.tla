------------------------ MODULE AgentRunPauseProofs ------------------------
(***************************************************************************)
(* What a pause promises, with fresh reads: a pause that was given up      *)
(* leaves no agent stopped, the checkpoint of a paused run is its          *)
(* workspace, and a run that comes back has at least that work.            *)
(***************************************************************************)
EXTENDS AgentRunSafetyProofs

-----------------------------------------------------------------------------
(* What the disk holds.                                                    *)

\* A pod that hydrate may still bring up.
Startable(g) == pods[g].phase = "Pending" /\ ~pods[g].del

\* Checkpoints and the disk, as far as agents and passes know them.
DiskInv ==
  /\ disk <= work
  /\ run.lastCk <= latest
  /\ pods[Gen].ck <= latest
  /\ \A g \in Gens : pods[g].phase \in {"Absent", "Pending"} => pods[g].ck = None
  /\ \A g \in Gens : Live(g) => pods[g].ck <= disk /\ run.lastCk <= disk
  /\ pvc => run.lastCk <= disk \/ RestoreRecorded(run)
  /\ rec.pc = "commitProof" => /\ rec.proof <= latest /\ pods[Gen].phase # "Pending"
                               /\ pvc => rec.proof <= disk
  /\ rec.pc = "podRunning" => /\ run.podName = Gen /\ pods[Gen].phase # "Pending"
                              /\ pvc => pods[Gen].ck <= disk

\* The first attempt, and what its pod is told.
FirstInv ==
  /\ run.conds \cap Recovery # {} \/ run.phase = "Interrupted" => Gen > 0
  /\ run.phase \in FirstPhases => run.lastCk = None
  /\ Gen = 0 /\ run.phase \in {"Provisioning", "Running", "Pausing", "Paused"} =>
       run.podName = Gen
  /\ Gen = 0 /\ run.lastCk # None => run.podName = Gen /\ pods[Gen].phase # "Pending"

\* A pod that may still come up, and the pass about to create one, have the
\* RunSpec of the run as it is.
SpecInv ==
  /\ Startable(Gen) => runSpec = BuildRunSpec(run)
  /\ rec.pc = "ensurePod" => runSpec = BuildRunSpec(run)

-----------------------------------------------------------------------------
(* What a pass does to steps, pods and the disk.                           *)

\* Which step of a pass comes before which.
LEMMA StepFrom ==
  ASSUME ~StaleReads, IInv, SInv, Operator
  PROVE  /\ rec'.pc = "ensurePod" => EnsureRunSpec
         /\ rec'.pc = "podRunning" => ClearRecoveryConditions
         /\ rec'.pc = "snapshot" => Quiesce
         /\ rec'.pc = "commitProof" => Snapshot
         /\ rec'.pc = "unquiesce" => Quiesce \/ Snapshot
         /\ rec'.pc = "abortClear" => Unquiesce
         /\ rec'.pc = "abortStatus" => AbortClear
<1> DEFINE steps == {"ensurePod", "podRunning", "snapshot", "commitProof", "unquiesce",
                     "abortClear", "abortStatus"}
           P == rec'.pc \notin steps
<1>s. Tracks /\ PausingHasBucket /\ PauseRequests
  BY DEF SInv
<1>1. ASSUME rec'.pc \in {"idle", "resumeClear", "resumeStatus", "pausedStatus", "failStatus",
                          "prerequisites", "runSpec", "restoreStatus", "lostStatus",
                          "cancelStatus", "recordPod", "admit", "cancel", "resume",
                          "enterPausing", "quiesce", "removePod"}
      PROVE  P
  BY <1>1
<1>2. ASSUME Ended \/ Wrote("idle") PROVE P
  BY <1>1, <1>2, EndedIsIdle DEF Wrote
<1> HIDE DEF P
<1>3. ASSUME Admit \/ CancelStatus \/ EnterPausing \/ PausePodLost \/ PausedStatus \/ LostStatus
             \/ PodAdmissionForbidden \/ ObservePending \/ ObserveSucceeded \/ FailTerminally
      PROVE  P
  BY <1>2, <1>3, <1>s, AdmitMove, CancelStatusMove, EnterPausingMove, PausePodLostMove,
     PausedStatusMove, LostStatusMove, ForbiddenMove, PendingMove, SucceededMove,
     FailTerminallyMove DEF PhaseSet
<1>4. ASSUME ResumeStatus \/ CommitProof \/ AbortStatus \/ RestoreStatus \/ RecordPod
             \/ ObserveRunning \/ HandleMissingPod \/ FailStatus \/ ObserveNothing
      PROVE  P
  BY <1>2, <1>4, <1>s, ResumeWrite, ProofWrite, AbortWrite, RestoreWrite, IdentityWrite,
     RunningWrite, MissingPodMove, FailStatusMove, NothingMove DEF PhaseSet
<1>5. ASSUME ResumeClear \/ RemoveCheckpointedPod \/ RecordPosture PROVE P
  BY <1>1, <1>2, <1>5, <1>s, ResumeClearMove, RemoveMove, PostureMove DEF Wrote
<1>6. ASSUME Cancel \/ Resume \/ WorkspaceLost \/ CreateWorkspacePVC \/ BeginRestore
             \/ CreatePod \/ RetryFailedPod
      PROVE  P
  BY <1>1, <1>6, <1>s, CancelMove, ResumeMove, WorkspaceLostMove, CreateDiskMove,
     BeginRestoreMove, CreatePodMove, RetryPodMove DEF Goes
<1>7. ASSUME Reconcile PROVE P
  BY <1>1, <1>7, <1>s, ReconcileMove
<1>8. ASSUME AbortClear PROVE P \/ rec'.pc = "abortStatus"
  BY <1>2, <1>8, AbortClearMove DEF Wrote
<1>9. ASSUME ClearRecoveryConditions PROVE P \/ rec'.pc = "podRunning"
  BY <1>2, <1>9, <1>s, ClearMove DEF Wrote
<1>10. ASSUME EnsureRunSpec PROVE rec'.pc = "ensurePod"
  BY <1>10, <1>s, RunSpecMove DEF Goes
<1>11. ASSUME Quiesce PROVE rec'.pc \in {"snapshot", "unquiesce"}
  BY <1>11, <1>s, QuiesceMove DEF Goes, Signalled
<1>12. ASSUME Unquiesce PROVE rec'.pc = "abortClear"
  BY <1>12, <1>s, UnquiesceMove DEF Goes, Signalled
<1>13. ASSUME Snapshot PROVE rec'.pc \in {"commitProof", "unquiesce"}
  BY <1>13, <1>s, SnapshotMove DEF Goes
<1>14. P => rec'.pc \notin steps
  BY DEF P
<1>15. QED
  BY <1>3, <1>4, <1>5, <1>6, <1>7, <1>8, <1>9, <1>10, <1>11, <1>12, <1>13, <1>14 DEF Operator

\* What a pass does to a pod: it is left as it is, told to leave, signalled,
\* removed or created.
LEMMA PodsByPass ==
  ASSUME ~StaleReads, IInv, SInv, Operator, NEW g \in Gens
  PROVE  \/ /\ pods'[g].phase = pods[g].phase /\ pods'[g].ck = pods[g].ck
            /\ pods[g].del => pods'[g].del
         \/ pods'[g] = NoPod
         \/ CreatePod /\ g = Gen /\ pods'[g] = FreshPod
<1> DEFINE P == \/ /\ pods'[g].phase = pods[g].phase /\ pods'[g].ck = pods[g].ck
                   /\ pods[g].del => pods'[g].del
                \/ pods'[g] = NoPod
                \/ CreatePod /\ g = Gen /\ pods'[g] = FreshPod
<1> SUFFICES P
  OBVIOUS
<1>s. Tracks
  BY DEF SInv
<1>t. pods \in [Gens -> Pods] /\ Gen \in Gens
  BY GenType DEF IInv, WorldTypes, ObjectTypes, Gen
<1>1. ASSUME pods' = pods PROVE P
  BY <1>1
<1>2. ASSUME NEW h \in Gens, pods' = [pods EXCEPT ![h].del = TRUE] PROVE P
  BY <1>2, <1>t DEF Pods
<1>3. ASSUME NEW h \in Gens, pods' = [pods EXCEPT ![h] = NoPod] PROVE P
  BY <1>3, <1>t
<1>4. ASSUME NEW stop \in BOOLEAN, pods' = [pods EXCEPT ![Gen].stopped = stop] PROVE P
  BY <1>4, <1>t DEF Pods
<1>5. ASSUME CreatePod PROVE P
  <2>1. pods' = [pods EXCEPT ![Gen] = FreshPod]
    BY <1>5, <1>s, CreatePodMove
  <2>2. QED
    BY <1>5, <1>t, <2>1
<1> HIDE DEF P
<1>6. ASSUME Cancel \/ Resume \/ BeginRestore \/ WorkspaceLost PROVE P
  BY <1>1, <1>2, <1>6, <1>s, <1>t, CancelMove, ResumeMove, BeginRestoreMove,
     WorkspaceLostMove DEF PodDeleted
<1>7. ASSUME RetryFailedPod PROVE P
  BY <1>2, <1>7, <1>s, <1>t, RetryPodMove
<1>8. ASSUME RemoveCheckpointedPod PROVE P
  BY <1>1, <1>3, <1>8, <1>s, <1>t, RemoveMove
<1>9. ASSUME Quiesce \/ Unquiesce PROVE P
  BY <1>1, <1>4, <1>9, <1>s, QuiesceMove, UnquiesceMove DEF Signalled
<1>10. ASSUME Reconcile \/ Admit \/ CancelStatus \/ ResumeClear \/ ResumeStatus \/ EnterPausing
              \/ PausePodLost \/ Snapshot \/ CommitProof \/ AbortClear \/ AbortStatus
              \/ PausedStatus \/ RecordPosture \/ CreateWorkspacePVC \/ RestoreStatus
              \/ LostStatus \/ EnsureRunSpec \/ PodAdmissionForbidden \/ RecordPod
              \/ HandleMissingPod \/ ObserveNothing \/ ObservePending
              \/ ClearRecoveryConditions \/ ObserveRunning \/ ObserveSucceeded
              \/ FailTerminally \/ FailStatus
       PROVE  P
  BY <1>1, <1>10 DEF Reconcile, Admit, CancelStatus, ResumeClear, ResumeStatus,
     EnterPausing, PausePodLost, Snapshot, CommitProof, AbortClear, AbortStatus,
     PausedStatus, RecordPosture, CreateWorkspacePVC, RestoreStatus, LostStatus,
     EnsureRunSpec, PodAdmissionForbidden, RecordPod, HandleMissingPod, ObserveNothing,
     ObservePending, ClearRecoveryConditions, ObserveRunning, ObserveSucceeded,
     FailTerminally, FailStatus, cluster
<1>11. QED
  BY <1>5, <1>6, <1>7, <1>8, <1>9, <1>10 DEF Operator

\* What a pass does to the disk, the checkpoints and the RunSpec.
LEMMA WorkspaceMoves ==
  ASSUME ~StaleReads, IInv, SInv, Operator
  PROVE  /\ work' = work
         /\ (disk' = disk /\ pvc' = pvc) \/ (CreateWorkspacePVC /\ disk' = 0 /\ ~pvc)
         /\ latest' = latest \/ (Live(Gen) /\ latest' = disk /\ Snapshot)
         /\ runSpec' = runSpec \/ EnsureRunSpec
<1>s. Tracks
  BY DEF SInv
<1>1. CASE CreateWorkspacePVC
  BY <1>1, <1>s, CreateDiskMove
<1>2. CASE Snapshot
  BY <1>2, <1>s, SnapshotMove
<1>3. CASE EnsureRunSpec
  BY <1>3, <1>s, RunSpecMove DEF workspace
<1>4. CASE ~CreateWorkspacePVC /\ ~Snapshot /\ ~EnsureRunSpec
  BY <1>4 DEF Operator, workspace, cluster, Reconcile, Admit, Cancel, CancelStatus, Resume,
     ResumeClear, ResumeStatus, EnterPausing, PausePodLost, Quiesce, CommitProof,
     Unquiesce, AbortClear, AbortStatus, RemoveCheckpointedPod, PausedStatus, RecordPosture,
     BeginRestore, RestoreStatus, WorkspaceLost, LostStatus, CreatePod,
     PodAdmissionForbidden, RecordPod, HandleMissingPod, ObserveNothing, ObservePending,
     ClearRecoveryConditions, ObserveRunning, ObserveSucceeded, FailTerminally,
     RetryFailedPod, FailStatus
<1>5. QED
  BY <1>1, <1>2, <1>3, <1>4

\* A run is interrupted, or put into recovery, only by the next attempt or in a
\* recovery that is under way.
LEMMA RecoveryMoves ==
  ASSUME ~StaleReads, IInv, SInv, Operator
  PROVE  \/ /\ run'.conds \cap Recovery \subseteq run.conds
            /\ run'.phase = "Interrupted" => run.phase = "Interrupted"
         \/ Gen' = Gen + 1
         \/ "Resuming" \in run.conds
<1> DEFINE P == \/ /\ run'.conds \cap Recovery \subseteq run.conds
                   /\ run'.phase = "Interrupted" => run.phase = "Interrupted"
                \/ Gen' = Gen + 1
                \/ "Resuming" \in run.conds
<1> SUFFICES P
  OBVIOUS
<1>s. Tracks /\ PausingHasBucket /\ PauseRequests
  BY DEF SInv
<1>0. ASSUME run' = run PROVE P
  BY <1>0
<1>1. ASSUME Ended PROVE P
  BY <1>0, <1>1 DEF Ended
<1>2. ASSUME NEW p, NEW why, PhaseSet(p, why), p # "Interrupted" PROVE P
  BY <1>2 DEF PhaseSet, SameConds
<1>3. ASSUME run'.conds \cap Recovery \subseteq run.conds,
             SamePhase \/ run'.phase = "Running"
      PROVE  P
  BY <1>3 DEF SamePhase
<1>4. ASSUME Gen' = Gen + 1 \/ "Resuming" \in run.conds PROVE P
  BY <1>4
<1> HIDE DEF P
<1>5. ASSUME Admit \/ CancelStatus \/ EnterPausing \/ PausePodLost \/ PausedStatus \/ LostStatus
             \/ PodAdmissionForbidden \/ ObservePending \/ ObserveSucceeded \/ FailTerminally
      PROVE  P
  BY <1>1, <1>2, <1>5, <1>s, AdmitMove, CancelStatusMove, EnterPausingMove, PausePodLostMove,
     PausedStatusMove, LostStatusMove, ForbiddenMove, PendingMove, SucceededMove,
     FailTerminallyMove
<1>6. ASSUME ResumeClear \/ AbortClear \/ RemoveCheckpointedPod \/ RecordPod PROVE P
  BY <1>1, <1>3, <1>6, <1>s, ResumeClearMove, AbortClearMove, RemoveMove, IdentityWrite
     DEF SameConds
<1>7. ASSUME ObserveRunning PROVE P
  BY <1>1, <1>3, <1>7, RunningWrite DEF SameConds
<1>8. ASSUME CommitProof PROVE P
  <2>1. ASSUME run'.conds = run.conds \cup {"PauseCheckpointReady"}
        PROVE  run'.conds \cap Recovery \subseteq run.conds
    BY <2>1 DEF Recovery
  <2>2. QED
    BY <1>1, <1>3, <1>8, <2>1, ProofWrite
<1>9. ASSUME AbortStatus PROVE P
  <2>1. ASSUME run'.conds = run.conds \ {"PauseCheckpointReady"}
        PROVE  run'.conds \cap Recovery \subseteq run.conds
    BY <2>1
  <2>2. QED
    BY <1>1, <1>3, <1>9, <2>1, AbortWrite
<1>10. ASSUME RecordPosture PROVE P
  <2>1. ASSUME NEW c \in Posture, run'.conds = run.conds \cup {c}
        PROVE  run'.conds \cap Recovery \subseteq run.conds
    BY <2>1 DEF Recovery, Posture
  <2>2. QED
    BY <1>1, <1>3, <1>10, <2>1, PostureMove
<1>11. ASSUME ClearRecoveryConditions PROVE P
  BY <1>1, <1>3, <1>11, <1>s, ClearMove
<1>12. ASSUME ResumeStatus \/ FailStatus \/ RestoreStatus PROVE P
  BY <1>1, <1>4, <1>12, ResumeWrite, FailStatusMove, RestoreWrite
<1>13. ASSUME HandleMissingPod PROVE P
  BY <1>1, <1>2, <1>4, <1>13, <1>s, MissingPodMove
<1>14. ASSUME Reconcile \/ Cancel \/ Resume \/ Quiesce \/ Snapshot \/ Unquiesce
              \/ CreateWorkspacePVC \/ BeginRestore \/ WorkspaceLost \/ EnsureRunSpec
              \/ CreatePod \/ RetryFailedPod \/ ObserveNothing
       PROVE  P
  BY <1>0, <1>14 DEF Reconcile, Cancel, Resume, Quiesce, Snapshot, Unquiesce,
     CreateWorkspacePVC, BeginRestore, WorkspaceLost, EnsureRunSpec, CreatePod,
     RetryFailedPod, ObserveNothing
<1>15. QED
  BY <1>5, <1>6, <1>7, <1>8, <1>9, <1>10, <1>11, <1>12, <1>13, <1>14 DEF Operator

\* Attempts are numbers and versions compare.
LEMMA DiskTypes ==
  ASSUME IInv
  PROVE  /\ disk \in Nat /\ work \in Nat /\ Gen \in Nat /\ Gen \in Gens
         /\ latest \in Nat \cup {None} /\ run.lastCk \in Nat \cup {None}
         /\ rec.proof \in Nat \cup {None}
         /\ \A g \in Gens : pods[g].ck \in Nat \cup {None}
         /\ None \in Int /\ None < 0
<1>1. Versions \subseteq Nat /\ Gens \subseteq Nat
  BY OperatorConstants DEF Versions, Gens
<1>2. Gen \in Gens
  BY GenType DEF Gen, IInv, ObjectTypes
<1>3. run.lastCk \in Versions \cup {None} /\ rec.proof \in Versions \cup {None}
  BY DEF IInv, ObjectTypes, Runs
<1>4. /\ disk \in Versions /\ work \in Versions /\ latest \in Versions \cup {None}
      /\ \A g \in Gens : pods[g].ck \in Versions \cup {None}
  BY DEF IInv, WorldTypes, Pods
<1>5. None \in Int /\ None < 0
  BY DEF None
<1>6. QED
  BY <1>1, <1>2, <1>3, <1>4, <1>5

\* The step that follows a snapshot records it.
LEMMA CommitOf ==
  ASSUME Operator, rec.pc = "commitProof"
  PROVE  CommitProof
BY DEF Operator, At, PodMissing, PodFound, MissingPVC, Reconcile, Admit, Cancel, CancelStatus,
   Resume, ResumeClear, ResumeStatus, EnterPausing, PausePodLost, Quiesce, Snapshot,
   Unquiesce, AbortClear, AbortStatus, RemoveCheckpointedPod, PausedStatus, RecordPosture,
   CreateWorkspacePVC, BeginRestore, RestoreStatus, WorkspaceLost, LostStatus, EnsureRunSpec,
   CreatePod, PodAdmissionForbidden, RecordPod, HandleMissingPod, ObserveNothing,
   ObservePending, ClearRecoveryConditions, ObserveRunning, ObserveSucceeded, FailTerminally,
   RetryFailedPod, FailStatus

\* The checkpoint a pass records: the proof of a pause, or what the log of a pod
\* that came up reports.
LEMMA RecordedCheckpoint ==
  ASSUME ~StaleReads, IInv, SInv, DiskInv, Operator, run'.lastCk # run.lastCk
  PROVE  /\ Gen' = Gen /\ rec'.pc = "idle" /\ run'.podName = run.podName
         /\ run'.conds \ {"PauseCheckpointReady"} = run.conds \ {"PauseCheckpointReady"}
         /\ run'.phase \in {"Pausing", "Running"}
         /\ pods' = pods /\ disk' = disk /\ pvc' = pvc /\ latest' = latest
         /\ pods[Gen].phase # "Pending"
         /\ run'.lastCk <= latest /\ (pvc => run'.lastCk <= disk)
         /\ \/ run.phase = "Pausing" /\ run'.phase = "Pausing"
            \/ run.podName = Gen
<1>s. Tracks
  BY DEF SInv
<1>t. /\ run.lastCk \in Nat \cup {None} /\ None \in Int /\ None < 0 /\ Gen \in Gens
      /\ pods[Gen].ck \in Nat \cup {None}
  BY DiskTypes
<1>1. CASE rec.pc = "commitProof" /\ Wrote("idle") /\ run'.lastCk = rec.proof
  <2>1. CommitProof
    BY <1>1, CommitOf
  <2>2. /\ run'.conds = run.conds \cup {"PauseCheckpointReady"}
        /\ run'.podName = run.podName /\ SameAttempt /\ SamePhase
    BY <2>1, ProofWrite DEF Ended
  <2>3. run.phase = "Pausing"
    BY <1>s, <1>1, PassKnows DEF ProofSteps
  <2>4. UNCHANGED <<cluster, client>>
    BY <2>1 DEF CommitProof
  <2>5. /\ rec.proof <= latest /\ pods[Gen].phase # "Pending"
        /\ pvc => rec.proof <= disk
    BY <1>1 DEF DiskInv
  <2>6. rec'.pc = "idle"
    BY <1>1 DEF Wrote
  <2>7. QED
    BY <1>1, <2>2, <2>3, <2>4, <2>5, <2>6 DEF SameAttempt, SamePhase, cluster, workspace
<1>2. CASE /\ ObserveRunning /\ Wrote("idle")
           /\ run'.lastCk = pods[Gen].ck /\ pods[Gen].ck > run.lastCk
  <2>1. /\ run'.phase = "Running" /\ run'.podName = run.podName /\ SameAttempt /\ SameConds
    BY <1>2, RunningWrite DEF Ended
  <2>2. /\ UNCHANGED <<cluster, client>>
        /\ \/ rec.pc = "podRunning"
           \/ rec.pc = "ensurePod" /\ run.podName = Gen /\ ~pods[Gen].del /\ Live(Gen)
    BY <1>2, <1>s, RunningMove
  <2>3. run.podName = Gen /\ pods[Gen].phase # "Pending" /\ (pvc => pods[Gen].ck <= disk)
    BY <1>t, <2>2 DEF DiskInv, Live
  <2>4. pods[Gen].ck <= latest
    BY DEF DiskInv
  <2>5. rec'.pc = "idle"
    BY <1>2 DEF Wrote
  <2>6. QED
    BY <1>2, <2>1, <2>2, <2>3, <2>4, <2>5 DEF SameAttempt, SameConds, cluster, workspace
<1>3. QED
  BY <1>1, <1>2, RecordMoves

-----------------------------------------------------------------------------
(* The first attempt.                                                      *)

\* A run whose first attempt goes on stays with the pod recorded for it.
LEMMA PodNameMoves ==
  ASSUME ~StaleReads, IInv, SInv, FirstInv, Operator, Gen' = 0
  PROVE  Gen = 0 /\ (run.podName = Gen => run'.podName = Gen')
<1>t. Gen \in Nat
  BY DiskTypes
<1>1. Gen = 0
  BY <1>t, RecordMoves DEF NextAttempt
<1>2. \/ run'.podName = run.podName
      \/ RecordPod /\ run'.podName = Gen
      \/ RestoreStatus /\ run'.podName = None
  BY RecordMoves
<1>3. CASE RestoreStatus
  <2>1. "Resuming" \notin run.conds
    BY <1>t, <1>1 DEF FirstInv, Recovery
  <2>2. Ended \/ Gen' = Gen + 1
    BY <1>3, <2>1, RestoreWrite
  <2>3. run' = run
    BY <1>1, <2>2 DEF Ended
  <2>4. QED
    BY <1>1, <2>3
<1>4. CASE ~RestoreStatus
  BY <1>1, <1>2, <1>4
<1>5. QED
  BY <1>3, <1>4

\* A pass keeps FirstInv.
LEMMA FirstMoves ==
  ASSUME ~StaleReads, IInv, SInv, DiskInv, FirstInv, Operator
  PROVE  FirstInv'
<1>s. Tracks /\ PauseRequests
  BY DEF SInv
<1>t. Gen \in Nat /\ Gen \in Gens
  BY DiskTypes
<1>n. Gen' = Gen \/ (Gen' = Gen + 1 /\ pods' = pods /\ run'.phase = "Interrupted")
  BY RecordMoves DEF NextAttempt
<1>p. run'.phase # run.phase => rec.run = run /\ rec'.pc = "idle" /\ Leads(rec.pc, run'.phase)
  BY ObjectMoves
<1>1. (run.conds \cap Recovery # {} \/ run.phase = "Interrupted" => Gen > 0)'
  <2>1. Gen > 0 => Gen' > 0
    BY <1>t, <1>n
  <2>2. Gen' = Gen + 1 => Gen' > 0
    BY <1>t
  <2>3. "Resuming" \in run.conds => Gen > 0
    BY DEF FirstInv, Recovery
  <2>4. ASSUME run'.conds \cap Recovery \subseteq run.conds,
               run'.phase = "Interrupted" => run.phase = "Interrupted",
               run'.conds \cap Recovery # {} \/ run'.phase = "Interrupted"
        PROVE  Gen > 0
    BY <2>4 DEF FirstInv
  <2>5. QED
    BY <2>1, <2>2, <2>3, <2>4, RecoveryMoves
<1>2. (run.phase \in FirstPhases => run.lastCk = None)'
  <2>1. CASE run'.lastCk = run.lastCk
    <3>1. run'.phase \in FirstPhases => run.phase \in FirstPhases
      BY PhaseLeft
    <3>2. QED
      BY <2>1, <3>1 DEF FirstInv
  <2>2. CASE run'.lastCk # run.lastCk
    BY <2>2, RecordedCheckpoint DEF FirstPhases
  <2>3. QED
    BY <2>1, <2>2
<1>3. ASSUME Gen' = 0, run'.phase \in {"Provisioning", "Running", "Pausing", "Paused"}
      PROVE  run'.podName = Gen'
  <2>1. Gen = 0 /\ (run.podName = Gen => run'.podName = Gen')
    BY <1>3, PodNameMoves
  <2> SUFFICES run.podName = Gen
    BY <2>1
  <2>2. CASE run'.phase = run.phase
    BY <1>3, <2>1, <2>2 DEF FirstInv
  <2>3. CASE run'.phase # run.phase
    <3>1. \/ rec.pc \in {"enterPausing", "pausedStatus", "abortStatus"}
          \/ rec.pc = "podRunning"
          \/ rec.pc = "ensurePod" /\ run'.phase \in {"Running", "Provisioning"}
      BY <1>3, <1>p, <2>3 DEF Leads
    <3>2. CASE rec.pc \in {"enterPausing", "pausedStatus", "abortStatus"}
      <4>1. run.phase \notin Terminal \cup {"", "Pending", "Interrupted"}
        <5>1. run.phase # "Interrupted"
          BY <2>1, <1>t DEF FirstInv
        <5>2. run.phase \notin Terminal \cup {"", "Pending"}
          BY <1>s, <3>2, PassKnows DEF PauseRequests, AbortSteps, RemovalSteps, Terminal
        <5>3. QED
          BY <5>1, <5>2
      <4>2. run.phase \in Phases
        BY DEF IInv, ObjectTypes, Runs
      <4>3. run.phase \in {"Provisioning", "Running", "Pausing", "Paused"}
        BY <4>1, <4>2 DEF Phases
      <4>4. QED
        BY <2>1, <4>3 DEF FirstInv
    <3>3. CASE rec.pc = "podRunning"
      BY <3>3 DEF DiskInv
    <3>4. CASE rec.pc = "ensurePod" /\ run'.phase \in {"Running", "Provisioning"}
      <4>1. ObservePending \/ ObserveRunning
        <5>1. ASSUME NEW p, NEW why, PhaseSet(p, why) PROVE run'.phase = p
          BY <5>1 DEF PhaseSet
        <5>2. ~Ended
          BY <2>3 DEF Ended
        <5>3. ~PodAdmissionForbidden /\ ~ObserveSucceeded /\ ~FailTerminally
          BY <1>s, <3>4, <5>1, <5>2, ForbiddenMove, SucceededMove, FailTerminallyMove
        <5>4. ~HandleMissingPod
          BY <1>s, <3>4, <5>1, <5>2, MissingPodMove
        <5>5. ~ClearRecoveryConditions /\ ~RecordPod
          BY <1>s, <2>3, <5>2, ClearMove, IdentityWrite DEF SamePhase
        <5>6. run' # run
          BY <2>3
        <5>7. QED
          BY <3>4, <5>2, <5>3, <5>4, <5>5, <5>6, NothingMove
             DEF Operator, At, PodMissing, MissingPVC, Reconcile, Admit, Cancel, CancelStatus,
             Resume, ResumeClear, ResumeStatus, EnterPausing, PausePodLost, Quiesce, Snapshot,
             CommitProof, Unquiesce, AbortClear, AbortStatus, RemoveCheckpointedPod,
             PausedStatus, RecordPosture, CreateWorkspacePVC, BeginRestore, RestoreStatus,
             WorkspaceLost, LostStatus, EnsureRunSpec, CreatePod, RetryFailedPod, FailStatus
      <4>2. QED
        BY <1>s, <3>4, <4>1, PendingMove, RunningMove
    <3>5. QED
      BY <3>1, <3>2, <3>3, <3>4
  <2>4. QED
    BY <2>2, <2>3
<1>4. ASSUME Gen' = 0, run'.lastCk # None
      PROVE  run'.podName = Gen' /\ pods'[Gen'].phase # "Pending"
  <2>1. Gen = 0 /\ (run.podName = Gen => run'.podName = Gen')
    BY <1>4, PodNameMoves
  <2>2. run.podName = Gen /\ pods[Gen].phase # "Pending"
    <3>1. CASE run'.lastCk = run.lastCk
      BY <1>4, <2>1, <3>1 DEF FirstInv
    <3>2. CASE run'.lastCk # run.lastCk
      BY <2>1, <3>2, RecordedCheckpoint DEF FirstInv
    <3>3. QED
      BY <3>1, <3>2
  <2>3. ~CreatePod
    BY <1>s, <2>2, CreatePodMove
  <2>4. pods'[Gen].phase = pods[Gen].phase \/ pods'[Gen].phase = "Absent"
    BY <1>t, <2>3, PodsByPass DEF NoPod
  <2>5. QED
    BY <1>4, <2>1, <2>2, <2>4
<1>5. QED
  BY <1>1, <1>2, <1>3, <1>4 DEF FirstInv

-----------------------------------------------------------------------------
(* The disk and its checkpoints.                                           *)

\* A pass starts no agent, and what runs after its step keeps its disk.
LEMMA LiveMoves ==
  ASSUME ~StaleReads, IInv, SInv, Operator, NEW g \in Gens, Live(g)'
  PROVE  Live(g) /\ pods'[g].ck = pods[g].ck /\ disk' = disk /\ pvc
<1>1. Live(g) /\ pods'[g].ck = pods[g].ck
  BY PodsByPass DEF Live, NoPod, FreshPod
<1>2. pvc
  BY <1>1 DEF SInv, Mounted
<1>3. QED
  BY <1>1, <1>2, WorkspaceMoves

\* A pass keeps DiskInv.
LEMMA CheckpointMoves ==
  ASSUME ~StaleReads, IInv, SInv, DiskInv, FirstInv, Operator
  PROVE  DiskInv'
<1>s. Tracks
  BY DEF SInv
<1>t. /\ disk \in Nat /\ work \in Nat /\ Gen \in Gens
      /\ latest \in Nat \cup {None} /\ run.lastCk \in Nat \cup {None}
      /\ \A g \in Gens : pods[g].ck \in Nat \cup {None}
      /\ None \in Int /\ None < 0
  BY DiskTypes
<1>u. Gen' \in Gens
  <2>1. run' \in Runs
    BY InvStep DEF Next, IInv, ObjectTypes
  <2>2. QED
    BY <2>1, GenType DEF Gen
<1>w. /\ work' = work
      /\ (disk' = disk /\ pvc' = pvc) \/ (CreateWorkspacePVC /\ disk' = 0 /\ ~pvc)
      /\ latest' = latest \/ (Live(Gen) /\ latest' = disk /\ Snapshot)
  BY WorkspaceMoves
<1>1. (disk <= work)'
  BY <1>t, <1>w DEF DiskInv
<1>2. (run.lastCk <= latest)'
  <2>1. CASE run'.lastCk = run.lastCk
    <3>1. Live(Gen) => run.lastCk <= disk
      BY <1>t DEF DiskInv
    <3>2. run.lastCk <= latest
      BY DEF DiskInv
    <3>3. QED
      BY <1>w, <2>1, <3>1, <3>2
  <2>2. CASE run'.lastCk # run.lastCk
    BY <2>2, RecordedCheckpoint
  <2>3. QED
    BY <2>1, <2>2
<1>3. (\A g \in Gens : pods[g].phase \in {"Absent", "Pending"} => pods[g].ck = None)'
  <2> SUFFICES ASSUME NEW g \in Gens, pods'[g].phase \in {"Absent", "Pending"}
               PROVE  pods'[g].ck = None
    OBVIOUS
  <2>1. CASE pods'[g].phase = pods[g].phase /\ pods'[g].ck = pods[g].ck
    BY <2>1 DEF DiskInv
  <2>2. CASE pods'[g] = NoPod \/ pods'[g] = FreshPod
    BY <2>2 DEF NoPod, FreshPod
  <2>3. QED
    BY <2>1, <2>2, PodsByPass
<1>4. (pods[Gen].ck <= latest)'
  <2>1. CASE Gen' = Gen
    <3>1. pods'[Gen].ck = pods[Gen].ck \/ pods'[Gen].ck = None
      BY <1>t, PodsByPass DEF NoPod, FreshPod
    <3>2. pods[Gen].ck <= latest /\ (Live(Gen) => pods[Gen].ck <= disk)
      BY <1>t DEF DiskInv
    <3>3. pods[Gen].ck <= latest' /\ None <= latest'
      BY <1>t, <1>w, <3>2
    <3>4. QED
      BY <2>1, <3>1, <3>3
  <2>2. CASE Gen' # Gen
    <3>1. Gen' = Gen + 1 /\ pods' = pods
      BY <2>2, RecordMoves DEF NextAttempt
    <3>2. Gen \in Nat /\ ~(Gen' <= Gen)
      BY <3>1, DiskTypes
    <3>3. pods[Gen'].phase = "Absent"
      BY <1>u, <3>2 DEF IInv, NoFuturePods, Gen
    <3>4. pods'[Gen'].ck = None
      BY <1>u, <3>1, <3>3 DEF DiskInv
    <3>5. None <= latest'
      BY <1>t, <1>w
    <3>6. QED
      BY <3>4, <3>5
  <2>3. QED
    BY <2>1, <2>2
<1>5. (\A g \in Gens : Live(g) => pods[g].ck <= disk /\ run.lastCk <= disk)'
  <2> SUFFICES ASSUME NEW g \in Gens, Live(g)'
               PROVE  pods'[g].ck <= disk' /\ run'.lastCk <= disk'
    OBVIOUS
  <2>1. Live(g) /\ pods'[g].ck = pods[g].ck /\ disk' = disk /\ pvc
    BY LiveMoves
  <2>2. pods[g].ck <= disk /\ run.lastCk <= disk
    BY <2>1 DEF DiskInv
  <2>3. run'.lastCk # run.lastCk => run'.lastCk <= disk
    BY <2>1, RecordedCheckpoint
  <2>4. QED
    BY <2>1, <2>2, <2>3
<1>6. (pvc => run.lastCk <= disk \/ RestoreRecorded(run))'
  <2>1. CASE CreateWorkspacePVC
    <3>1. run' = run /\ disk' = 0 /\ (run.phase = "Pending" \/ RestoreRecorded(run))
      BY <1>s, <2>1, CreateDiskMove DEF Goes
    <3>2. run.phase = "Pending" => run.lastCk = None
      BY DEF FirstInv, FirstPhases
    <3>3. QED
      BY <1>t, <3>1, <3>2
  <2>2. CASE ~CreateWorkspacePVC /\ run'.lastCk # run.lastCk
    BY <2>2, RecordedCheckpoint
  <2>3. CASE ~CreateWorkspacePVC /\ run'.lastCk = run.lastCk
    <3>1. disk' = disk /\ pvc' = pvc
      BY <1>w, <2>3
    <3>2. RestoreRecorded(run) => RestoreRecorded(run') \/ Live(Gen)
      BY CondsMoves DEF RestoreRecorded, Recovery
    <3>3. Live(Gen) => run.lastCk <= disk
      BY <1>t DEF DiskInv
    <3>4. QED
      BY <2>3, <3>1, <3>2, <3>3 DEF DiskInv
  <2>4. QED
    BY <2>1, <2>2, <2>3
<1>7. ASSUME rec'.pc = "commitProof"
      PROVE  /\ rec'.proof <= latest' /\ pods'[Gen'].phase # "Pending"
             /\ pvc' => rec'.proof <= disk'
  <2>1. Snapshot
    BY <1>7, StepFrom
  <2>2. /\ run' = run /\ UNCHANGED <<pods, pvc, disk>>
        /\ Live(Gen) /\ latest' = disk /\ rec'.proof = disk
    BY <1>7, <1>s, <2>1, SnapshotMove DEF Goes
  <2>3. Gen' = Gen
    BY <2>2 DEF Gen
  <2>4. QED
    BY <1>t, <2>2, <2>3 DEF Live
<1>8. ASSUME rec'.pc = "podRunning"
      PROVE  /\ run'.podName = Gen' /\ pods'[Gen'].phase # "Pending"
             /\ pvc' => pods'[Gen'].ck <= disk'
  <2>1. ClearRecoveryConditions
    BY <1>8, StepFrom
  <2>2. ~Ended
    BY <1>8, EndedIsIdle
  <2>3. /\ run.podName = Gen /\ Live(Gen) /\ UNCHANGED <<cluster, client>>
        /\ SameAttempt /\ SameRecords
    BY <1>s, <2>1, <2>2, ClearMove
  <2>4. pods[Gen].ck <= disk
    BY <1>t, <2>3 DEF DiskInv
  <2>5. QED
    BY <2>3, <2>4 DEF SameAttempt, SameRecords, Live, cluster, workspace
<1>9. QED
  BY <1>1, <1>2, <1>3, <1>4, <1>5, <1>6, <1>7, <1>8 DEF DiskInv

-----------------------------------------------------------------------------
(* The RunSpec.                                                            *)

\* What a RunSpec depends on.
LEMMA SameRunSpec ==
  ASSUME Gen' = Gen, run'.lastCk = run.lastCk,
         run'.conds \cap Recovery = run.conds \cap Recovery
  PROVE  BuildRunSpec(run') = BuildRunSpec(run)
<1>1. /\ "WorkspaceRestorePending" \in run'.conds <=> "WorkspaceRestorePending" \in run.conds
      /\ "PauseResumePending" \in run'.conds <=> "PauseResumePending" \in run.conds
  BY DEF Recovery
<1>2. AttemptGeneration(run') = AttemptGeneration(run)
  BY DEF Gen
<1>3. QED
  BY <1>1, <1>2 DEF BuildRunSpec

\* A pass keeps SpecInv.
LEMMA SpecMoves ==
  ASSUME ~StaleReads, IInv, SInv, DiskInv, SpecInv, Operator
  PROVE  SpecInv'
<1>s. Tracks
  BY DEF SInv
<1>t. Gen \in Gens /\ Gen \in Nat
  BY DiskTypes
<1>1. ASSUME rec'.pc = "ensurePod" PROVE runSpec' = BuildRunSpec(run')
  <2>1. EnsureRunSpec
    BY <1>1, StepFrom
  <2>2. QED
    BY <1>s, <2>1, RunSpecMove DEF Goes
<1>2. ASSUME Startable(Gen)' PROVE runSpec' = BuildRunSpec(run')
  <2>1. Gen' = Gen
    <3>1. CASE NextAttempt
      <4>1. Gen' = Gen + 1 /\ pods' = pods
        BY <3>1 DEF NextAttempt
      <4>2. run' \in Runs
        BY InvStep DEF Next, IInv, ObjectTypes
      <4>3. Gen' \in Gens
        BY <4>2, GenType DEF Gen
      <4>4. pods[Gen'].phase = "Absent"
        BY <1>t, <4>1, <4>3 DEF IInv, NoFuturePods, Gen
      <4>5. QED
        BY <1>2, <4>1, <4>4 DEF Startable
    <3>2. QED
      BY <3>1, RecordMoves
  <2>2. CASE EnsureRunSpec
    BY <1>s, <2>2, RunSpecMove DEF Goes
  <2>3. CASE CreatePod
    <3>1. rec.pc = "ensurePod" /\ run' = run /\ runSpec' = runSpec
      BY <1>s, <2>3, CreatePodMove DEF Goes
    <3>2. QED
      BY <3>1 DEF SpecInv
  <2>4. CASE ~EnsureRunSpec /\ ~CreatePod
    <3>1. Startable(Gen)
      <4>1. pods'[Gen].phase = "Pending" /\ ~pods'[Gen].del
        BY <1>2, <2>1 DEF Startable
      <4>2. QED
        BY <1>t, <2>4, <4>1, PodsByPass DEF Startable, NoPod
    <3>2. runSpec' = runSpec
      BY <2>4, WorkspaceMoves
    <3>3. run'.lastCk = run.lastCk
      BY <3>1, RecordedCheckpoint DEF Startable
    <3>4. ~Live(Gen) /\ ~Quiet(Gen)
      BY <3>1 DEF Startable, Live, Quiet
    <3>5. rec.pc # "restoreStatus"
      BY <3>4 DEF SInv, Quietness
    <3>6. rec.pc # "resumeStatus"
      <4>1. ASSUME rec.pc = "resumeStatus" PROVE run.phase \in Halted
        BY <1>s, <4>1, ResumeKnows DEF ResumeSteps
      <4>2. QED
        BY <1>t, <3>4, <4>1 DEF SInv, Quietness
    <3>7. /\ "WorkspaceRestorePending" \in run'.conds <=> "WorkspaceRestorePending" \in run.conds
          /\ "PauseResumePending" \in run'.conds <=> "PauseResumePending" \in run.conds
      BY <3>4, <3>5, <3>6, CondsMoves DEF Posture
    <3>8. AttemptGeneration(run') = AttemptGeneration(run)
      BY <2>1 DEF Gen
    <3>9. BuildRunSpec(run') = BuildRunSpec(run)
      BY <3>3, <3>7, <3>8 DEF BuildRunSpec
    <3>10. QED
      BY <3>1, <3>2, <3>9 DEF SpecInv
  <2>5. QED
    BY <2>2, <2>3, <2>4
<1>3. QED
  BY <1>1, <1>2 DEF SpecInv

-----------------------------------------------------------------------------
(* The environment and the disk.                                           *)

\* Between two steps of a pass nothing that FirstInv and SpecInv speak of
\* changes, except that pods come up and go.
LEMMA FirstEnvironment ==
  ASSUME ~StaleReads, IInv, SInv, FirstInv, SpecInv, [Next]_vars, ~Operator
  PROVE  FirstInv' /\ SpecInv'
<1>t. Gen \in Gens
  BY DiskTypes
<1>1. /\ run'.phase = run.phase /\ Gen' = Gen
      /\ run'.podName = run.podName /\ run'.lastCk = run.lastCk /\ run'.conds = run.conds
      /\ rec' = Idle \/ rec'.pc = rec.pc
  BY ObjectEnvironment
<1>2. ~CreatePod
  BY DEF Operator
<1>3. pods'[Gen].phase = "Pending" =>
        pods[Gen].phase = "Pending" /\ (pods[Gen].del => pods'[Gen].del)
  BY <1>t, <1>2, PodsMove DEF Settles
<1>4. FirstInv'
  BY <1>1, <1>3 DEF FirstInv
<1>5. runSpec' = runSpec
  BY DEF Next, vars, cluster, PodStep, Hydrate, Work, TakeCheckpoint, Exit, ExitRetryable,
     PodGone, LosePod, LoseNode, DoomedPVCGone, LosePVC, SyncRun, SyncPods, SyncPVC, Crash,
     Ask, RequestAnnotation
<1>6. BuildRunSpec(run') = BuildRunSpec(run)
  BY <1>1, SameRunSpec
<1>7. rec'.pc = "ensurePod" => rec.pc = "ensurePod"
  <2>1. rec' = Idle => rec'.pc = "idle"
    BY DEF Idle
  <2>2. QED
    BY <1>1, <2>1
<1>8. Startable(Gen)' => Startable(Gen)
  BY <1>1, <1>3 DEF Startable
<1>9. QED
  BY <1>4, <1>5, <1>6, <1>7, <1>8 DEF SpecInv

\* Only the current pod can come up or run.
LEMMA OnlyCurrent ==
  ASSUME IInv, SInv, NEW g \in Gens, ~Quiet(g)
  PROVE  g = Gen
<1>1. Gen \in Nat /\ Gens \subseteq Nat
  BY DiskTypes, OperatorConstants DEF Gens
<1>2. ~(g < Gen)
  BY DEF SInv, Quietness
<1>3. g <= Gen
  BY DEF IInv, NoFuturePods, Quiet, Gen
<1>4. QED
  BY <1>1, <1>2, <1>3

\* hydrate leaves the recorded checkpoint on the disk, or more.
LEMMA HydrateRestores ==
  ASSUME ~StaleReads, IInv, SInv, DiskInv, FirstInv, SpecInv,
         NEW g \in Gens, Hydrate(g)
  PROVE  /\ g = Gen /\ Startable(g) /\ pvc
         /\ \/ pods' = [pods EXCEPT ![g].phase = "Fatal"] /\ disk' = disk /\ work' = work
            \/ /\ pods' = [pods EXCEPT ![g].phase = "Running"]
               /\ disk' \in Nat /\ run.lastCk <= disk' /\ disk' <= work' /\ work <= work'
         /\ UNCHANGED <<run, pvc, latest, rec>>
<1>t. /\ disk \in Nat /\ work \in Nat /\ Gen \in Nat
      /\ latest \in Nat \cup {None} /\ run.lastCk \in Nat \cup {None}
      /\ None \in Int /\ None < 0
  BY DiskTypes
<1>1. Startable(g) /\ pvc /\ UNCHANGED <<run, pvc, latest, rec>>
  BY DEF Hydrate, Startable
<1>2. g = Gen
  BY <1>1, OnlyCurrent DEF Startable, Quiet
<1>3. runSpec = BuildRunSpec(run)
  BY <1>1, <1>2 DEF SpecInv
<1>r. /\ Gen = 0 => runSpec.mode = "start"
      /\ Gen # 0 => runSpec.mode = "resume"
      /\ runSpec.restore <=> RestoreRecorded(run)
      /\ runSpec.pin \in {run.lastCk, None}
  <2>1. runSpec.mode = IF Gen > 0 THEN "resume" ELSE "start"
    BY <1>3 DEF BuildRunSpec, Gen
  <2>2. runSpec.restore = RestoreRecorded(run)
    BY <1>3 DEF BuildRunSpec, RestoreRecorded
  <2>3. runSpec.pin \in {run.lastCk, None}
    BY <1>3 DEF BuildRunSpec
  <2>4. QED
    BY <1>t, <2>1, <2>2, <2>3
<1> DEFINE v == Hydrated(runSpec)
<1>4. v = None \/ (v \in Nat /\ run.lastCk <= v)
  <2>1. CASE Gen = 0
    <3>1. runSpec.mode = "start"
      BY <1>r, <2>1
    <3>2. v = None \/ v = 1
      BY <3>1 DEF Hydrated
    <3>3. run.lastCk = None
      BY <1>1, <1>2, <2>1 DEF FirstInv, Startable
    <3>4. QED
      BY <1>t, <3>2, <3>3
  <2>2. CASE Gen # 0 /\ ~RestoreRecorded(run)
    <3>1. runSpec.mode = "resume" /\ ~runSpec.restore
      BY <1>r, <2>2
    <3>2. v = disk
      BY <3>1 DEF Hydrated
    <3>3. run.lastCk <= disk
      BY <1>1, <2>2 DEF DiskInv
    <3>4. QED
      BY <1>t, <3>2, <3>3
  <2>3. CASE Gen # 0 /\ RestoreRecorded(run)
    <3>1. runSpec.mode = "resume" /\ runSpec.restore /\ runSpec.pin \in {run.lastCk, None}
      BY <1>r, <2>3
    <3>2. v = IF runSpec.pin # None THEN runSpec.pin ELSE latest
      BY <3>1 DEF Hydrated
    <3>3. run.lastCk <= latest
      BY DEF DiskInv
    <3>4. QED
      BY <1>t, <3>1, <3>2, <3>3
  <2>4. QED
    BY <2>1, <2>2, <2>3
<1>5. \/ pods' = [pods EXCEPT ![g].phase = "Fatal"] /\ disk' = disk /\ work' = work
      \/ /\ v # None /\ pods' = [pods EXCEPT ![g].phase = "Running"]
         /\ disk' = v /\ work' = IF v > work THEN v ELSE work
  BY DEF Hydrate, SetPodPhase
<1> HIDE DEF v
<1>6. QED
  BY <1>t, <1>1, <1>2, <1>4, <1>5

\* A pod stays as it is, signals aside, ends or goes.
Wanes(p, q) ==
  \/ q.ck = p.ck /\ q.phase = p.phase
  \/ q.ck = p.ck /\ q.phase \in {"Succeeded", "Retryable", "Fatal"}
  \/ q = NoPod

\* Pods that end and a disk that goes with no agent on it leave DiskInv alone.
LEMMA DiskFrame ==
  ASSUME IInv, DiskInv,
         Gen' = Gen, run'.lastCk = run.lastCk, run'.podName = run.podName,
         run'.conds = run.conds,
         rec'.pc = "idle" \/ (rec'.pc = rec.pc /\ rec'.proof = rec.proof),
         latest' = latest, work' = work,
         \A g \in Gens : Wanes(pods[g], pods'[g]),
         (disk' = disk /\ pvc' = pvc) \/ (disk' = 0 /\ ~pvc' /\ \A g \in Gens : ~Live(g))
  PROVE  DiskInv'
<1>t. /\ disk \in Nat /\ work \in Nat /\ Gen \in Gens
      /\ latest \in Nat \cup {None} /\ None \in Int /\ None < 0
  BY DiskTypes
<1>p. \A g \in Gens : /\ pods'[g].ck \in {pods[g].ck, None}
                      /\ pods'[g].phase = "Pending" => pods[g].phase = "Pending"
                      /\ pods'[g].phase \in {"Absent", "Pending"} =>
                           pods'[g].ck = None \/ pods[g].phase \in {"Absent", "Pending"}
                      /\ Live(g)' => Live(g)
  BY DEF Wanes, NoPod, Live
<1>1. (disk <= work)'
  BY <1>t DEF DiskInv
<1>2. (run.lastCk <= latest)'
  BY DEF DiskInv
<1>3. (pods[Gen].ck <= latest)'
  BY <1>t, <1>p DEF DiskInv
<1>4. (\A g \in Gens : pods[g].phase \in {"Absent", "Pending"} => pods[g].ck = None)'
  BY <1>p DEF DiskInv
<1>5. ASSUME NEW g \in Gens, Live(g)' PROVE pods'[g].ck <= disk' /\ run'.lastCk <= disk'
  BY <1>t, <1>p, <1>5 DEF DiskInv
<1>6. (pvc => run.lastCk <= disk \/ RestoreRecorded(run))'
  BY DEF DiskInv, RestoreRecorded
<1>7. ASSUME rec'.pc = "commitProof"
      PROVE  /\ rec'.proof <= latest' /\ pods'[Gen'].phase # "Pending"
             /\ pvc' => rec'.proof <= disk'
  BY <1>t, <1>p, <1>7 DEF DiskInv
<1>8. ASSUME rec'.pc = "podRunning"
      PROVE  /\ run'.podName = Gen' /\ pods'[Gen'].phase # "Pending"
             /\ pvc' => pods'[Gen'].ck <= disk'
  BY <1>t, <1>p, <1>8 DEF DiskInv
<1>9. QED
  BY <1>1, <1>2, <1>3, <1>4, <1>5, <1>6, <1>7, <1>8 DEF DiskInv

\* A pod that comes up, and an agent that works or takes a checkpoint, keep
\* DiskInv.
LEMMA AgentSteps ==
  ASSUME ~StaleReads, IInv, SInv, DiskInv, FirstInv, SpecInv, NEW g \in Gens,
         Hydrate(g) \/ Work(g) \/ TakeCheckpoint(g)
  PROVE  DiskInv'
<1>t. /\ disk \in Nat /\ work \in Nat /\ Gen \in Gens
      /\ latest \in Nat \cup {None} /\ run.lastCk \in Nat \cup {None}
      /\ rec.proof \in Nat \cup {None}
      /\ \A h \in Gens : pods[h].ck \in Nat \cup {None}
      /\ None \in Int /\ None < 0
  BY DiskTypes
<1>p. pods \in [Gens -> Pods]
  BY DEF IInv, WorldTypes
<1>r. ASSUME run' = run PROVE Gen' = Gen
  BY <1>r DEF Gen
<1>o. \A h \in Gens : Live(h) => h = Gen
  BY OnlyCurrent DEF Live, Quiet
<1>1. CASE Hydrate(g)
  <2>1. /\ g = Gen /\ Startable(g) /\ pvc /\ run' = run /\ pvc' = pvc /\ latest' = latest
        /\ rec' = rec
    BY <1>1, HydrateRestores
  <2>2. pods[Gen].phase = "Pending" /\ pods[Gen].ck = None
    BY <1>t, <2>1 DEF Startable, DiskInv
  <2>3. rec.pc # "commitProof" /\ rec.pc # "podRunning"
    BY <2>2 DEF DiskInv
  <2>4. \A h \in Gens : h # Gen => pods'[h] = pods[h] /\ ~Live(h)
    BY <1>1, <1>o, <1>p, <2>1, HydrateRestores
  <2>5. pods'[Gen].ck = None /\ pods'[Gen].phase \in {"Fatal", "Running"}
    BY <1>1, <1>p, <1>t, <2>1, <2>2, HydrateRestores DEF Pods
  <2>6. disk' \in Nat /\ disk' <= work'
    BY <1>1, <1>t, HydrateRestores DEF DiskInv
  <2>7. \/ disk' = disk
        \/ run.lastCk <= disk'
    BY <1>1, HydrateRestores
  <2>8. pods'[Gen].phase = "Running" => run.lastCk <= disk'
    BY <1>1, <1>p, <1>t, <2>1, HydrateRestores DEF Pods
  <2>9. (\A h \in Gens : Live(h) => pods[h].ck <= disk /\ run.lastCk <= disk)'
    <3> SUFFICES ASSUME NEW h \in Gens, Live(h)'
                 PROVE  pods'[h].ck <= disk' /\ run'.lastCk <= disk'
      OBVIOUS
    <3>1. h = Gen
      BY <2>4 DEF Live
    <3>2. QED
      BY <1>t, <2>1, <2>5, <2>6, <2>8, <3>1 DEF Live
  <2>10. (\A h \in Gens : pods[h].phase \in {"Absent", "Pending"} => pods[h].ck = None)'
    BY <2>4, <2>5 DEF DiskInv
  <2>11. (run.lastCk <= latest /\ pods[Gen].ck <= latest)'
    BY <1>r, <1>t, <2>1, <2>5 DEF DiskInv
  <2>12. (pvc => run.lastCk <= disk \/ RestoreRecorded(run))'
    BY <2>1, <2>7 DEF DiskInv
  <2>13. rec'.pc # "commitProof" /\ rec'.pc # "podRunning"
    BY <2>1, <2>3
  <2>14. QED
    BY <2>6, <2>9, <2>10, <2>11, <2>12, <2>13 DEF DiskInv
<1>2. CASE Work(g)
  <2>1. /\ Live(g) /\ work' = work + 1 /\ disk' = work + 1
        /\ UNCHANGED <<run, pods, pvc, latest, rec>>
    BY <1>2 DEF Work
  <2>2. Gen' = Gen /\ disk <= disk' /\ disk' <= work'
    BY <1>r, <1>t, <2>1 DEF DiskInv
  <2>3. (\A h \in Gens : Live(h) => pods[h].ck <= disk /\ run.lastCk <= disk)'
    <3> SUFFICES ASSUME NEW h \in Gens, Live(h)
                 PROVE  pods[h].ck <= disk' /\ run.lastCk <= disk'
      BY <2>1 DEF Live
    <3>1. pods[h].ck <= disk /\ run.lastCk <= disk
      BY DEF DiskInv
    <3>2. disk' \in Nat
      BY <1>t, <2>1
    <3>3. QED
      BY <1>t, <2>2, <3>1, <3>2
  <2>4. (pvc => run.lastCk <= disk \/ RestoreRecorded(run))'
    BY <1>t, <2>1, <2>2 DEF DiskInv
  <2>5. ASSUME rec'.pc = "commitProof"
        PROVE  /\ rec'.proof <= latest' /\ pods'[Gen'].phase # "Pending"
               /\ pvc' => rec'.proof <= disk'
    BY <1>t, <2>1, <2>2, <2>5 DEF DiskInv
  <2>6. ASSUME rec'.pc = "podRunning"
        PROVE  /\ run'.podName = Gen' /\ pods'[Gen'].phase # "Pending"
               /\ pvc' => pods'[Gen'].ck <= disk'
    BY <1>t, <2>1, <2>2, <2>6 DEF DiskInv
  <2>7. QED
    BY <2>1, <2>2, <2>3, <2>4, <2>5, <2>6 DEF DiskInv
<1>3. CASE TakeCheckpoint(g)
  <2>1. /\ Live(g) /\ latest' = disk /\ pods' = [pods EXCEPT ![g].ck = disk]
        /\ UNCHANGED <<run, pvc, disk, work, rec>>
    BY <1>3 DEF TakeCheckpoint
  <2>2. g = Gen /\ Gen' = Gen
    BY <1>o, <1>r, <2>1
  <2>3. pvc /\ run.lastCk <= disk
    BY <2>1 DEF SInv, Mounted, DiskInv
  <2>4. /\ \A h \in Gens : pods'[h].phase = pods[h].phase
        /\ \A h \in Gens : h # g => pods'[h].ck = pods[h].ck
        /\ pods'[g].ck = disk
    BY <1>p, <2>1 DEF Pods
  <2>5. (\A h \in Gens : pods[h].phase \in {"Absent", "Pending"} => pods[h].ck = None)'
    BY <2>1, <2>4 DEF DiskInv, Live
  <2>6. (\A h \in Gens : Live(h) => pods[h].ck <= disk /\ run.lastCk <= disk)'
    <3> SUFFICES ASSUME NEW h \in Gens, Live(h)'
                 PROVE  pods'[h].ck <= disk' /\ run'.lastCk <= disk'
      OBVIOUS
    <3>1. h = g
      BY <1>o, <2>2, <2>4 DEF Live
    <3>2. QED
      BY <1>t, <2>1, <2>3, <2>4, <3>1
  <2>7. (run.lastCk <= latest /\ pods[Gen].ck <= latest)'
    BY <1>t, <2>1, <2>2, <2>3, <2>4
  <2>8. ASSUME rec'.pc = "commitProof"
        PROVE  /\ rec'.proof <= latest' /\ pods'[Gen'].phase # "Pending"
               /\ pvc' => rec'.proof <= disk'
    BY <1>t, <2>1, <2>2, <2>3, <2>4, <2>8 DEF DiskInv
  <2>9. ASSUME rec'.pc = "podRunning"
        PROVE  /\ run'.podName = Gen' /\ pods'[Gen'].phase # "Pending"
               /\ pvc' => pods'[Gen'].ck <= disk'
    BY <1>t, <2>1, <2>2, <2>4, <2>9 DEF DiskInv
  <2>10. QED
    BY <2>1, <2>3, <2>5, <2>6, <2>7, <2>8, <2>9 DEF DiskInv
<1>4. QED
  BY <1>1, <1>2, <1>3

\* The environment keeps DiskInv.
LEMMA CheckpointEnvironment ==
  ASSUME ~StaleReads, IInv, SInv, DiskInv, FirstInv, SpecInv, [Next]_vars, ~Operator
  PROVE  DiskInv'
<1>p. pods \in [Gens -> Pods]
  BY DEF IInv, WorldTypes
<1>i. Idle.pc = "idle"
  BY DEF Idle
<1>r. /\ Gen' = Gen /\ run'.lastCk = run.lastCk /\ run'.podName = run.podName
      /\ run'.conds = run.conds
      /\ rec'.pc = "idle" \/ (rec'.pc = rec.pc /\ rec'.proof = rec.proof)
  BY <1>i, ObjectEnvironment
<1>f. ASSUME \A g \in Gens : Wanes(pods[g], pods'[g]), UNCHANGED workspace PROVE DiskInv'
  BY <1>r, <1>f, DiskFrame DEF workspace
<1>w. ASSUME NEW g \in Gens, NEW p, Wanes(pods[g], p), pods' = [pods EXCEPT ![g] = p],
             UNCHANGED workspace
      PROVE  DiskInv'
  BY <1>f, <1>p, <1>w DEF Wanes
<1>1. CASE UNCHANGED <<pods, workspace>>
  BY <1>1, <1>f DEF Wanes
<1>2. ASSUME NEW g \in Gens, Hydrate(g) \/ Work(g) \/ TakeCheckpoint(g) PROVE DiskInv'
  BY <1>2, AgentSteps
<1>3. ASSUME NEW g \in Gens, Exit(g) \/ ExitRetryable(g) PROVE DiskInv'
  <2>1. PICK phase \in {"Succeeded", "Retryable", "Fatal"} :
          pods' = [pods EXCEPT ![g].phase = phase] /\ UNCHANGED workspace
    BY <1>3 DEF Exit, ExitRetryable, SetPodPhase
  <2> DEFINE p == [pods[g] EXCEPT !.phase = phase]
  <2>2. Wanes(pods[g], p)
    BY <1>p DEF Wanes, Pods
  <2>3. pods' = [pods EXCEPT ![g] = p]
    BY <2>1
  <2>4. QED
    BY <1>w, <2>1, <2>2, <2>3
<1>4. ASSUME NEW g \in Gens, PodGone(g) \/ LosePod(g) PROVE DiskInv'
  <2>1. CASE pods' = [pods EXCEPT ![g] = NoPod] /\ UNCHANGED workspace
    BY <1>w, <2>1 DEF Wanes
  <2>2. CASE pods' = [pods EXCEPT ![g].del = TRUE] /\ UNCHANGED workspace
    <3> DEFINE p == [pods[g] EXCEPT !.del = TRUE]
    <3>1. Wanes(pods[g], p)
      BY <1>p DEF Wanes, Pods
    <3>2. pods' = [pods EXCEPT ![g] = p]
      BY <2>2
    <3>3. QED
      BY <1>w, <2>2, <3>1, <3>2
  <2>3. QED
    BY <1>4, <2>1, <2>2 DEF PodGone, LosePod
<1>5. CASE LoseNode
  <2>1. \A g \in Gens : Wanes(pods[g], pods'[g])
    BY <1>5 DEF LoseNode, Wanes
  <2>2. disk' = disk /\ pvc' = pvc /\ latest' = latest /\ work' = work
    BY <1>5 DEF LoseNode
  <2>3. QED
    BY <1>r, <2>1, <2>2, DiskFrame
<1>6. CASE DoomedPVCGone \/ LosePVC
  <2>1. /\ pods' = pods /\ latest' = latest /\ work' = work /\ disk' = 0 /\ ~pvc'
        /\ \A g \in Gens : ~Live(g)
    BY <1>6 DEF DoomedPVCGone, LosePVC, RemovePVC, SInv, Mounted
  <2>2. \A g \in Gens : Wanes(pods[g], pods'[g])
    BY <2>1 DEF Wanes
  <2>3. QED
    BY <1>r, <2>1, <2>2, DiskFrame
<1>7. QED
  BY <1>1, <1>2, <1>3, <1>4, <1>5, <1>6 DEF Next, vars, workspace, cluster, PodStep, SyncRun,
     SyncPods, SyncPVC, Crash, Ask, RequestAnnotation

\* What is on the disk of a run is never less than the checkpoint it records,
\* unless the loss of the disk is recorded: this is inductive, with what the first
\* attempt and the RunSpec of a pod that may come up contribute.
THEOREM DiskInvariance ==
  ASSUME ~StaleReads PROVE Spec => [](DiskInv /\ FirstInv /\ SpecInv)
<1>1. ASSUME IInv, Init PROVE DiskInv /\ FirstInv /\ SpecInv
  <2>0. PICK b \in BOOLEAN : run = NewRun(b)
    BY <1>1, OperatorConstants DEF Init
  <2>1. /\ run.conds = {} /\ run.lastCk = None
        /\ run.attempt = 0 /\ run.restarts = 0
    BY <2>0 DEF NewRun
  <2>p. run.phase = ""
    BY <2>0 DEF NewRun
  <2>g. Gen = 0
    BY <2>1 DEF Gen, AttemptGeneration
  <2>2. \A g \in Gens : pods[g].phase = "Absent" /\ pods[g].ck = None
    BY <1>1 DEF Init, NoPod
  <2>3. rec.pc = "idle"
    BY <1>1 DEF Init, Idle
  <2>4. disk = 0 /\ work = 0 /\ latest = None /\ ~pvc
    BY <1>1 DEF Init
  <2>5. Gen \in Gens /\ None \in Int
    BY <1>1, DiskTypes
  <2>6. DiskInv
    <3>1. \A g \in Gens : ~Live(g)
      BY <2>2 DEF Live
    <3>2. disk <= work /\ run.lastCk <= latest /\ pods[Gen].ck <= latest
      BY <2>1, <2>2, <2>4, <2>5
    <3>3. QED
      BY <2>2, <2>3, <2>4, <3>1, <3>2 DEF DiskInv
  <2>7. FirstInv
    <3>1. run.phase \notin {"Interrupted", "Provisioning", "Running", "Pausing", "Paused"}
      BY <2>p
    <3>2. run.conds \cap Recovery = {}
      BY <2>1
    <3>3. QED
      BY <2>1, <3>1, <3>2 DEF FirstInv
  <2>8. SpecInv
    BY <2>2, <2>3, <2>5 DEF SpecInv, Startable
  <2>9. QED
    BY <2>6, <2>7, <2>8
<1>2. ASSUME IInv, SInv, DiskInv, FirstInv, SpecInv, [Next]_vars
      PROVE  (DiskInv /\ FirstInv /\ SpecInv)'
  <2>1. CASE Operator
    BY <1>2, <2>1, CheckpointMoves, FirstMoves, SpecMoves
  <2>2. CASE ~Operator
    BY <1>2, <2>2, CheckpointEnvironment, FirstEnvironment
  <2>3. QED
    BY <2>1, <2>2
<1>3. Init => IInv
  BY InitEstablishes
<1>4. QED
  BY <1>1, <1>2, <1>3, SafetyInvariance, PTL DEF Spec

\* A run that was paused comes back with at least the work of its checkpoint,
\* whatever was lost meanwhile (PausedWorkSurvives).
THEOREM PausedWorkReturns ==
  ASSUME ~StaleReads PROVE Spec => PausedWorkSurvives
<1> DEFINE Returns == \A g \in Gens : pods[g].phase = "Pending" /\ pods'[g].phase = "Running"
                        /\ "PauseResumePending" \in run.conds => disk' >= run.lastCk
<1>1. ASSUME IInv, SInv, DiskInv', DiskInv, FirstInv, SpecInv, [Next]_vars PROVE Returns
  <2> SUFFICES ASSUME NEW g \in Gens, pods[g].phase = "Pending", pods'[g].phase = "Running"
               PROVE  run.lastCk <= disk'
    <3>1. disk' \in Nat /\ run.lastCk \in Int
      <4>1. disk' \in Versions
        BY <1>1, InvStep DEF IInv, WorldTypes
      <4>2. QED
        BY <1>1, <4>1, DiskTypes, OperatorConstants DEF Versions
    <3>2. QED
      BY <3>1
  <2>1. ~Operator
    BY <1>1, LiveMoves DEF Live
  <2>2. run'.lastCk = run.lastCk
    BY <1>1, <2>1, ObjectEnvironment
  <2>3. QED
    BY <1>1, <2>2 DEF DiskInv, Live
<1>2. QED
  BY <1>1, SafetyInvariance, DiskInvariance, PTL DEF Spec, PausedWorkSurvives

-----------------------------------------------------------------------------
(* A pause that is given up.                                               *)

\* A harness that is there and stopped.
Frozen(g) == Live(g) /\ pods[g].stopped

\* Until two pods/exec calls have failed, a harness is stopped only for a pause
\* in progress, or of a canceled run, and a pause that gives up has not left it
\* behind; one failed call can be why it is still to be continued.
StopInv ==
  /\ \A g \in Gens : pods[g].phase = "Pending" => ~pods[g].stopped
  /\ spent["exec"] < 2 => \A g \in Gens : Frozen(g) =>
       /\ run.phase \in {"Pausing", "Canceled"} /\ rec.pc \notin AbortSteps
       /\ rec.pc = "unquiesce" => spent["exec"] = 1

\* Only quiesce stops a harness, and unquiesce leaves it stopped only if the
\* call fails.
LEMMA StoppedMoves ==
  ASSUME ~StaleReads, IInv, SInv, Operator, NEW g \in Gens, pods'[g].stopped
  PROVE  /\ pods[g].stopped \/ (Quiesce /\ g = Gen /\ Live(Gen))
         /\ Unquiesce /\ g = Gen => ~Live(Gen) \/ Spend("exec")
<1> DEFINE P == /\ pods[g].stopped \/ (Quiesce /\ g = Gen /\ Live(Gen))
                /\ Unquiesce /\ g = Gen => ~Live(Gen) \/ Spend("exec")
<1> SUFFICES P
  OBVIOUS
<1>s. Tracks
  BY DEF SInv
<1>t. pods \in [Gens -> Pods] /\ Gen \in Gens
  BY DiskTypes DEF IInv, WorldTypes
<1>u. NoPod.stopped = FALSE /\ FreshPod.stopped = FALSE
  BY DEF NoPod, FreshPod
<1>1. CASE Quiesce
  <2>1. rec.pc = "quiesce"
    BY <1>1, <1>s, QuiesceMove
  <2>2. ~Unquiesce
    BY <2>1 DEF Unquiesce, At
  <2>3. \/ pods' = pods
        \/ Live(Gen) /\ pods' = [pods EXCEPT ![Gen].stopped = TRUE]
    BY <1>1, <1>s, QuiesceMove DEF Signalled
  <2>4. pods[g].stopped \/ (g = Gen /\ Live(Gen))
    BY <1>t, <2>3
  <2>5. QED
    BY <1>1, <2>2, <2>4
<1>2. CASE Unquiesce
  <2>1. Signalled(FALSE, "abortClear", "abortClear")
    BY <1>2, <1>s, UnquiesceMove
  <2>2. pods' = pods \/ pods' = [pods EXCEPT ![Gen].stopped = FALSE]
    BY <2>1 DEF Signalled
  <2>3. pods[g].stopped
    BY <1>t, <2>2 DEF Pods
  <2>4. g = Gen => ~Live(Gen) \/ Spend("exec")
    BY <1>t, <2>1 DEF Signalled, Pods
  <2>5. QED
    BY <2>3, <2>4
<1>3. ASSUME ~Quiesce, ~Unquiesce, pods[g].stopped PROVE P
  BY <1>3
<1>4. ASSUME ~Quiesce, ~Unquiesce PROVE pods[g].stopped
  <2>1. ASSUME pods' = pods PROVE pods[g].stopped
    BY <2>1
  <2>2. ASSUME NEW h \in Gens, pods' = [pods EXCEPT ![h].del = TRUE] PROVE pods[g].stopped
    BY <1>t, <2>2 DEF Pods
  <2>3. ASSUME NEW h \in Gens, NEW p \in {NoPod, FreshPod}, pods' = [pods EXCEPT ![h] = p]
        PROVE pods[g].stopped
    BY <1>t, <1>u, <2>3
  <2>4. ASSUME Cancel \/ Resume \/ BeginRestore \/ WorkspaceLost PROVE pods[g].stopped
    BY <2>1, <2>2, <2>4, <1>s, <1>t, CancelMove, ResumeMove, BeginRestoreMove,
       WorkspaceLostMove DEF PodDeleted
  <2>5. ASSUME RetryFailedPod \/ RemoveCheckpointedPod \/ CreatePod PROVE pods[g].stopped
    BY <2>1, <2>2, <2>3, <2>5, <1>s, <1>t, RetryPodMove, RemoveMove, CreatePodMove
  <2>6. CASE pods' = pods
    BY <2>1, <2>6
  <2>7. QED
    BY <1>4, <2>4, <2>5, <2>6 DEF Operator, Reconcile, Admit, CancelStatus, ResumeClear,
       ResumeStatus, EnterPausing, PausePodLost, Snapshot, CommitProof, AbortClear,
       AbortStatus, PausedStatus, RecordPosture, CreateWorkspacePVC, RestoreStatus,
       LostStatus, EnsureRunSpec, PodAdmissionForbidden, RecordPod, HandleMissingPod,
       ObserveNothing, ObservePending, ClearRecoveryConditions, ObserveRunning,
       ObserveSucceeded, FailTerminally, FailStatus, cluster
<1>5. QED
  BY <1>1, <1>2, <1>3, <1>4

\* Events are only ever added.
LEMMA SpentGrows ==
  ASSUME IInv, [Next]_vars
  PROVE  \A e \in Events : spent'[e] >= spent[e]
<1>t. \A e \in Events : spent[e] \in Nat
  BY CounterTypes
<1>1. CASE spent' = spent
  BY <1>t, <1>1
<1>2. ASSUME NEW e \in Events, Spend(e) PROVE \A x \in Events : spent'[x] >= spent[x]
  BY <1>t, <1>2, SpendCounts
<1>3. \A e \in {"exec", "forbid", "exit", "podLoss", "nodeLoss", "pvcLoss", "crash"} :
        e \in Events
  BY DEF Events
<1>4. Annotations \subseteq Events
  BY DEF Annotations, Events
<1>5. CASE Operator
  <2>1. spent' = spent \/ (\E e \in {"exec", "forbid"} : Spend(e))
    BY <1>5 DEF Operator, client, Reconcile, Admit, Cancel, CancelStatus, Resume,
       ResumeClear, ResumeStatus, EnterPausing, PausePodLost, Quiesce, Snapshot, CommitProof,
       Unquiesce, AbortClear, AbortStatus, RemoveCheckpointedPod, PausedStatus,
       RecordPosture, CreateWorkspacePVC, SignalHarness, BeginRestore, RestoreStatus,
       WorkspaceLost, LostStatus, EnsureRunSpec, CreatePod, PodAdmissionForbidden, RecordPod,
       HandleMissingPod, ObserveNothing, ObservePending, ClearRecoveryConditions,
       ObserveRunning, ObserveSucceeded, FailTerminally, RetryFailedPod, FailStatus
  <2>2. QED
    BY <1>1, <1>2, <1>3, <2>1
<1>6. CASE ~Operator
  <2>1. spent' = spent \/ (\E e \in Events : Spend(e))
    BY <1>3, <1>4, <1>6 DEF Next, vars, PodStep, client, Hydrate, Work, TakeCheckpoint, Exit,
       ExitRetryable, PodGone, LosePod, LoseNode, LosePVC, DoomedPVCGone, SyncRun, SyncPods,
       SyncPVC, Crash, Ask, RequestAnnotation
  <2>2. QED
    BY <1>1, <1>2, <2>1
<1>7. QED
  BY <1>5, <1>6

\* The phase of a run with an agent leaves Pausing only by giving up or by a
\* cancel.
LEMMA PausingLeft ==
  ASSUME ~StaleReads, IInv, SInv, Operator, Live(Gen), run.phase = "Pausing",
         run'.phase # "Pausing"
  PROVE  rec.pc = "abortStatus" \/ run'.phase = "Canceled"
<1>s. Tracks
  BY DEF SInv
<1>1. rec.run = run /\ Leads(rec.pc, run'.phase)
  BY ObjectMoves
<1>2. rec.pc # "idle"
  BY <1>1 DEF Leads
<1>3. /\ rec.pc \notin WorkSteps /\ rec.pc # "enterPausing" /\ rec.pc # "admit"
  BY <1>s, <1>2, PassKnows
<1>4. rec.pc # "resumeStatus"
  BY <1>s, ResumeKnows DEF ResumeSteps, Halted
<1>5. rec.pc # "pausedStatus"
  BY DEF SInv, Quietness, Quiet, Live
<1>6. rec.pc # "quiesce"
  <2> SUFFICES ASSUME rec.pc = "quiesce" PROVE FALSE
    OBVIOUS
  <2>1. PausePodLost \/ Quiesce
    BY DEF Operator, At, PodMissing, PodFound, MissingPVC, Reconcile, Admit, Cancel,
       CancelStatus, Resume, ResumeClear, ResumeStatus, EnterPausing, Snapshot, CommitProof,
       Unquiesce, AbortClear, AbortStatus, RemoveCheckpointedPod, PausedStatus,
       RecordPosture, CreateWorkspacePVC, BeginRestore, RestoreStatus, WorkspaceLost,
       LostStatus, EnsureRunSpec, CreatePod, PodAdmissionForbidden, RecordPod,
       HandleMissingPod, ObserveNothing, ObservePending, ClearRecoveryConditions,
       ObserveRunning, ObserveSucceeded, FailTerminally, RetryFailedPod, FailStatus
  <2>2. ~PausePodLost
    BY <1>s, PausePodLostMove DEF Live
  <2>3. run' = run
    BY <2>1, <2>2 DEF Quiesce
  <2>4. QED
    BY <2>3
<1>7. rec.pc = "cancelStatus" => run'.phase = "Canceled"
  BY <1>1 DEF Leads
<1>8. QED
  BY <1>1, <1>3, <1>4, <1>5, <1>6, <1>7 DEF Leads, WorkSteps

\* A pass that turns to give up with an agent there has had a call fail.
LEMMA GivesUp ==
  ASSUME ~StaleReads, IInv, SInv, Operator, Live(Gen), rec'.pc = "unquiesce"
  PROVE  Spend("exec") /\ run' = run /\ run.phase = "Pausing"
<1>s. Tracks
  BY DEF SInv
<1>1. Quiesce \/ Snapshot
  BY StepFrom
<1>2. CASE Quiesce
  <2>1. rec.pc = "quiesce" /\ Signalled(TRUE, "snapshot", "unquiesce")
    BY <1>2, <1>s, QuiesceMove
  <2>2. Spend("exec") /\ run' = run
    BY <2>1 DEF Signalled, Goes
  <2>3. QED
    BY <1>s, <2>1, <2>2, PassKnows DEF ProofSteps
<1>3. CASE Snapshot
  <2>1. rec.pc = "snapshot" /\ Spend("exec") /\ run' = run
    BY <1>3, <1>s, SnapshotMove
  <2>2. QED
    BY <1>s, <2>1, PassKnows DEF ProofSteps
<1>4. QED
  BY <1>1, <1>2, <1>3

\* A pass keeps StopInv.
LEMMA StopMoves ==
  ASSUME ~StaleReads, IInv, SInv, StopInv, Operator
  PROVE  StopInv'
<1>s. Tracks
  BY DEF SInv
<1>t. spent["exec"] \in Nat /\ spent'["exec"] >= spent["exec"] /\ "exec" \in Events
  BY CounterTypes, SpentGrows DEF Next, Events
<1>g. Gen \in Gens
  BY DiskTypes
<1>1. ASSUME NEW g \in Gens, pods'[g].phase = "Pending" PROVE ~pods'[g].stopped
  <2>1. CASE pods'[g] = FreshPod \/ pods'[g] = NoPod
    BY <2>1 DEF FreshPod, NoPod
  <2>2. CASE pods'[g].phase = pods[g].phase
    <3>1. ~pods[g].stopped /\ ~Live(g)
      BY <1>1, <2>2 DEF StopInv, Live
    <3>2. QED
      BY <3>1, StoppedMoves
  <2>3. QED
    BY <2>1, <2>2, PodsByPass
<1>2. ASSUME NEW g \in Gens, Frozen(g)', spent'["exec"] < 2
      PROVE  /\ run'.phase \in {"Pausing", "Canceled"} /\ rec'.pc \notin AbortSteps
             /\ rec'.pc = "unquiesce" => spent'["exec"] = 1
  <2>1. Live(g) /\ g = Gen /\ spent["exec"] < 2
    <3>1. Live(g)
      BY <1>2, LiveMoves DEF Frozen
    <3>2. spent["exec"] < 2 /\ spent'["exec"] \in Nat
      BY <1>2, <1>t, InvStep DEF Next, IInv, WorldTypes
    <3>3. QED
      BY <3>1, <3>2, OnlyCurrent DEF Live, Quiet
  <2>2. pods'[g].stopped
    BY <1>2 DEF Frozen
  <2>3. rec'.pc = "unquiesce" => spent'["exec"] = 1
    <3> SUFFICES ASSUME rec'.pc = "unquiesce" PROVE spent'["exec"] = 1
      OBVIOUS
    <3>1. spent'["exec"] = spent["exec"] + 1
      BY <1>t, <2>1, GivesUp, SpendCounts
    <3>2. QED
      BY <1>2, <1>t, <3>1
  <2>4. CASE Quiesce
    <3>1. rec.pc = "quiesce" /\ run' = run /\ rec'.pc \in {"snapshot", "unquiesce"}
      BY <2>4, <1>s, QuiesceMove DEF Signalled, Goes
    <3>2. run.phase = "Pausing"
      BY <1>s, <3>1, PassKnows DEF ProofSteps
    <3>3. QED
      BY <2>3, <3>1, <3>2 DEF AbortSteps
  <2>5. CASE ~Quiesce
    <3>1. pods[g].stopped
      BY <2>2, <2>5, StoppedMoves
    <3>2. /\ run.phase \in {"Pausing", "Canceled"} /\ rec.pc \notin AbortSteps
          /\ rec.pc = "unquiesce" => spent["exec"] = 1
      BY <2>1, <3>1 DEF StopInv, Frozen
    <3>3. run'.phase \in {"Pausing", "Canceled"}
      <4>1. run.phase = "Canceled" => run'.phase = "Canceled"
        BY PhaseLeft
      <4>2. run.phase = "Pausing" /\ run'.phase # "Pausing" => run'.phase = "Canceled"
        BY <2>1, <3>2, PausingLeft DEF AbortSteps
      <4>3. QED
        BY <3>2, <4>1, <4>2
    <3>4. rec'.pc # "abortStatus"
      BY <3>2, StepFrom DEF AbortClear, At, AbortSteps
    <3>5. rec'.pc # "abortClear"
      <4> SUFFICES ASSUME rec'.pc = "abortClear" PROVE FALSE
        OBVIOUS
      <4>1. Unquiesce /\ rec.pc = "unquiesce"
        BY StepFrom DEF Unquiesce, At
      <4>2. Spend("exec")
        BY <2>1, <2>2, <4>1, StoppedMoves
      <4>3. spent'["exec"] = spent["exec"] + 1
        BY <1>t, <4>2, SpendCounts
      <4>4. QED
        BY <1>2, <1>t, <3>2, <4>1, <4>3
    <3>6. QED
      BY <2>3, <3>3, <3>4, <3>5 DEF AbortSteps
  <2>6. QED
    BY <2>4, <2>5
<1>3. QED
  BY <1>1, <1>2 DEF StopInv

\* The environment stops no harness.
LEMMA StoppedEnvironment ==
  ASSUME ~StaleReads, IInv, [Next]_vars, ~Operator, NEW g \in Gens, pods'[g].stopped
  PROVE  /\ pods[g].stopped
         /\ pods'[g].phase = "Pending" => pods[g].phase = "Pending"
         /\ Live(g)' => Live(g) \/ pods[g].phase = "Pending"
<1> DEFINE P == /\ pods[g].stopped
                /\ pods'[g].phase = "Pending" => pods[g].phase = "Pending"
                /\ Live(g)' => Live(g) \/ pods[g].phase = "Pending"
<1> SUFFICES P
  OBVIOUS
<1>t. pods \in [Gens -> Pods]
  BY DEF IInv, WorldTypes
<1>u. NoPod.stopped = FALSE
  BY DEF NoPod
<1>1. CASE pods' = pods
  BY <1>1 DEF Live
<1>2. ASSUME NEW h \in Gens, NEW p \in Pods, pods' = [pods EXCEPT ![h] = p],
             p.stopped => /\ pods[h].stopped
                          /\ p.phase = "Pending" => pods[h].phase = "Pending"
                          /\ p.phase = "Running" => pods[h].phase \in {"Running", "Pending"}
      PROVE  P
  BY <1>2, <1>t DEF Live
<1>3. ASSUME NEW h \in Gens, Hydrate(h) \/ Exit(h) \/ ExitRetryable(h) PROVE P
  <2>1. PICK phase \in {"Running", "Succeeded", "Fatal", "Retryable"} :
          /\ pods' = [pods EXCEPT ![h].phase = phase]
          /\ phase = "Running" => pods[h].phase = "Pending"
    BY <1>3 DEF Hydrate, Exit, ExitRetryable, SetPodPhase
  <2> DEFINE p == [pods[h] EXCEPT !.phase = phase]
  <2>2. p \in Pods /\ p.stopped = pods[h].stopped /\ p.phase = phase
    BY <1>t DEF Pods, PodPhases
  <2>3. pods' = [pods EXCEPT ![h] = p]
    BY <2>1
  <2> HIDE DEF p
  <2>4. QED
    BY <1>2, <2>1, <2>2, <2>3
<1>4. ASSUME NEW h \in Gens, TakeCheckpoint(h) PROVE P
  <2>1. pods' = [pods EXCEPT ![h].ck = disk] /\ disk \in Versions
    BY <1>4 DEF TakeCheckpoint, IInv, WorldTypes
  <2> DEFINE p == [pods[h] EXCEPT !.ck = disk]
  <2>2. p \in Pods /\ p.stopped = pods[h].stopped /\ p.phase = pods[h].phase
    BY <1>t, <2>1 DEF Pods
  <2>3. pods' = [pods EXCEPT ![h] = p]
    BY <2>1
  <2> HIDE DEF p
  <2>4. QED
    BY <1>2, <2>2, <2>3
<1>5. ASSUME NEW h \in Gens, PodGone(h) \/ LosePod(h) PROVE P
  <2>1. CASE pods' = [pods EXCEPT ![h] = NoPod]
    BY <1>t, <1>u, <2>1 DEF Live
  <2>2. CASE pods' = [pods EXCEPT ![h].del = TRUE]
    <3> DEFINE p == [pods[h] EXCEPT !.del = TRUE]
    <3>1. p \in Pods /\ p.stopped = pods[h].stopped /\ p.phase = pods[h].phase
      BY <1>t DEF Pods
    <3>2. pods' = [pods EXCEPT ![h] = p]
      BY <2>2
    <3> HIDE DEF p
    <3>3. QED
      BY <1>2, <3>1, <3>2
  <2>3. QED
    BY <1>5, <2>1, <2>2 DEF PodGone, LosePod
<1>6. CASE LoseNode
  BY <1>6, <1>u DEF LoseNode
<1> HIDE DEF P
<1>7. QED
  BY <1>1, <1>3, <1>4, <1>5, <1>6 DEF Next, vars, cluster, PodStep, Work, DoomedPVCGone,
     LosePVC, SyncRun, SyncPods, SyncPVC, Crash, Ask, RequestAnnotation

\* Until two pods/exec calls have failed, a stopped harness belongs to a pause in
\* progress or to a canceled run, in every reachable state.
THEOREM StopInvariance == ASSUME ~StaleReads PROVE Spec => []StopInv
<1>1. ASSUME Init PROVE StopInv
  <2>1. \A g \in Gens : pods[g].phase = "Absent"
    BY <1>1 DEF Init, NoPod
  <2>2. QED
    BY <2>1 DEF StopInv, Frozen, Live
<1>2. ASSUME IInv, SInv, StopInv, [Next]_vars PROVE StopInv'
  <2>1. CASE Operator
    BY <1>2, <2>1, StopMoves
  <2>2. CASE ~Operator
    <3>1. run'.phase = run.phase
      BY <1>2, <2>2, ObjectEnvironment
    <3>2. rec'.pc = "idle" \/ rec'.pc = rec.pc
      <4>1. rec' = Idle => rec'.pc = "idle"
        BY DEF Idle
      <4>2. QED
        BY <1>2, <2>2, <4>1, ObjectEnvironment
    <3>3. \A g \in Gens : Frozen(g)' => Frozen(g)
      BY <1>2, <2>2, StoppedEnvironment DEF Frozen, StopInv
    <3>4. \A g \in Gens : pods'[g].phase = "Pending" => ~pods'[g].stopped
      BY <1>2, <2>2, StoppedEnvironment DEF StopInv
    <3>5. spent'["exec"] = spent["exec"]
      <4>1. spent' = spent \/ (\E e \in Events \ {"exec"} : Spend(e))
        BY <1>2, <2>2 DEF Next, vars, PodStep, client, Hydrate, Work, TakeCheckpoint, Exit,
           ExitRetryable, PodGone, LosePod, LoseNode, LosePVC, DoomedPVCGone, SyncRun,
           SyncPods, SyncPVC, Crash, Ask, RequestAnnotation, Events, Annotations
      <4>2. QED
        BY <1>2, <4>1, SpendCounts DEF Events
    <3>6. ASSUME NEW g \in Gens, Frozen(g)', spent'["exec"] < 2
          PROVE  /\ run'.phase \in {"Pausing", "Canceled"} /\ rec'.pc \notin AbortSteps
                 /\ rec'.pc = "unquiesce" => spent'["exec"] = 1
      <4>1. /\ run.phase \in {"Pausing", "Canceled"} /\ rec.pc \notin AbortSteps
            /\ rec.pc = "unquiesce" => spent["exec"] = 1
        BY <1>2, <3>3, <3>5, <3>6 DEF StopInv
      <4>2. QED
        BY <3>1, <3>2, <3>5, <4>1 DEF AbortSteps
    <3>7. QED
      BY <3>4, <3>6 DEF StopInv
  <2>3. QED
    BY <2>1, <2>2
<1>3. QED
  BY <1>1, <1>2, SafetyInvariance, PTL DEF Spec

\* A pause that was given up has left no harness stopped, unless two pods/exec
\* calls have failed: the one that made the operator give up and the one that was
\* to let the harness continue (AbortedPauseLeavesHarnessRunning).
THEOREM AbortedPauseContinues ==
  ASSUME ~StaleReads
  PROVE  Spec => [](spent["exec"] < 2 => AbortedPauseLeavesHarnessRunning)
<1>1. StopInv => (spent["exec"] < 2 => AbortedPauseLeavesHarnessRunning)
  BY DEF StopInv, Frozen, AbortedPauseLeavesHarnessRunning
<1>2. QED
  BY <1>1, StopInvariance, PTL

-----------------------------------------------------------------------------
(* The checkpoint of a pause.                                              *)

\* The pause checkpoint is recorded.
Ready(r) == "PauseCheckpointReady" \in r.conds

\* A pod that neither works nor will, unless it is signalled.
Still(g) == /\ pods[g].phase = "Pending" => pods[g].del
            /\ Live(g) => pods[g].stopped
AllStill == \A g \in Gens : Still(g)

\* From the snapshot of a stopped harness to its record nothing moves.
ProofInv ==
  /\ Ready(run) => run.lastCk # None
  /\ rec.pc = "commitProof" => rec.proof # None /\ (pvc => rec.proof = disk)
  /\ rec.pc \in {"snapshot", "commitProof"} => AllStill

\* With one pause at most, the record of a pause checkpoint is that of the pause
\* in progress, and stands for the disk until the run is resumed.
OnceInv ==
  spent["pause"] < 2 =>
    /\ "pause" \in asked \cup run.annots \/ Ready(run) \/ run.phase = "Pausing" =>
         spent["pause"] = 1
    /\ "pause" \in asked => /\ "pause" \notin run.annots /\ ~Ready(run)
                            /\ run.phase # "Pausing"
    /\ Ready(run) /\ run.phase \notin {"Pausing", "Canceled"} => "pause" \notin run.annots
    /\ Ready(run) /\ run.phase = "Pausing" => AllStill /\ (pvc => run.lastCk = disk)
    /\ run.phase = "Paused" /\ pvc => run.lastCk = disk

\* A pass lets no stopped harness continue but in unquiesce.
LEMMA KeptStopped ==
  ASSUME ~StaleReads, IInv, SInv, Operator, ~Unquiesce, NEW g \in Gens,
         pods[g].stopped, Live(g)'
  PROVE  pods'[g].stopped
<1>s. Tracks
  BY DEF SInv
<1>t. pods \in [Gens -> Pods] /\ Gen \in Gens
  BY DiskTypes DEF IInv, WorldTypes
<1>1. ASSUME pods' = pods PROVE pods'[g].stopped
  BY <1>1
<1>2. ASSUME NEW h \in Gens, pods' = [pods EXCEPT ![h].del = TRUE] PROVE pods'[g].stopped
  BY <1>t, <1>2 DEF Pods
<1>3. ASSUME NEW h \in Gens, NEW p \in {NoPod, FreshPod}, pods' = [pods EXCEPT ![h] = p]
      PROVE  pods'[g].stopped
  BY <1>t, <1>3 DEF NoPod, FreshPod, Live
<1>4. ASSUME pods' = [pods EXCEPT ![Gen].stopped = TRUE] PROVE pods'[g].stopped
  BY <1>t, <1>4 DEF Pods
<1>5. CASE Quiesce
  BY <1>1, <1>4, <1>5, <1>s, QuiesceMove DEF Signalled
<1>6. CASE Cancel \/ Resume \/ BeginRestore \/ WorkspaceLost
  BY <1>1, <1>2, <1>6, <1>s, <1>t, CancelMove, ResumeMove, BeginRestoreMove,
     WorkspaceLostMove DEF PodDeleted
<1>7. CASE RetryFailedPod \/ RemoveCheckpointedPod \/ CreatePod
  BY <1>1, <1>2, <1>3, <1>7, <1>s, <1>t, RetryPodMove, RemoveMove, CreatePodMove
<1>8. CASE pods' = pods
  BY <1>1, <1>8
<1>9. QED
  BY <1>5, <1>6, <1>7, <1>8 DEF Operator, Reconcile, Admit, CancelStatus, ResumeClear,
     ResumeStatus, EnterPausing, PausePodLost, Snapshot, CommitProof, AbortClear,
     AbortStatus, PausedStatus, RecordPosture, CreateWorkspacePVC, RestoreStatus,
     LostStatus, EnsureRunSpec, PodAdmissionForbidden, RecordPod, HandleMissingPod,
     ObserveNothing, ObservePending, ClearRecoveryConditions, ObserveRunning,
     ObserveSucceeded, FailTerminally, FailStatus, cluster

\* What is still stays so, through every step of a pass that neither creates a
\* pod nor lets a harness continue.
LEMMA StillMoves ==
  ASSUME ~StaleReads, IInv, SInv, Operator, ~Unquiesce, ~CreatePod, AllStill
  PROVE  AllStill'
<1> SUFFICES ASSUME NEW g \in Gens PROVE Still(g)'
  BY DEF AllStill
<1>1. Still(g)
  BY DEF AllStill
<1>2. pods'[g].phase = "Pending" => pods'[g].del
  BY <1>1, PodsByPass DEF Still, NoPod
<1>3. ASSUME Live(g)' PROVE pods'[g].stopped
  <2>1. Live(g)
    BY <1>3, LiveMoves
  <2>2. QED
    BY <1>1, <1>3, <2>1, KeptStopped DEF Still
<1>4. QED
  BY <1>2, <1>3 DEF Still

\* ... and through every step of the environment, which then leaves the disk
\* alone as well, unless it is lost.
LEMMA StillEnvironment ==
  ASSUME ~StaleReads, IInv, [Next]_vars, ~Operator, AllStill
  PROVE  AllStill' /\ (pvc' => pvc /\ disk' = disk)
<1>t. pods \in [Gens -> Pods]
  BY DEF IInv, WorldTypes
<1>s. \A h \in Gens : Still(h)
  BY DEF AllStill
<1>h. ASSUME NEW h \in Gens PROVE ~Hydrate(h) /\ ~Work(h)
  BY <1>s DEF Hydrate, Work, Still
<1>0. ASSUME NEW h \in Gens, NEW p \in Pods, pods' = [pods EXCEPT ![h] = p],
             p.phase = "Pending" => pods[h].phase = "Pending" /\ (pods[h].del => p.del),
             p.phase = "Running" => pods[h].phase = "Running" /\ p.stopped = pods[h].stopped
      PROVE  AllStill'
  BY <1>0, <1>s, <1>t DEF AllStill, Still, Live
<1>1. ASSUME pods' = pods PROVE AllStill'
  BY <1>1, <1>s DEF AllStill, Still, Live
<1>2. ASSUME NEW h \in Gens, Exit(h) \/ ExitRetryable(h) PROVE AllStill'
  <2>1. PICK phase \in {"Succeeded", "Fatal", "Retryable"} :
          pods' = [pods EXCEPT ![h].phase = phase]
    BY <1>2 DEF Exit, ExitRetryable, SetPodPhase
  <2> DEFINE p == [pods[h] EXCEPT !.phase = phase]
  <2>2. p \in Pods /\ p.phase = phase
    BY <1>t DEF Pods, PodPhases
  <2>3. pods' = [pods EXCEPT ![h] = p]
    BY <2>1
  <2> HIDE DEF p
  <2>4. QED
    BY <1>0, <2>1, <2>2, <2>3
<1>3. ASSUME NEW h \in Gens, TakeCheckpoint(h) PROVE AllStill'
  <2>1. pods' = [pods EXCEPT ![h].ck = disk] /\ disk \in Versions
    BY <1>3 DEF TakeCheckpoint, IInv, WorldTypes
  <2> DEFINE p == [pods[h] EXCEPT !.ck = disk]
  <2>2. /\ p \in Pods /\ p.stopped = pods[h].stopped /\ p.phase = pods[h].phase
        /\ p.del = pods[h].del
    BY <1>t, <2>1 DEF Pods
  <2>3. pods' = [pods EXCEPT ![h] = p]
    BY <2>1
  <2> HIDE DEF p
  <2>4. QED
    BY <1>0, <2>2, <2>3
<1>4. ASSUME NEW h \in Gens, PodGone(h) \/ LosePod(h) PROVE AllStill'
  <2>1. CASE pods' = [pods EXCEPT ![h] = NoPod]
    <3>1. NoPod \in Pods /\ NoPod.phase = "Absent"
      BY DEF NoPod, Pods, PodPhases
    <3>2. QED
      BY <1>0, <2>1, <3>1
  <2>2. CASE pods' = [pods EXCEPT ![h].del = TRUE]
    <3> DEFINE p == [pods[h] EXCEPT !.del = TRUE]
    <3>1. /\ p \in Pods /\ p.stopped = pods[h].stopped /\ p.phase = pods[h].phase
          /\ p.del = TRUE
      BY <1>t DEF Pods
    <3>2. pods' = [pods EXCEPT ![h] = p]
      BY <2>2
    <3> HIDE DEF p
    <3>3. QED
      BY <1>0, <3>1, <3>2
  <2>3. QED
    BY <1>4, <2>1, <2>2 DEF PodGone, LosePod
<1>5. ASSUME LoseNode PROVE AllStill'
  BY <1>5 DEF LoseNode, AllStill, Still, Live, NoPod
<1>6. AllStill'
  BY <1>h, <1>1, <1>2, <1>3, <1>4, <1>5 DEF Next, vars, cluster, PodStep, DoomedPVCGone,
     LosePVC, SyncRun, SyncPods, SyncPVC, Crash, Ask, RequestAnnotation
<1>7. pvc' => pvc /\ disk' = disk
  BY <1>h DEF Next, vars, cluster, workspace, PodStep, TakeCheckpoint, Exit, ExitRetryable,
     PodGone, LosePod, LoseNode, RemovePVC, DoomedPVCGone, LosePVC, SyncRun, SyncPods,
     SyncPVC, Crash, Ask, RequestAnnotation
<1>8. QED
  BY <1>6, <1>7

\* A pass records a pause checkpoint only in commitProof, and withdraws the
\* record only when it gives up.
LEMMA ReadyMoves ==
  ASSUME ~StaleReads, IInv, SInv, Operator
  PROVE  /\ Ready(run') => Ready(run) \/ (CommitProof /\ run'.lastCk = rec.proof)
         /\ Ready(run) => Ready(run') \/ rec.pc = "abortStatus"
<1>1. Ready(run) => Ready(run') \/ rec.pc = "abortStatus"
  BY CondsMoves DEF Ready, Recovery
<1>2. ASSUME Ready(run'), ~Ready(run) PROVE CommitProof /\ run'.lastCk = rec.proof
  <2>1. rec.pc = "commitProof"
    BY <1>2, CondsMoves DEF Ready, Posture
  <2>2. CommitProof
    BY <2>1, CommitOf
  <2>3. run' # run
    BY <1>2
  <2>4. QED
    BY <2>2, <2>3, ProofWrite DEF Ended
<1>3. QED
  BY <1>1, <1>2

\* A pass keeps ProofInv.
LEMMA ProofMoves ==
  ASSUME ~StaleReads, IInv, SInv, ProofInv, Operator
  PROVE  ProofInv'
<1>s. Tracks
  BY DEF SInv
<1>t. /\ disk \in Nat /\ Gen \in Gens /\ Gen \in Nat
      /\ run.lastCk \in Nat \cup {None} /\ None \in Int /\ None < 0
      /\ pods[Gen].ck \in Nat \cup {None}
  BY DiskTypes
<1>p. pods \in [Gens -> Pods]
  BY DEF IInv, WorldTypes
<1>1. ASSUME Ready(run') PROVE run'.lastCk # None
  <2>1. CASE rec.pc = "commitProof"
    <3>1. rec.proof # None
      BY <2>1 DEF ProofInv
    <3>2. Ready(run) => run.lastCk # None
      BY DEF ProofInv
    <3>3. run' = run \/ run'.lastCk = rec.proof
      BY <2>1, CommitOf, ProofWrite DEF Ended
    <3>4. QED
      BY <1>1, <3>1, <3>2, <3>3
  <2>2. CASE rec.pc # "commitProof"
    <3>1. Ready(run)
      BY <1>1, <2>2, ReadyMoves DEF CommitProof, At
    <3>2. run.lastCk # None
      BY <3>1 DEF ProofInv
    <3>3. run'.lastCk = run.lastCk \/ (run'.lastCk = pods[Gen].ck /\ pods[Gen].ck > run.lastCk)
      BY <2>2, RecordMoves
    <3>4. QED
      BY <1>t, <3>2, <3>3
  <2>3. QED
    BY <2>1, <2>2
<1>2. ASSUME rec'.pc = "commitProof"
      PROVE  /\ rec'.proof # None /\ (pvc' => rec'.proof = disk')
             /\ AllStill'
  <2>1. Snapshot
    BY <1>2, StepFrom
  <2>2. rec.pc = "snapshot" /\ pods' = pods /\ disk' = disk /\ rec'.proof = disk
    BY <1>2, <1>s, <2>1, SnapshotMove DEF Goes
  <2>3. AllStill
    BY <2>2 DEF ProofInv
  <2>4. AllStill'
    BY <2>2, <2>3 DEF AllStill, Still, Live
  <2>5. QED
    BY <1>t, <2>2, <2>4
<1>3. ASSUME rec'.pc = "snapshot" PROVE AllStill'
  <2>1. Quiesce
    BY <1>3, StepFrom
  <2>2. Live(Gen) /\ pods' = [pods EXCEPT ![Gen].stopped = TRUE]
    BY <1>3, <1>s, <2>1, QuiesceMove DEF Signalled, Goes
  <2>3. ASSUME NEW g \in Gens, g # Gen PROVE Quiet(g) /\ pods'[g] = pods[g]
    BY <1>p, <2>2, <2>3, OnlyCurrent
  <2>4. pods'[Gen].phase = "Running" /\ pods'[Gen].stopped
    BY <1>p, <1>t, <2>2 DEF Pods, Live
  <2>5. QED
    BY <2>3, <2>4 DEF AllStill, Still, Quiet, Live
<1>4. QED
  BY <1>1, <1>2, <1>3 DEF ProofInv

\* ... and so does the environment.
LEMMA ProofEnvironment ==
  ASSUME ~StaleReads, IInv, SInv, ProofInv, [Next]_vars, ~Operator
  PROVE  ProofInv'
<1>1. /\ run'.conds = run.conds /\ run'.lastCk = run.lastCk
      /\ rec'.pc = "idle" \/ (rec'.pc = rec.pc /\ rec'.proof = rec.proof)
  <2>1. rec' = Idle => rec'.pc = "idle"
    BY DEF Idle
  <2>2. QED
    BY <2>1, ObjectEnvironment
<1>2. ASSUME rec'.pc \in {"snapshot", "commitProof"}
      PROVE  rec.pc = rec'.pc /\ AllStill' /\ (pvc' => pvc /\ disk' = disk)
  <2>1. rec.pc = rec'.pc
    BY <1>1, <1>2
  <2>2. AllStill
    BY <1>2, <2>1 DEF ProofInv
  <2>3. QED
    BY <2>1, <2>2, StillEnvironment
<1>3. ASSUME rec'.pc = "commitProof"
      PROVE  rec'.proof # None /\ (pvc' => rec'.proof = disk')
  <2>1. rec'.proof = rec.proof /\ rec.pc = "commitProof"
    BY <1>1, <1>3
  <2>2. QED
    BY <1>2, <1>3, <2>1 DEF ProofInv
<1>4. Ready(run') => run'.lastCk # None
  BY <1>1 DEF ProofInv, Ready
<1>5. QED
  BY <1>2, <1>3, <1>4 DEF ProofInv

\* A pass over a proven pause removes the pod, reports Paused or cancels.
LEMMA ProvenPass ==
  ASSUME ~StaleReads, IInv, SInv, ProofInv, Operator, Ready(run), run.phase = "Pausing"
  PROVE  /\ rec.pc \notin WorkSteps \cup ProofSteps \cup AbortSteps
         /\ run'.phase # run.phase =>
              \/ rec.pc = "pausedStatus" /\ "pause" \notin run.annots
              \/ run'.phase = "Canceled"
<1>s. Tracks
  BY DEF SInv
<1>1. Proven(run)
  BY DEF ProofInv, Proven, Ready
<1>2. rec.pc \notin WorkSteps \cup ProofSteps \cup AbortSteps
  <2>1. CASE rec.pc = "idle"
    BY <2>1 DEF WorkSteps, ProofSteps, AbortSteps
  <2>2. CASE rec.pc # "idle"
    BY <1>s, <1>1, <2>2, PassKnows
  <2>3. QED
    BY <2>1, <2>2
<1>3. ASSUME run'.phase # run.phase
      PROVE  \/ rec.pc = "pausedStatus" /\ "pause" \notin run.annots
             \/ run'.phase = "Canceled"
  <2>1. rec.run = run /\ Leads(rec.pc, run'.phase)
    BY <1>3, ObjectMoves
  <2>2. rec.pc # "idle"
    BY <2>1 DEF Leads
  <2>3. rec.pc # "enterPausing" /\ rec.pc # "admit"
    BY <1>s, <2>2, PassKnows
  <2>4. rec.pc # "resumeStatus"
    BY <1>s, ResumeKnows DEF ResumeSteps, Halted
  <2>5. rec.pc = "pausedStatus" \/ run'.phase = "Canceled"
    BY <1>2, <2>1, <2>3, <2>4 DEF Leads, WorkSteps, ProofSteps, AbortSteps
  <2>6. rec.pc = "pausedStatus" => "pause" \notin run.annots
    BY <1>s, <2>1 DEF Tracks, Knows
  <2>7. QED
    BY <2>5, <2>6
<1>4. QED
  BY <1>2, <1>3

\* A pass keeps OnceInv.
LEMMA OnceMoves ==
  ASSUME ~StaleReads, IInv, SInv, DiskInv, ProofInv, OnceInv, Operator
  PROVE  OnceInv'
<1> SUFFICES ASSUME spent'["pause"] < 2 PROVE OnceInv'
  BY DEF OnceInv
<1>s. Tracks
  BY DEF SInv
<1>n. spent'["pause"] = spent["pause"]
  BY CountMoves DEF Events
<1>a. run'.annots \subseteq run.annots /\ asked' = asked
  BY ObjectMoves
<1>o. /\ "pause" \in asked \cup run.annots \/ Ready(run) \/ run.phase = "Pausing" =>
           spent["pause"] = 1
      /\ "pause" \in asked => /\ "pause" \notin run.annots /\ ~Ready(run)
                              /\ run.phase # "Pausing"
      /\ Ready(run) /\ run.phase \notin {"Pausing", "Canceled"} => "pause" \notin run.annots
      /\ Ready(run) /\ run.phase = "Pausing" => AllStill /\ (pvc => run.lastCk = disk)
      /\ run.phase = "Paused" /\ pvc => run.lastCk = disk
  BY <1>n DEF OnceInv
<1>r. Ready(run') => Ready(run) \/ (CommitProof /\ run'.lastCk = rec.proof)
  BY ReadyMoves
<1>c. ASSUME CommitProof
      PROVE  /\ rec.pc = "commitProof" /\ run.phase = "Pausing" /\ run'.phase = "Pausing"
             /\ UNCHANGED <<pods, pvc, disk>>
  <2>1. rec.pc = "commitProof" /\ UNCHANGED <<pods, pvc, disk>>
    BY <1>c DEF CommitProof, At, cluster, workspace
  <2>2. run.phase = "Pausing"
    BY <1>s, <2>1, PassKnows DEF ProofSteps
  <2>3. run'.phase = run.phase
    BY <1>c, ProofWrite DEF Ended, SamePhase
  <2>4. QED
    BY <2>1, <2>2, <2>3
<1>e. run'.phase = "Pausing" => run.phase = "Pausing" \/
        ("pause" \in run.annots /\ rec.pc = "enterPausing" /\ run.phase \notin Terminal)
  <2> SUFFICES ASSUME run'.phase = "Pausing", run.phase # "Pausing"
               PROVE  "pause" \in run.annots /\ rec.pc = "enterPausing"
                      /\ run.phase \notin Terminal
    OBVIOUS
  <2>1. rec.pc = "enterPausing"
    BY ObjectMoves DEF Leads
  <2>2. QED
    BY <1>s, <2>1, PassKnows
<1>1. "pause" \in asked' \cup run'.annots \/ Ready(run') \/ run'.phase = "Pausing" =>
        spent'["pause"] = 1
  BY <1>n, <1>a, <1>o, <1>r, <1>c, <1>e
<1>2. "pause" \in asked' => /\ "pause" \notin run'.annots /\ ~Ready(run')
                            /\ run'.phase # "Pausing"
  BY <1>a, <1>o, <1>r, <1>c, <1>e
<1>3. ASSUME Ready(run'), run'.phase \notin {"Pausing", "Canceled"}
      PROVE  "pause" \notin run'.annots
  <2>1. Ready(run)
    BY <1>3, <1>r, <1>c
  <2>2. run.phase # "Canceled"
    BY <1>3, PhaseLeft
  <2>3. CASE run.phase = "Pausing"
    BY <1>3, <1>a, <2>1, <2>3, ProvenPass
  <2>4. CASE run.phase # "Pausing"
    BY <1>a, <1>o, <2>1, <2>2, <2>4
  <2>5. QED
    BY <2>3, <2>4
<1>4. ASSUME Ready(run'), run'.phase = "Pausing"
      PROVE  AllStill' /\ (pvc' => run'.lastCk = disk')
  <2>1. CASE Ready(run)
    <3>1. run.phase = "Pausing"
      BY <1>4, <1>e, <1>o, <2>1 DEF Terminal
    <3>2. rec.pc \notin WorkSteps \cup ProofSteps \cup AbortSteps
      BY <2>1, <3>1, ProvenPass
    <3>3. ~Unquiesce /\ ~CreatePod /\ ~CreateWorkspacePVC /\ ~CommitProof /\ ~ObserveRunning
      BY <1>s, <3>2, CreatePodMove, CreateDiskMove, RunningMove
         DEF Unquiesce, CommitProof, At, WorkSteps, ProofSteps
    <3>4. AllStill'
      BY <1>o, <2>1, <3>1, <3>3, StillMoves
    <3>5. disk' = disk /\ pvc' = pvc
      BY <3>3, WorkspaceMoves
    <3>6. run'.lastCk = run.lastCk
      BY <3>2, RecordMoves DEF WorkSteps, ProofSteps
    <3>7. QED
      BY <1>o, <2>1, <3>1, <3>4, <3>5, <3>6
  <2>2. CASE ~Ready(run)
    <3>1. CommitProof /\ run'.lastCk = rec.proof
      BY <1>4, <1>r, <2>2
    <3>2. AllStill /\ (pvc => rec.proof = disk)
      BY <1>c, <3>1 DEF ProofInv
    <3>3. UNCHANGED <<pods, pvc, disk>>
      BY <1>c, <3>1
    <3>4. AllStill'
      BY <3>2, <3>3 DEF AllStill, Still, Live
    <3>5. QED
      BY <3>1, <3>2, <3>3, <3>4
  <2>3. QED
    BY <2>1, <2>2
<1>5. ASSUME run'.phase = "Paused", pvc' PROVE run'.lastCk = disk'
  <2>1. run'.lastCk = run.lastCk
    BY <1>5, RecordedCheckpoint
  <2>2. run.phase \in {"Paused", "Pausing"} /\ (run.phase = "Pausing" => Ready(run))
    <3>1. CASE run.phase = "Paused"
      BY <3>1
    <3>2. CASE run.phase # "Paused"
      <4>1. rec.pc = "pausedStatus"
        BY <1>5, <3>2, ObjectMoves DEF Leads
      <4>2. QED
        BY <1>s, <4>1, PassKnows DEF RemovalSteps, Proven, Ready
    <3>3. QED
      BY <3>1, <3>2
  <2>3. ~CreateWorkspacePVC
    <3>1. ASSUME CreateWorkspacePVC PROVE FALSE
      <4>1. rec.pc = "prerequisites"
        BY <1>s, <3>1, CreateDiskMove
      <4>2. run.phase \notin {"Paused", "Pausing"}
        BY <1>s, <4>1, PassKnows DEF WorkSteps
      <4>3. QED
        BY <2>2, <4>2
    <3>2. QED
      BY <3>1
  <2>4. disk' = disk /\ pvc' = pvc
    BY <2>3, WorkspaceMoves
  <2>5. QED
    BY <1>5, <1>o, <2>1, <2>2, <2>4
<1>6. QED
  BY <1>1, <1>2, <1>3, <1>4, <1>5 DEF OnceInv

\* The environment keeps OnceInv.
LEMMA OnceEnvironment ==
  ASSUME ~StaleReads, IInv, SInv, OnceInv, [Next]_vars, ~Operator
  PROVE  OnceInv'
<1> SUFFICES ASSUME spent'["pause"] < 2 PROVE OnceInv'
  BY DEF OnceInv
<1>t. "pause" \in Events /\ spent["pause"] \in Nat /\ spent'["pause"] \in Nat
      /\ spent["pause"] < 2
  <2>1. "pause" \in Events /\ spent["pause"] \in Nat
    BY CounterTypes DEF Events
  <2>2. spent'["pause"] >= spent["pause"]
    BY <2>1, SpentGrows
  <2>3. spent'["pause"] \in Nat
    BY <2>1, InvStep DEF IInv, WorldTypes
  <2>4. QED
    BY <2>1, <2>2, <2>3
<1>o. /\ "pause" \in asked \cup run.annots \/ Ready(run) \/ run.phase = "Pausing" =>
           spent["pause"] = 1
      /\ "pause" \in asked => /\ "pause" \notin run.annots /\ ~Ready(run)
                              /\ run.phase # "Pausing"
      /\ Ready(run) /\ run.phase \notin {"Pausing", "Canceled"} => "pause" \notin run.annots
      /\ Ready(run) /\ run.phase = "Pausing" => AllStill /\ (pvc => run.lastCk = disk)
      /\ run.phase = "Paused" /\ pvc => run.lastCk = disk
  BY <1>t DEF OnceInv
<1>r. run'.phase = run.phase /\ run'.lastCk = run.lastCk /\ (Ready(run') <=> Ready(run))
  BY ObjectEnvironment DEF Ready
<1>4. Ready(run') /\ run'.phase = "Pausing" => AllStill' /\ (pvc' => run'.lastCk = disk')
  BY <1>o, <1>r, StillEnvironment
<1>5. run'.phase = "Paused" /\ pvc' => run'.lastCk = disk'
  <2> SUFFICES ASSUME run'.phase = "Paused", pvc' PROVE run'.lastCk = disk'
    OBVIOUS
  <2>1. AllStill
    BY <1>r DEF AllStill, Still, SInv, Quietness, Quiet, Halted, Live
  <2>2. QED
    BY <1>o, <1>r, <2>1, StillEnvironment
<1> DEFINE P == /\ "pause" \in asked' \cup run'.annots \/ Ready(run') \/ run'.phase = "Pausing" =>
                     spent'["pause"] = 1
                /\ "pause" \in asked' => /\ "pause" \notin run'.annots /\ ~Ready(run')
                                         /\ run'.phase # "Pausing"
                /\ Ready(run') /\ run'.phase \notin {"Pausing", "Canceled"} =>
                     "pause" \notin run'.annots
<1>6. ASSUME "pause" \in run'.annots <=> "pause" \in run.annots,
             "pause" \in asked' <=> "pause" \in asked, spent'["pause"] = spent["pause"]
      PROVE  P
  BY <1>6, <1>o, <1>r
<1>7. ASSUME NEW a \in Annotations, Ask(a) PROVE P
  <2>1. run' = run /\ asked' = asked \cup {a} /\ Spend(a) /\ a \in Events
    BY <1>7 DEF Ask, Annotations, Events
  <2>2. CASE a = "pause"
    <3>1. spent'["pause"] = spent["pause"] + 1
      BY <1>t, <2>1, <2>2, SpendCounts
    <3>2. spent["pause"] = 0 /\ spent'["pause"] = 1
      BY <1>t, <3>1
    <3>3. QED
      BY <1>o, <1>r, <2>1, <3>2
  <2>3. CASE a # "pause"
    <3>1. spent'["pause"] = spent["pause"]
      BY <1>t, <2>1, <2>3, SpendCounts
    <3>2. QED
      BY <1>6, <2>1, <2>3, <3>1
  <2>4. QED
    BY <2>2, <2>3
<1>8. ASSUME NEW a \in Annotations, RequestAnnotation(a) PROVE P
  <2>1. /\ a \in asked /\ asked' = asked \ {a} /\ spent' = spent
        /\ run'.annots = run.annots \cup {a}
    BY <1>8 DEF RequestAnnotation, Supersede, IInv, ObjectTypes, Runs
  <2>2. CASE a = "pause"
    BY <1>o, <1>r, <2>1, <2>2
  <2>3. CASE a # "pause"
    BY <1>6, <2>1, <2>3
  <2>4. QED
    BY <2>2, <2>3
<1> HIDE DEF P
<1>9. ASSUME run' = run, asked' = asked,
             spent' = spent \/ (\E e \in Events \ {"pause"} : Spend(e))
      PROVE  P
  <2>1. spent'["pause"] = spent["pause"]
    BY <1>t, <1>9, SpendCounts
  <2>2. ("pause" \in run'.annots <=> "pause" \in run.annots)
        /\ ("pause" \in asked' <=> "pause" \in asked)
    BY <1>9
  <2>3. QED
    BY <1>6, <2>1, <2>2
<1>10. P
  <2>1. CASE \E g \in Gens : PodStep(g)
    <3>1. PICK g \in Gens : PodStep(g)
      BY <2>1
    <3>2. run' = run /\ asked' = asked
      BY <3>1 DEF PodStep, Hydrate, Work, TakeCheckpoint, Exit, ExitRetryable, PodGone,
         LosePod, client
    <3>3. spent' = spent \/ (\E e \in Events \ {"pause"} : Spend(e))
      BY <3>1 DEF PodStep, Hydrate, Work, TakeCheckpoint, Exit, ExitRetryable, PodGone,
         LosePod, client, Events
    <3>4. QED
      BY <1>9, <3>2, <3>3
  <2>2. CASE LoseNode \/ DoomedPVCGone \/ LosePVC \/ SyncRun \/ SyncPods \/ SyncPVC \/ Crash
             \/ UNCHANGED vars
    <3>1. run' = run /\ asked' = asked
      BY <2>2 DEF LoseNode, DoomedPVCGone, LosePVC, SyncRun, SyncPods, SyncPVC, Crash, client, vars
    <3>2. spent' = spent \/ (\E e \in Events \ {"pause"} : Spend(e))
      BY <2>2 DEF LoseNode, DoomedPVCGone, LosePVC, SyncRun, SyncPods, SyncPVC, Crash, client,
         vars, Events
    <3>3. QED
      BY <1>9, <3>1, <3>2
  <2>3. CASE \E a \in Annotations : Ask(a) \/ RequestAnnotation(a)
    BY <1>7, <1>8, <2>3
  <2>4. QED
    BY <2>1, <2>2, <2>3 DEF Next
<1>11. QED
  BY <1>4, <1>5, <1>10 DEF P, OnceInv

\* From the snapshot of a pause to its record nothing moves, and with one pause
\* the record stands for the disk of the paused run, in every reachable state.
THEOREM PauseInvariance == ASSUME ~StaleReads PROVE Spec => [](ProofInv /\ OnceInv)
<1>1. ASSUME Init PROVE ProofInv /\ OnceInv
  <2>0. PICK b \in BOOLEAN : run = NewRun(b)
    BY <1>1, OperatorConstants DEF Init
  <2>1. run.conds = {} /\ run.annots = {} /\ run.phase = ""
    BY <2>0 DEF NewRun
  <2>2. rec.pc = "idle" /\ asked = {}
    BY <1>1 DEF Init, Idle
  <2>3. QED
    BY <2>1, <2>2 DEF ProofInv, OnceInv, Ready
<1>2. ASSUME IInv, SInv, DiskInv, ProofInv, OnceInv, [Next]_vars PROVE (ProofInv /\ OnceInv)'
  <2>1. CASE Operator
    BY <1>2, <2>1, ProofMoves, OnceMoves
  <2>2. CASE ~Operator
    BY <1>2, <2>2, ProofEnvironment, OnceEnvironment
  <2>3. QED
    BY <2>1, <2>2
<1>3. QED
  BY <1>1, <1>2, SafetyInvariance, DiskInvariance, PTL DEF Spec

\* The checkpoint a run is paused with holds what is on its disk, until a second
\* pause is asked for, which finds the record of the first (PausedCheckpointIsCurrent).
THEOREM PauseCheckpointIsCurrent ==
  ASSUME ~StaleReads
  PROVE  Spec => [](spent["pause"] < 2 => PausedCheckpointIsCurrent)
<1>1. OnceInv => (spent["pause"] < 2 => PausedCheckpointIsCurrent)
  BY DEF OnceInv, PausedCheckpointIsCurrent
<1>2. QED
  BY <1>1, PauseInvariance, PTL

=============================================================================
