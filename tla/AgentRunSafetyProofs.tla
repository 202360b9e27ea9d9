------------------------ MODULE AgentRunSafetyProofs ------------------------
(***************************************************************************)
(* What an operator with fresh reads guarantees, for every retry budget,   *)
(* every mix of environment events and every bound: one agent at a time,   *)
(* none behind a Paused or Canceled run, a retry budget that only lost     *)
(* disks exceed, and no restart charged that no loss accounts for.         *)
(*                                                                         *)
(* With fresh reads the copy of a pass differs from the object only in     *)
(* requests made since, so each step of a pass can be described by what it *)
(* does to the object; the lemmas of the second section do that, one per   *)
(* write.  The invariant then says which pods can still come up: none of   *)
(* an attempt that is over, none of a halted run, none that a pass is      *)
(* about to give up.                                                       *)
(***************************************************************************)
EXTENDS AgentRunOperatorProofs

\* The phases of a run in which somebody has to ask for a new attempt.
Halted == {"Paused", "Failed"}

\* The steps of a pass that pauses the attempt.
ProofSteps == {"quiesce", "snapshot", "commitProof", "unquiesce"}
RemovalSteps == {"removePod", "pausedStatus"}
AbortSteps == {"abortClear", "abortStatus"}

\* The pause checkpoint is recorded as taken.
Proven(r) == "PauseCheckpointReady" \in r.conds /\ r.lastCk # None

\* The loss of the disk is recorded, its restore still to be seen.
RestoreRecorded(r) == "WorkspaceRestorePending" \in r.conds

\* What a step may count on in its copy r.
Knows(step, r) ==
  /\ step \in WorkSteps => r.phase \notin Terminal \cup {"", "Paused", "Pausing"}
  /\ step \in ProofSteps \cup AbortSteps => r.phase = "Pausing" /\ r.bucket /\ ~Proven(r)
  /\ step \in RemovalSteps => r.phase = "Pausing" /\ Proven(r)
  /\ step \in {"restoreStatus", "lostStatus"} => r.phase # "Pending"
  /\ step = "restoreStatus" => r.bucket /\ ~RestoreRecorded(r)
  /\ step = "enterPausing" => /\ r.phase \notin Terminal \cup {"Paused", "Pausing"}
                              /\ r.bucket /\ "pause" \in r.annots
  /\ step = "admit" => r.phase = ""
  /\ step = "pausedStatus" => "pause" \notin r.annots
  /\ "cancel" \in r.annots => step \in CancelSteps \cup ResumeSteps \cup {"idle"}

\* Two copies that only user requests tell apart.
Agree(r, s) ==
  /\ r.bucket = s.bucket /\ r.phase = s.phase /\ r.reason = s.reason
  /\ r.attempt = s.attempt /\ r.restarts = s.restarts /\ r.podName = s.podName
  /\ r.lastCk = s.lastCk /\ r.conds = s.conds

\* The copy of the pass in flight is the object, but for requests made since.
Tracks ==
  rec.pc # "idle" => /\ Agree(rec.run, run)
                     /\ rec.run.annots \subseteq run.annots
                     /\ Knows(rec.pc, rec.run)

\* Only a run with checkpoints is ever Pausing.
PausingHasBucket == run.phase = "Pausing" => run.bucket

\* A pause is asked for only of a run with checkpoints that has come past Pending.
PauseRequests ==
  "pause" \in asked \cup run.annots => run.bucket /\ run.phase \notin {"", "Pending"}

\* The current attempt.
Gen == AttemptGeneration(run)

\* A pod that neither runs nor will.
Quiet(g) == pods[g].phase # "Running" /\ (pods[g].phase = "Pending" => pods[g].del)

\* A pod that runs or may run has been told to stop.
Stopping(g) == pods[g].phase \in {"Running", "Pending"} => pods[g].del

\* Attempts that are over, all attempts of a halted run, and the one a pass is
\* about to give up, are quiet; what is canceled is stopping.
Quietness ==
  /\ \A g \in Gens : g < Gen => Quiet(g)
  /\ run.phase \in Halted => \A g \in Gens : Quiet(g)
  /\ rec.pc \in {"failStatus", "restoreStatus", "lostStatus", "pausedStatus"} => Quiet(Gen)
  /\ run.phase = "Canceled" => \A g \in Gens : Stopping(g)
  /\ rec.pc = "cancelStatus" => Stopping(Gen)

\* An agent runs on a disk that is there.
Mounted ==
  /\ doomed => pvc
  /\ \A g \in Gens : Live(g) => pvc /\ ~doomed

SInv == Tracks /\ PausingHasBucket /\ PauseRequests /\ Quietness /\ Mounted

-----------------------------------------------------------------------------
(* The steps of a pass, seen at the object.                                *)

\* The pass is over and nothing was written.
Ended == rec' = Idle /\ run' = run

\* The pass goes on with its copy.
Goes(step) == /\ run' = run
              /\ rec'.pc = step /\ rec'.run = rec.run /\ rec'.proof = rec.proof

\* The pass wrote the object, of which its copy was up to date.
Wrote(step) ==
  /\ rec.run = run
  /\ rec'.pc = step /\ rec'.proof \in {rec.proof, None}
  /\ step # "idle" => rec'.run = run' /\ rec'.proof = rec.proof
  /\ run'.bucket = run.bucket

SameAttempt == Gen' = Gen /\ run'.restarts = run.restarts
SamePhase == run'.phase = run.phase /\ run'.reason = run.reason
SameRecords == run'.podName = run.podName /\ run'.lastCk = run.lastCk
SameRequests == run'.annots = run.annots
SameConds == run'.conds = run.conds

\* With fresh reads the operator sees the cluster as it is, and its copy tells
\* it the current attempt.
LEMMA FreshReads ==
  ASSUME ~StaleReads, IInv, Tracks, rec.pc # "idle"
  PROVE  /\ SeenRun = run /\ SeenPVC = pvc /\ SeenPod = pods[Gen]
         /\ CurrentGen = Gen /\ Gen \in Gens
         /\ Agree(rec.run, run) /\ rec.run.annots \subseteq run.annots
         /\ Knows(rec.pc, rec.run)
<1>1. Agree(rec.run, run) /\ rec.run.annots \subseteq run.annots /\ Knows(rec.pc, rec.run)
  BY DEF Tracks
<1>2. CurrentGen = Gen
  BY <1>1 DEF Agree, CurrentGen, Gen, AttemptGeneration
<1>3. Gen \in Gens
  BY GenType DEF Gen, IInv, ObjectTypes
<1>4. QED
  BY <1>1, <1>2, <1>3 DEF SeenRun, SeenPVC, SeenPod, SeenPods

\* A write goes through only if the copy is the object.
LEMMA WriteCases ==
  ASSUME IInv, NEW new, NEW step \in Steps, Persist(new, step)
  PROVE  \/ Ended
         \/ /\ rec.run = run /\ run' = new /\ rec'.pc = step
            /\ step # "idle" => rec'.run = new /\ rec'.proof = rec.proof
            /\ rec'.proof \in {rec.proof, None}
<1>1. CASE ~rec.fresh
  BY <1>1 DEF Persist, Return, Ended
<1>2. CASE rec.fresh
  <2>1. rec.run = run /\ run' = new
    BY <1>2 DEF Persist, IInv, Copies, FreshCopies
  <2>2. CASE step = "idle"
    BY <1>2, <2>1, <2>2 DEF Persist, Idle
  <2>3. CASE step # "idle"
    BY <1>2, <2>1, <2>3 DEF Persist, IInv, ObjectTypes
  <2>4. QED
    BY <2>2, <2>3
<1>3. QED
  BY <1>1, <1>2 DEF IInv, ObjectTypes

\* setPhase writes the phase and nothing else.
LEMMA PhaseWrite ==
  ASSUME IInv, NEW phase \in Phases, NEW reason \in Reasons, SetPhase(phase, reason)
  PROVE  \/ Ended
         \/ /\ Wrote("idle")
            /\ run'.phase = phase /\ run'.reason = reason
            /\ SameAttempt /\ SameRecords /\ SameRequests /\ SameConds
<1> DEFINE new == [rec.run EXCEPT !.phase = phase, !.reason = reason]
<1>1. Persist(new, "idle") /\ "idle" \in Steps
  BY DEF SetPhase, Steps
<1>2. /\ new.phase = phase /\ new.reason = reason /\ new.bucket = rec.run.bucket
      /\ new.attempt = rec.run.attempt /\ new.restarts = rec.run.restarts
      /\ new.podName = rec.run.podName /\ new.lastCk = rec.run.lastCk
      /\ new.annots = rec.run.annots /\ new.conds = rec.run.conds
  BY DEF IInv, ObjectTypes, Runs
<1> HIDE DEF new
<1>3. \/ Ended
      \/ rec.run = run /\ run' = new /\ rec'.pc = "idle" /\ rec'.proof \in {rec.proof, None}
  BY <1>1, WriteCases
<1>4. QED
  BY <1>2, <1>3 DEF Wrote, SameAttempt, Gen, AttemptGeneration, SameRecords, SameRequests,
     SameConds

\* Withdrawing a request writes the annotations and nothing else.
LEMMA RequestWrite ==
  ASSUME IInv, NEW a, NEW step \in Steps,
         Persist([rec.run EXCEPT !.annots = @ \ {a}], step)
  PROVE  \/ Ended
         \/ /\ Wrote(step) /\ run'.annots = run.annots \ {a}
            /\ SameAttempt /\ SamePhase /\ SameRecords /\ SameConds
<1> DEFINE new == [rec.run EXCEPT !.annots = @ \ {a}]
<1>1. Persist(new, step)
  OBVIOUS
<1>2. /\ new.phase = rec.run.phase /\ new.reason = rec.run.reason
      /\ new.bucket = rec.run.bucket
      /\ new.attempt = rec.run.attempt /\ new.restarts = rec.run.restarts
      /\ new.podName = rec.run.podName /\ new.lastCk = rec.run.lastCk
      /\ new.annots = rec.run.annots \ {a} /\ new.conds = rec.run.conds
  BY DEF IInv, ObjectTypes, Runs
<1> HIDE DEF new
<1>3. \/ Ended
      \/ /\ rec.run = run /\ run' = new /\ rec'.pc = step
         /\ step # "idle" => rec'.run = new /\ rec'.proof = rec.proof
         /\ rec'.proof \in {rec.proof, None}
  BY <1>1, WriteCases
<1>4. QED
  BY <1>2, <1>3 DEF Wrote, SameAttempt, Gen, AttemptGeneration, SamePhase, SameRecords,
     SameConds

\* Recording conditions writes them and nothing else.
LEMMA CondsWrite ==
  ASSUME IInv, NEW C, NEW step \in Steps, Persist([rec.run EXCEPT !.conds = C], step)
  PROVE  \/ Ended
         \/ /\ Wrote(step) /\ run'.conds = C
            /\ SameAttempt /\ SamePhase /\ SameRecords /\ SameRequests
<1> DEFINE new == [rec.run EXCEPT !.conds = C]
<1>1. Persist(new, step)
  OBVIOUS
<1>2. /\ new.phase = rec.run.phase /\ new.reason = rec.run.reason
      /\ new.bucket = rec.run.bucket
      /\ new.attempt = rec.run.attempt /\ new.restarts = rec.run.restarts
      /\ new.podName = rec.run.podName /\ new.lastCk = rec.run.lastCk
      /\ new.annots = rec.run.annots /\ new.conds = C
  BY DEF IInv, ObjectTypes, Runs
<1> HIDE DEF new
<1>3. \/ Ended
      \/ /\ rec.run = run /\ run' = new /\ rec'.pc = step
         /\ step # "idle" => rec'.run = new /\ rec'.proof = rec.proof
         /\ rec'.proof \in {rec.proof, None}
  BY <1>1, WriteCases
<1>4. QED
  BY <1>2, <1>3 DEF Wrote, SameAttempt, Gen, AttemptGeneration, SamePhase, SameRecords,
     SameRequests

\* The write that commits the pause checkpoint (publishPauseCheckpoint).
LEMMA ProofWrite ==
  ASSUME IInv, CommitProof
  PROVE  \/ Ended
         \/ /\ Wrote("idle") /\ run'.conds = run.conds \cup {"PauseCheckpointReady"}
            /\ run'.lastCk = rec.proof /\ run'.podName = run.podName
            /\ SameAttempt /\ SamePhase /\ SameRequests
<1> DEFINE new == [rec.run EXCEPT !.lastCk = rec.proof,
                                  !.conds = @ \cup {"PauseCheckpointReady"}]
<1>1. Persist(new, "idle") /\ "idle" \in Steps
  BY DEF CommitProof, Steps
<1>2. /\ new.phase = rec.run.phase /\ new.reason = rec.run.reason
      /\ new.bucket = rec.run.bucket
      /\ new.attempt = rec.run.attempt /\ new.restarts = rec.run.restarts
      /\ new.podName = rec.run.podName /\ new.lastCk = rec.proof
      /\ new.annots = rec.run.annots
      /\ new.conds = rec.run.conds \cup {"PauseCheckpointReady"}
  BY DEF IInv, ObjectTypes, Runs
<1> HIDE DEF new
<1>3. \/ Ended
      \/ rec.run = run /\ run' = new /\ rec'.pc = "idle" /\ rec'.proof \in {rec.proof, None}
  BY <1>1, WriteCases
<1>4. QED
  BY <1>2, <1>3 DEF Wrote, SameAttempt, Gen, AttemptGeneration, SamePhase, SameRequests

\* The write that gives a pause up (abortPause).
LEMMA AbortWrite ==
  ASSUME IInv, AbortStatus
  PROVE  \/ Ended
         \/ /\ Wrote("idle") /\ run'.conds = run.conds \ {"PauseCheckpointReady"}
            /\ run'.phase = "Running" /\ run'.reason = "PauseAborted"
            /\ SameAttempt /\ SameRecords /\ SameRequests
<1> DEFINE new == [rec.run EXCEPT !.phase = "Running", !.reason = "PauseAborted",
                                  !.conds = @ \ {"PauseCheckpointReady"}]
<1>1. Persist(new, "idle") /\ "idle" \in Steps
  BY DEF AbortStatus, Steps
<1>2. /\ new.phase = "Running" /\ new.reason = "PauseAborted"
      /\ new.bucket = rec.run.bucket
      /\ new.attempt = rec.run.attempt /\ new.restarts = rec.run.restarts
      /\ new.podName = rec.run.podName /\ new.lastCk = rec.run.lastCk
      /\ new.annots = rec.run.annots
      /\ new.conds = rec.run.conds \ {"PauseCheckpointReady"}
  BY DEF IInv, ObjectTypes, Runs
<1> HIDE DEF new
<1>3. \/ Ended
      \/ rec.run = run /\ run' = new /\ rec'.pc = "idle" /\ rec'.proof \in {rec.proof, None}
  BY <1>1, WriteCases
<1>4. QED
  BY <1>2, <1>3 DEF Wrote, SameAttempt, Gen, AttemptGeneration, SameRecords, SameRequests

\* The write that records the pod's identity (reconcilePodState).
LEMMA IdentityWrite ==
  ASSUME IInv, RecordPod
  PROVE  \/ Ended
         \/ /\ Wrote("idle") /\ run'.podName = Gen /\ run'.lastCk = run.lastCk
            /\ SameAttempt /\ SamePhase /\ SameRequests /\ SameConds
<1> DEFINE new == [rec.run EXCEPT !.podName = CurrentGen]
<1>1. Persist(new, "idle") /\ "idle" \in Steps
  BY DEF RecordPod, Steps
<1>2. /\ new.phase = rec.run.phase /\ new.reason = rec.run.reason
      /\ new.bucket = rec.run.bucket
      /\ new.attempt = rec.run.attempt /\ new.restarts = rec.run.restarts
      /\ new.podName = AttemptGeneration(rec.run) /\ new.lastCk = rec.run.lastCk
      /\ new.annots = rec.run.annots /\ new.conds = rec.run.conds
  BY DEF IInv, ObjectTypes, Runs, CurrentGen
<1> HIDE DEF new
<1>3. \/ Ended
      \/ rec.run = run /\ run' = new /\ rec'.pc = "idle" /\ rec'.proof \in {rec.proof, None}
  BY <1>1, WriteCases
<1>4. QED
  BY <1>2, <1>3 DEF Wrote, SameAttempt, Gen, AttemptGeneration, SamePhase, SameRequests,
     SameConds

\* The write that reports a running pod, with or without a later checkpoint
\* (reconcilePodState, scrapeCheckpointStatus).
LEMMA RunningWrite ==
  ASSUME IInv, ObserveRunning
  PROVE  \/ Ended
         \/ /\ Wrote("idle") /\ run'.phase = "Running"
            /\ run'.reason = "PodRunning" \/ (run'.reason = run.reason /\ run.phase = "Running")
            /\ run'.podName = run.podName
            /\ \/ run'.lastCk = run.lastCk
               \/ run'.lastCk = pods[CurrentGen].ck /\ pods[CurrentGen].ck > run.lastCk
            /\ SameAttempt /\ SameRequests /\ SameConds
<1>1. PICK ck \in Scraped :
        LET seen == [rec.run EXCEPT !.lastCk = ck, !.phase = "Running",
                       !.reason = IF rec.run.phase = "Running" THEN @ ELSE "PodRunning"]
        IN Ended \/ Persist(seen, "idle")
  BY DEF ObserveRunning, Return, Ended
<1> DEFINE why == IF rec.run.phase = "Running" THEN rec.run.reason ELSE "PodRunning"
           new == [rec.run EXCEPT !.lastCk = ck, !.phase = "Running", !.reason = why]
<1>2. Ended \/ Persist(new, "idle")
  BY <1>1
<1>3. /\ new.phase = "Running" /\ new.reason = why
      /\ new.bucket = rec.run.bucket
      /\ new.attempt = rec.run.attempt /\ new.restarts = rec.run.restarts
      /\ new.podName = rec.run.podName /\ new.lastCk = ck
      /\ new.annots = rec.run.annots /\ new.conds = rec.run.conds
  <2> HIDE DEF why
  <2>1. QED
    BY DEF IInv, ObjectTypes, Runs
<1>4. \/ ck = rec.run.lastCk
      \/ ck = pods[CurrentGen].ck /\ pods[CurrentGen].ck > rec.run.lastCk
  BY <1>1 DEF Scraped
<1>5. why = "PodRunning" \/ (why = rec.run.reason /\ rec.run.phase = "Running")
  OBVIOUS
<1> HIDE DEF new, why
<1>6. \/ Ended
      \/ rec.run = run /\ run' = new /\ rec'.pc = "idle" /\ rec'.proof \in {rec.proof, None}
  BY <1>2, WriteCases DEF Steps
<1>7. QED
  BY <1>3, <1>4, <1>5, <1>6 DEF Wrote, SameAttempt, Gen, AttemptGeneration, SameRequests,
     SameConds

\* What a charged attempt changes (advanceAttempt and the retry counter).
LEMMA ChargedFields ==
  ASSUME NEW r \in Runs, AttemptGeneration(r) < MaxGen
  PROVE  /\ Charged(r) \in Runs
         /\ AttemptGeneration(Charged(r)) = AttemptGeneration(r) + 1
         /\ Charged(r).restarts = r.restarts + 1
         /\ Charged(r).bucket = r.bucket
         /\ Charged(r).phase = r.phase /\ Charged(r).reason = r.reason
         /\ Charged(r).podName = r.podName /\ Charged(r).lastCk = r.lastCk
         /\ Charged(r).annots = r.annots /\ Charged(r).conds = r.conds
<1> DEFINE n == AttemptGeneration(r) + 1
<1>1. Charged(r) = [r EXCEPT !.attempt = n, !.restarts = r.restarts + 1]
  BY DEF Charged, AdvanceAttempt, Runs
<1> HIDE DEF n
<1>2. QED
  BY <1>1, ChargedType DEF Runs

\* The write of a charged retry (handleMissingPod, handlePodFailure).
LEMMA RetryWrite ==
  ASSUME IInv, Persist(Interrupted(rec.run), "idle"), CurrentGen < MaxGen
  PROVE  \/ Ended
         \/ /\ Wrote("idle") /\ Gen' = Gen + 1 /\ run'.restarts = run.restarts + 1
            /\ run'.phase = "Interrupted" /\ run'.reason = run.reason
            /\ run'.conds = run.conds \cup {"Resuming"}
            /\ SameRecords /\ SameRequests
<1> DEFINE c == Charged(rec.run)
           new == [c EXCEPT !.phase = "Interrupted", !.conds = c.conds \cup {"Resuming"}]
<1>1. /\ c \in Runs /\ AttemptGeneration(c) = AttemptGeneration(rec.run) + 1
      /\ c.restarts = rec.run.restarts + 1 /\ c.bucket = rec.run.bucket
      /\ c.reason = rec.run.reason
      /\ c.podName = rec.run.podName /\ c.lastCk = rec.run.lastCk
      /\ c.annots = rec.run.annots /\ c.conds = rec.run.conds
  BY ChargedFields DEF CurrentGen, IInv, ObjectTypes
<1>2. Persist(new, "idle") /\ "idle" \in Steps
  BY DEF Interrupted, Steps
<1> HIDE DEF c
<1>3. /\ new.phase = "Interrupted" /\ new.reason = c.reason /\ new.bucket = c.bucket
      /\ new.attempt = c.attempt /\ new.restarts = c.restarts
      /\ new.podName = c.podName /\ new.lastCk = c.lastCk
      /\ new.annots = c.annots /\ new.conds = c.conds \cup {"Resuming"}
  BY <1>1 DEF Runs
<1> HIDE DEF new
<1>4. AttemptGeneration(new) = AttemptGeneration(rec.run) + 1
  BY <1>1, <1>3 DEF AttemptGeneration
<1>5. \/ Ended
      \/ rec.run = run /\ run' = new /\ rec'.pc = "idle" /\ rec'.proof \in {rec.proof, None}
  BY <1>2, WriteCases
<1>6. QED
  BY <1>1, <1>3, <1>4, <1>5 DEF Wrote, Gen, SameRecords, SameRequests

\* The write that resumes a halted run (resume).
LEMMA ResumeWrite ==
  ASSUME IInv, ResumeStatus
  PROVE  \/ Ended
         \/ /\ Wrote("idle") /\ Gen' = Gen + 1
            /\ run'.restarts = IF run.phase = "Paused" THEN run.restarts ELSE 0
            /\ run'.phase = "Interrupted" /\ run'.reason = run.reason
            /\ run'.conds = run.conds \cup {"Resuming"}
                 \cup (IF run.phase = "Paused" THEN {"PauseResumePending"} ELSE {})
            /\ SameRecords /\ SameRequests
<1> DEFINE r == rec.run
           a == AttemptGeneration(r) + 1
           n == IF r.phase = "Paused" THEN r.restarts ELSE 0
           C == r.conds \cup {"Resuming"}
                  \cup (IF r.phase = "Paused" THEN {"PauseResumePending"} ELSE {})
           new == [r EXCEPT !.attempt = a, !.restarts = n, !.phase = "Interrupted",
                            !.conds = C]
<1>t. r \in Runs
  BY DEF IInv, ObjectTypes
<1>1. Resumed(r) = new
  BY <1>t DEF Resumed, AdvanceAttempt, Runs
<1>2. Persist(new, "idle") /\ "idle" \in Steps
  BY <1>1 DEF ResumeStatus, Steps
<1>3. a > n /\ a \in Nat /\ n \in Nat
  BY <1>t, OperatorConstants DEF AttemptGeneration, Runs, Gens
<1> HIDE DEF a, n, C
<1>4. /\ new.phase = "Interrupted" /\ new.reason = r.reason /\ new.bucket = r.bucket
      /\ new.attempt = a /\ new.restarts = n
      /\ new.podName = r.podName /\ new.lastCk = r.lastCk
      /\ new.annots = r.annots /\ new.conds = C
  BY <1>t DEF Runs
<1> HIDE DEF new, r
<1>5. AttemptGeneration(new) = a
  BY <1>3, <1>4 DEF AttemptGeneration
<1>6. \/ Ended
      \/ r = run /\ run' = new /\ rec'.pc = "idle" /\ rec'.proof \in {rec.proof, None}
  BY <1>2, WriteCases DEF r
<1>7. QED
  BY <1>4, <1>5, <1>6 DEF Wrote, Gen, SameRecords, SameRequests, a, n, C, r

\* The write that records the loss of the disk: charged, unless a recovery is
\* under way, whose pod is then forgotten (ensurePVC).
LEMMA RestoreWrite ==
  ASSUME IInv, RestoreStatus
  PROVE  \/ Ended
         \/ /\ Wrote("idle")
            /\ run'.phase = "Interrupted" /\ run'.reason = run.reason
            /\ run'.conds = run.conds \cup {"WorkspaceRestorePending"}
            /\ run'.lastCk = run.lastCk /\ SameRequests
            /\ \/ "Resuming" \in run.conds /\ SameAttempt /\ run'.podName = None
               \/ /\ "Resuming" \notin run.conds /\ run'.podName = run.podName
                  /\ Gen' = Gen + 1 /\ run'.restarts = run.restarts + 1
<1> DEFINE r == rec.run
           c == IF "Resuming" \in r.conds THEN [r EXCEPT !.podName = None] ELSE Charged(r)
           new == [c EXCEPT !.phase = "Interrupted",
                            !.conds = c.conds \cup {"WorkspaceRestorePending"}]
<1>t. r \in Runs /\ AttemptGeneration(r) < MaxGen
  BY DEF IInv, ObjectTypes, RestoreStatus, CurrentGen
<1>1. /\ c \in Runs /\ c.bucket = r.bucket /\ c.reason = r.reason /\ c.lastCk = r.lastCk
      /\ c.annots = r.annots /\ c.conds = r.conds
      /\ \/ /\ "Resuming" \in r.conds /\ c.podName = None
            /\ AttemptGeneration(c) = AttemptGeneration(r) /\ c.restarts = r.restarts
         \/ /\ "Resuming" \notin r.conds /\ c.podName = r.podName
            /\ AttemptGeneration(c) = AttemptGeneration(r) + 1
            /\ c.restarts = r.restarts + 1
  <2>1. CASE "Resuming" \in r.conds
    <3>1. /\ c \in Runs /\ c.bucket = r.bucket /\ c.reason = r.reason /\ c.lastCk = r.lastCk
          /\ c.annots = r.annots /\ c.conds = r.conds /\ c.podName = None
          /\ c.attempt = r.attempt /\ c.restarts = r.restarts
      BY <1>t, <2>1 DEF Runs
    <3>2. QED
      BY <2>1, <3>1 DEF AttemptGeneration
  <2>2. CASE "Resuming" \notin r.conds
    <3>1. c = Charged(r)
      BY <2>2
    <3>2. QED
      BY <1>t, <2>2, <3>1, ChargedFields
  <2>3. QED
    BY <2>1, <2>2
<1>2. Persist(new, "idle") /\ "idle" \in Steps
  BY DEF RestoreStatus, Restoring, Steps
<1> HIDE DEF c, r
<1>3. /\ new.phase = "Interrupted" /\ new.reason = c.reason /\ new.bucket = c.bucket
      /\ new.attempt = c.attempt /\ new.restarts = c.restarts
      /\ new.podName = c.podName /\ new.lastCk = c.lastCk
      /\ new.annots = c.annots /\ new.conds = c.conds \cup {"WorkspaceRestorePending"}
  BY <1>1 DEF Runs
<1> HIDE DEF new
<1>4. AttemptGeneration(new) = AttemptGeneration(c)
  BY <1>3 DEF AttemptGeneration
<1>5. \/ Ended
      \/ r = run /\ run' = new /\ rec'.pc = "idle" /\ rec'.proof \in {rec.proof, None}
  BY <1>2, WriteCases DEF r
<1>6. QED
  BY <1>1, <1>3, <1>4, <1>5 DEF Wrote, Gen, SameAttempt, SameRequests, r

-----------------------------------------------------------------------------
(* One lemma per step of a pass: its guard and its effect, in terms of the *)
(* object, the pods and the disk as they are.                              *)

\* A write of the phase that went through.
PhaseSet(phase, reason) ==
  /\ Wrote("idle")
  /\ run'.phase = phase /\ run'.reason = reason
  /\ SameAttempt /\ SameRecords /\ SameRequests /\ SameConds

\* The current pod, if there is one, is told to stop.
PodDeleted ==
  pods' = IF pods[Gen].phase = "Absent" THEN pods ELSE [pods EXCEPT ![Gen].del = TRUE]

\* The harness of the current pod is told to stop or to go on.
Signalled(stop, ok, failed) ==
  \/ /\ Live(Gen) /\ Goes(ok) /\ spent' = spent
     /\ pods' = [pods EXCEPT ![Gen].stopped = stop]
  \/ ~Live(Gen) /\ Goes(failed) /\ UNCHANGED <<pods, spent>>
  \/ /\ Live(Gen) /\ Goes(failed) /\ Spend("exec")
     /\ pods' \in {pods, [pods EXCEPT ![Gen].stopped = stop]}

\* What the step of a pass says about the object.
LEMMA PassKnows ==
  ASSUME Tracks, rec.pc # "idle"
  PROVE  /\ rec.pc \in WorkSteps => run.phase \notin Terminal \cup {"", "Paused", "Pausing"}
         /\ rec.pc \in ProofSteps \cup AbortSteps =>
              run.phase = "Pausing" /\ run.bucket /\ ~Proven(run)
         /\ rec.pc \in RemovalSteps => run.phase = "Pausing" /\ Proven(run)
         /\ rec.pc \in {"restoreStatus", "lostStatus"} => run.phase # "Pending"
         /\ rec.pc = "restoreStatus" => run.bucket /\ ~RestoreRecorded(run)
         /\ rec.pc = "enterPausing" => /\ run.phase \notin Terminal \cup {"Paused", "Pausing"}
                                       /\ run.bucket /\ "pause" \in run.annots
         /\ rec.pc = "admit" => run.phase = ""
BY DEF Tracks, Agree, Knows, Proven, RestoreRecorded

\* A resume is of a halted run.
LEMMA ResumeKnows ==
  ASSUME IInv, Tracks, rec.pc \in ResumeSteps
  PROVE  run.phase \in Halted
BY DEF IInv, Copies, StepFits, Fits, Tracks, Agree, Halted, ResumeSteps

\* admit moves the run to Pending.
LEMMA AdmitMove ==
  ASSUME IInv, Admit
  PROVE  /\ rec.pc = "admit" /\ UNCHANGED <<cluster, client>>
         /\ Ended \/ PhaseSet("Pending", "Admitted")
BY PhaseWrite DEF Admit, At, PhaseSet, Phases, Reasons

\* cancel deletes the current pod before it reports.
LEMMA CancelMove ==
  ASSUME ~StaleReads, IInv, Tracks, Cancel
  PROVE  /\ rec.pc = "cancel" /\ UNCHANGED <<workspace, runSpec, client>>
         /\ Goes("cancelStatus") /\ PodDeleted
<1>1. rec.pc = "cancel" /\ SeenPod = pods[Gen] /\ CurrentGen = Gen
  BY FreshReads DEF Cancel, At
<1>2. Goes("cancelStatus")
  BY DEF Cancel, Continue, Goes, IInv, ObjectTypes
<1>3. QED
  BY <1>1, <1>2 DEF Cancel, DeleteCurrentPod, Terminate, PodDeleted

\* cancel then reports Canceled.
LEMMA CancelStatusMove ==
  ASSUME IInv, CancelStatus
  PROVE  /\ rec.pc = "cancelStatus" /\ UNCHANGED <<cluster, client>>
         /\ Ended \/ PhaseSet("Canceled", "Canceled")
BY PhaseWrite DEF CancelStatus, At, PhaseSet, Phases, Terminal, Reasons

\* resume deletes what is left of the current pod.
LEMMA ResumeMove ==
  ASSUME ~StaleReads, IInv, Tracks, Resume
  PROVE  /\ rec.pc = "resume" /\ UNCHANGED <<workspace, runSpec, client>>
         /\ Goes("resumeClear") /\ PodDeleted
<1>1. rec.pc = "resume" /\ SeenPod = pods[Gen] /\ CurrentGen = Gen
  BY FreshReads DEF Resume, At
<1>2. Goes("resumeClear")
  BY DEF Resume, Continue, Goes, IInv, ObjectTypes
<1>3. QED
  BY <1>1, <1>2 DEF Resume, DeleteCurrentPod, Terminate, PodDeleted

\* resume then withdraws its request.
LEMMA ResumeClearMove ==
  ASSUME IInv, ResumeClear
  PROVE  /\ rec.pc = "resumeClear" /\ UNCHANGED <<cluster, client>>
         /\ \/ Ended
            \/ /\ Wrote("resumeStatus") /\ run'.annots = run.annots \ {"resume"}
               /\ SameAttempt /\ SamePhase /\ SameRecords /\ SameConds
BY RequestWrite DEF ResumeClear, At, Steps

\* pause first journals Pausing.
LEMMA EnterPausingMove ==
  ASSUME IInv, EnterPausing
  PROVE  /\ rec.pc = "enterPausing" /\ UNCHANGED <<cluster, client>>
         /\ Ended \/ PhaseSet("Pausing", "Pausing")
BY PhaseWrite DEF EnterPausing, At, PhaseSet, Phases, Reasons

\* A pause without a pod fails the run.
LEMMA PausePodLostMove ==
  ASSUME ~StaleReads, IInv, Tracks, PausePodLost
  PROVE  /\ rec.pc = "quiesce" /\ pods[Gen].phase = "Absent" /\ UNCHANGED <<cluster, client>>
         /\ Ended \/ PhaseSet("Failed", "PausePodLost")
<1>1. rec.pc = "quiesce" /\ SeenPod = pods[Gen]
  BY FreshReads DEF PausePodLost, At
<1>2. Ended \/ PhaseSet("Failed", "PausePodLost")
  BY PhaseWrite DEF PausePodLost, PhaseSet, Phases, Terminal, Reasons
<1>3. QED
  BY <1>1, <1>2 DEF PausePodLost

\* A pause stops the harness of the current pod, or gives up.
LEMMA QuiesceMove ==
  ASSUME ~StaleReads, IInv, Tracks, Quiesce
  PROVE  /\ rec.pc = "quiesce" /\ pods[Gen].phase # "Absent"
         /\ UNCHANGED <<workspace, runSpec, asked>>
         /\ Signalled(TRUE, "snapshot", "unquiesce")
<1>1. rec.pc = "quiesce" /\ SeenPod = pods[Gen] /\ CurrentGen = Gen
  BY FreshReads DEF Quiesce, At
<1>2. ASSUME NEW step, Continue(step) PROVE Goes(step)
  BY <1>2 DEF Quiesce, Continue, Goes, IInv, ObjectTypes
<1>3. Signalled(TRUE, "snapshot", "unquiesce")
  BY <1>1, <1>2 DEF Quiesce, SignalHarness, Signalled, Live
<1>4. QED
  BY <1>1, <1>3 DEF Quiesce

\* A pause that gives up lets the harness continue, if it can.
LEMMA UnquiesceMove ==
  ASSUME ~StaleReads, IInv, Tracks, Unquiesce
  PROVE  /\ rec.pc = "unquiesce" /\ UNCHANGED <<workspace, runSpec, asked>>
         /\ Signalled(FALSE, "abortClear", "abortClear")
<1>1. rec.pc = "unquiesce" /\ CurrentGen = Gen
  BY FreshReads DEF Unquiesce, At
<1>2. ASSUME NEW step, Continue(step) PROVE Goes(step)
  BY <1>2 DEF Unquiesce, Continue, Goes, IInv, ObjectTypes
<1>3. Signalled(FALSE, "abortClear", "abortClear")
  BY <1>1, <1>2 DEF Unquiesce, SignalHarness, Signalled, Live
<1>4. QED
  BY <1>1, <1>3 DEF Unquiesce

\* A pause publishes the disk as its checkpoint, or gives up.
LEMMA SnapshotMove ==
  ASSUME ~StaleReads, IInv, Tracks, Snapshot
  PROVE  /\ rec.pc = "snapshot" /\ run' = run /\ rec'.run = rec.run
         /\ UNCHANGED <<pods, pvc, doomed, disk, work, runSpec, asked>>
         /\ \/ /\ Live(Gen) /\ latest' = disk /\ rec'.pc = "commitProof" /\ rec'.proof = disk
               /\ spent' = spent
            \/ ~Live(Gen) /\ Goes("unquiesce") /\ UNCHANGED <<latest, spent>>
            \/ Live(Gen) /\ Spend("exec") /\ latest' \in {latest, disk} /\ Goes("unquiesce")
<1>1. rec.pc = "snapshot" /\ CurrentGen = Gen
  BY FreshReads DEF Snapshot, At
<1>2. rec \in Recs
  BY DEF IInv, ObjectTypes, Recs
<1>3. run' = run
  BY DEF Snapshot
<1>4. ASSUME rec' = [rec EXCEPT !.pc = "commitProof", !.proof = disk]
      PROVE  rec'.pc = "commitProof" /\ rec'.proof = disk /\ rec'.run = rec.run
  BY <1>2, <1>4 DEF Recs
<1>5. ASSUME Continue("unquiesce") PROVE Goes("unquiesce") /\ rec'.run = rec.run
  BY <1>2, <1>3, <1>5 DEF Continue, Goes, Recs
<1>6. QED
  BY <1>1, <1>4, <1>5 DEF Snapshot, Live

\* A pause that gives up withdraws its request.
LEMMA AbortClearMove ==
  ASSUME IInv, AbortClear
  PROVE  /\ rec.pc = "abortClear" /\ UNCHANGED <<cluster, client>>
         /\ \/ Ended
            \/ /\ Wrote("abortStatus") /\ run'.annots = run.annots \ {"pause"}
               /\ SameAttempt /\ SamePhase /\ SameRecords /\ SameConds
BY RequestWrite DEF AbortClear, At, Steps

\* A proven pause removes the pod; once it is gone, the request.
LEMMA RemoveMove ==
  ASSUME ~StaleReads, IInv, Tracks, RemoveCheckpointedPod
  PROVE  /\ rec.pc = "removePod" /\ UNCHANGED <<workspace, runSpec, client>>
         /\ \/ /\ pods[Gen].phase # "Absent" /\ Ended
               /\ pods' = [pods EXCEPT ![Gen] = NoPod]
            \/ /\ pods[Gen].phase = "Absent" /\ pods' = pods
               /\ \/ Ended
                  \/ /\ Wrote("pausedStatus") /\ run'.annots = run.annots \ {"pause"}
                     /\ SameAttempt /\ SamePhase /\ SameRecords /\ SameConds
<1>1. rec.pc = "removePod" /\ SeenPod = pods[Gen] /\ CurrentGen = Gen
  BY FreshReads DEF RemoveCheckpointedPod, At
<1>2. CASE pods[Gen].phase # "Absent"
  BY <1>1, <1>2 DEF RemoveCheckpointedPod, Return, Ended
<1>3. CASE pods[Gen].phase = "Absent"
  <2>1. Persist([rec.run EXCEPT !.annots = @ \ {"pause"}], "pausedStatus")
    BY <1>1, <1>3 DEF RemoveCheckpointedPod
  <2>2. \/ Ended
        \/ /\ Wrote("pausedStatus") /\ run'.annots = run.annots \ {"pause"}
           /\ SameAttempt /\ SamePhase /\ SameRecords /\ SameConds
    BY <2>1, RequestWrite DEF Steps
  <2>3. QED
    BY <1>1, <1>3, <2>2 DEF RemoveCheckpointedPod
<1>4. QED
  BY <1>2, <1>3

\* pause reports Paused.
LEMMA PausedStatusMove ==
  ASSUME IInv, PausedStatus
  PROVE  /\ rec.pc = "pausedStatus" /\ UNCHANGED <<cluster, client>>
         /\ Ended \/ PhaseSet("Paused", "Paused")
BY PhaseWrite DEF PausedStatus, At, PhaseSet, Phases, Reasons

\* A pass records one missing posture condition.
LEMMA PostureMove ==
  ASSUME IInv, RecordPosture
  PROVE  /\ rec.pc = "prerequisites" /\ UNCHANGED <<cluster, client>>
         /\ \/ Ended
            \/ /\ Wrote("prerequisites")
               /\ \E c \in Posture : run'.conds = run.conds \cup {c}
               /\ SameAttempt /\ SamePhase /\ SameRecords /\ SameRequests
<1>1. PICK c \in Posture :
        Persist([rec.run EXCEPT !.conds = rec.run.conds \cup {c}], "prerequisites")
  BY DEF RecordPosture, Posture
<1>2. \/ Ended
      \/ /\ Wrote("prerequisites") /\ run'.conds = rec.run.conds \cup {c}
         /\ SameAttempt /\ SamePhase /\ SameRecords /\ SameRequests
  BY <1>1, CondsWrite DEF Steps
<1>3. QED
  BY <1>2 DEF RecordPosture, At, Wrote

\* What ensurePVC finds when the claim is missing.
LEMMA MissingMove ==
  ASSUME ~StaleReads, IInv, Tracks, MissingPVC
  PROVE  /\ rec.pc = "prerequisites" /\ ~pvc
         /\ SeenPod = pods[Gen] /\ CurrentGen = Gen
         /\ MayCreatePVC(rec.run) <=>
              run.phase = "Pending" \/ (run.bucket /\ RestoreRecorded(run))
         /\ CheckpointMountEnabled(rec.run) <=> run.bucket
<1>1. rec.pc = "prerequisites" /\ ~SeenPVC
  BY DEF MissingPVC, At
<1>2. /\ SeenPVC = pvc /\ SeenPod = pods[Gen] /\ CurrentGen = Gen
      /\ Agree(rec.run, run)
  BY <1>1, FreshReads
<1>3. QED
  BY <1>1, <1>2 DEF Agree, MayCreatePVC, CheckpointMountEnabled, RestoreRecorded

\* A claim is created for a first disk or for a recorded loss.
LEMMA CreateDiskMove ==
  ASSUME ~StaleReads, IInv, Tracks, CreateWorkspacePVC
  PROVE  /\ rec.pc = "prerequisites" /\ ~pvc
         /\ run.phase = "Pending" \/ RestoreRecorded(run)
         /\ UNCHANGED <<pods, doomed, work, latest, runSpec, client>>
         /\ pvc' = TRUE /\ disk' = 0 /\ Goes("runSpec")
<1>1. /\ rec.pc = "prerequisites" /\ ~pvc
      /\ run.phase = "Pending" \/ RestoreRecorded(run)
  BY MissingMove DEF CreateWorkspacePVC
<1>2. pvc' = TRUE /\ disk' = 0 /\ Continue("runSpec")
  BY <1>1 DEF CreateWorkspacePVC
<1>3. Goes("runSpec")
  BY <1>2 DEF CreateWorkspacePVC, Continue, Goes, IInv, ObjectTypes
<1>4. QED
  BY <1>1, <1>2, <1>3 DEF CreateWorkspacePVC

\* A loss seen for the first time takes the current pod with it.
LEMMA BeginRestoreMove ==
  ASSUME ~StaleReads, IInv, Tracks, BeginRestore
  PROVE  /\ rec.pc = "prerequisites" /\ ~pvc /\ run.bucket
         /\ run.phase # "Pending" /\ ~RestoreRecorded(run)
         /\ UNCHANGED <<workspace, runSpec, client>>
         /\ Goes("restoreStatus") /\ PodDeleted
<1>1. /\ rec.pc = "prerequisites" /\ ~pvc /\ run.bucket
      /\ run.phase # "Pending" /\ ~RestoreRecorded(run)
      /\ SeenPod = pods[Gen] /\ CurrentGen = Gen
  BY MissingMove DEF BeginRestore
<1>2. Goes("restoreStatus")
  BY DEF BeginRestore, Continue, Goes, IInv, ObjectTypes
<1>3. QED
  BY <1>1, <1>2 DEF BeginRestore, DeleteCurrentPod, Terminate, PodDeleted

\* So does one that no checkpoint can make good.
LEMMA WorkspaceLostMove ==
  ASSUME ~StaleReads, IInv, Tracks, WorkspaceLost
  PROVE  /\ rec.pc = "prerequisites" /\ ~pvc /\ ~run.bucket /\ run.phase # "Pending"
         /\ UNCHANGED <<workspace, runSpec, client>>
         /\ Goes("lostStatus") /\ PodDeleted
<1>1. /\ rec.pc = "prerequisites" /\ ~pvc /\ ~run.bucket /\ run.phase # "Pending"
      /\ SeenPod = pods[Gen] /\ CurrentGen = Gen
  BY MissingMove DEF WorkspaceLost
<1>2. Goes("lostStatus")
  BY DEF WorkspaceLost, Continue, Goes, IInv, ObjectTypes
<1>3. QED
  BY <1>1, <1>2 DEF WorkspaceLost, DeleteCurrentPod, Terminate, PodDeleted

\* The loss is recorded in one write.
LEMMA RestoreStatusMove ==
  ASSUME IInv, RestoreStatus
  PROVE  rec.pc = "restoreStatus" /\ UNCHANGED <<cluster, client>>
BY DEF RestoreStatus, At

\* A loss that no checkpoint can make good fails the run.
LEMMA LostStatusMove ==
  ASSUME IInv, LostStatus
  PROVE  /\ rec.pc = "lostStatus" /\ UNCHANGED <<cluster, client>>
         /\ Ended \/ PhaseSet("Failed", "WorkspaceLost")
BY PhaseWrite DEF LostStatus, At, PhaseSet, Phases, Terminal, Reasons

\* The RunSpec is that of the run as it is.
LEMMA RunSpecMove ==
  ASSUME ~StaleReads, IInv, Tracks, EnsureRunSpec
  PROVE  /\ rec.pc = "runSpec" \/ (rec.pc = "prerequisites" /\ pvc)
         /\ UNCHANGED <<pods, workspace, client>>
         /\ runSpec' = BuildRunSpec(run) /\ Goes("ensurePod")
<1>1. rec.pc \in {"runSpec", "prerequisites"}
  BY DEF EnsureRunSpec, At
<1>2. Agree(rec.run, run) /\ SeenPVC = pvc
  BY <1>1, FreshReads
<1>3. BuildRunSpec(rec.run) = BuildRunSpec(run)
  BY <1>2 DEF Agree, BuildRunSpec, AttemptGeneration
<1>4. Goes("ensurePod")
  BY DEF EnsureRunSpec, Continue, Goes, IInv, ObjectTypes
<1>5. QED
  BY <1>2, <1>3, <1>4 DEF EnsureRunSpec, At

\* What ensurePod sees.
LEMMA EnsurePodSees ==
  ASSUME ~StaleReads, IInv, Tracks, rec.pc # "idle"
  PROVE  /\ SeenPod = pods[Gen] /\ CurrentGen = Gen /\ Gen \in Gens
         /\ PodRecorded <=> run.podName = Gen
         /\ BudgetExhausted(rec.run) <=> run.restarts >= MaxRestarts
         /\ rec.run.phase = run.phase /\ rec.run.conds = run.conds
BY FreshReads DEF Agree, PodRecorded, BudgetExhausted

\* A pod is created where none is, for an attempt that has none recorded.
LEMMA CreatePodMove ==
  ASSUME ~StaleReads, IInv, Tracks, CreatePod
  PROVE  /\ rec.pc = "ensurePod" /\ pods[Gen].phase = "Absent" /\ run.podName # Gen
         /\ UNCHANGED <<workspace, runSpec, client>>
         /\ pods' = [pods EXCEPT ![Gen] = FreshPod] /\ Goes("recordPod")
<1>1. rec.pc = "ensurePod" /\ pods[Gen].phase = "Absent" /\ run.podName # Gen /\ CurrentGen = Gen
  BY EnsurePodSees DEF CreatePod, PodMissing, At
<1>2. pods' = [pods EXCEPT ![Gen] = FreshPod] /\ Continue("recordPod")
  BY <1>1 DEF CreatePod
<1>3. Goes("recordPod")
  BY <1>2 DEF CreatePod, Continue, Goes, IInv, ObjectTypes
<1>4. QED
  BY <1>1, <1>2, <1>3 DEF CreatePod

\* A pod that may not be created fails the run.
LEMMA ForbiddenMove ==
  ASSUME ~StaleReads, IInv, Tracks, PodAdmissionForbidden
  PROVE  /\ rec.pc = "ensurePod" /\ pods[Gen].phase = "Absent" /\ run.podName # Gen
         /\ UNCHANGED <<cluster, asked>> /\ Spend("forbid")
         /\ Ended \/ PhaseSet("Failed", "PodAdmissionForbidden")
<1>1. rec.pc = "ensurePod" /\ pods[Gen].phase = "Absent" /\ run.podName # Gen
  BY EnsurePodSees DEF PodAdmissionForbidden, PodMissing, At
<1>2. Ended \/ PhaseSet("Failed", "PodAdmissionForbidden")
  BY PhaseWrite DEF PodAdmissionForbidden, PhaseSet, Phases, Terminal, Reasons
<1>3. QED
  BY <1>1, <1>2 DEF PodAdmissionForbidden

\* A pod is recorded after it is created or found.
LEMMA RecordPodMove ==
  ASSUME ~StaleReads, IInv, Tracks, RecordPod
  PROVE  /\ UNCHANGED <<cluster, client>>
         /\ \/ rec.pc = "recordPod"
            \/ rec.pc = "ensurePod" /\ pods[Gen].phase # "Absent" /\ run.podName # Gen
<1>1. rec.pc # "idle"
  BY DEF RecordPod, At
<1>2. QED
  BY <1>1, EnsurePodSees DEF RecordPod, At

\* A recorded pod that is gone costs a restart, or the run its budget.
LEMMA MissingPodMove ==
  ASSUME ~StaleReads, IInv, Tracks, HandleMissingPod
  PROVE  /\ rec.pc = "ensurePod" /\ pods[Gen].phase = "Absent" /\ run.podName = Gen
         /\ UNCHANGED <<cluster, client>>
         /\ \/ Ended
            \/ PhaseSet("Failed", "RetryBudgetExhausted")
            \/ /\ ~(run.restarts >= MaxRestarts)
               /\ Wrote("idle") /\ Gen' = Gen + 1 /\ run'.restarts = run.restarts + 1
               /\ run'.phase = "Interrupted" /\ run'.reason = run.reason
               /\ run'.conds = run.conds \cup {"Resuming"}
               /\ SameRecords /\ SameRequests
<1>1. /\ rec.pc = "ensurePod" /\ pods[Gen].phase = "Absent" /\ run.podName = Gen
      /\ BudgetExhausted(rec.run) <=> run.restarts >= MaxRestarts
  BY EnsurePodSees DEF HandleMissingPod, PodMissing, At
<1>2. CASE SetPhase("Failed", "RetryBudgetExhausted")
  <2>1. Ended \/ PhaseSet("Failed", "RetryBudgetExhausted")
    BY <1>2, PhaseWrite DEF PhaseSet, Phases, Terminal, Reasons
  <2>2. QED
    BY <1>1, <2>1 DEF HandleMissingPod
<1>3. CASE ~BudgetExhausted(rec.run) /\ CurrentGen < MaxGen /\ Persist(Interrupted(rec.run), "idle")
  <2>1. \/ Ended
        \/ /\ Wrote("idle") /\ Gen' = Gen + 1 /\ run'.restarts = run.restarts + 1
           /\ run'.phase = "Interrupted" /\ run'.reason = run.reason
           /\ run'.conds = run.conds \cup {"Resuming"}
           /\ SameRecords /\ SameRequests
    BY <1>3, RetryWrite
  <2>2. QED
    BY <1>1, <1>3, <2>1 DEF HandleMissingPod
<1>4. QED
  BY <1>2, <1>3 DEF HandleMissingPod

\* A pod that is leaving, or known, is left alone.
LEMMA NothingMove ==
  ASSUME ObserveNothing
  PROVE  Ended /\ UNCHANGED <<cluster, client>>
BY DEF ObserveNothing, Return, Ended

\* What reconcilePodState sees of a pod it recorded earlier.
LEMMA FoundMove ==
  ASSUME ~StaleReads, IInv, Tracks, NEW S, PodFound(S)
  PROVE  /\ rec.pc = "ensurePod" /\ run.podName = Gen
         /\ ~pods[Gen].del /\ pods[Gen].phase \in S
BY EnsurePodSees DEF PodFound, At

\* A pod that has yet to start makes the run Provisioning.
LEMMA PendingMove ==
  ASSUME ~StaleReads, IInv, Tracks, ObservePending
  PROVE  /\ rec.pc = "ensurePod" /\ run.podName = Gen
         /\ ~pods[Gen].del /\ pods[Gen].phase = "Pending"
         /\ UNCHANGED <<cluster, client>>
         /\ Ended \/ PhaseSet("Provisioning", "PodPending")
<1>1. Ended \/ PhaseSet("Provisioning", "PodPending")
  BY PhaseWrite DEF ObservePending, PhaseSet, Phases, Reasons
<1>2. QED
  BY <1>1, FoundMove DEF ObservePending

\* A running pod ends the recovery.
LEMMA ClearMove ==
  ASSUME ~StaleReads, IInv, Tracks, ClearRecoveryConditions
  PROVE  /\ rec.pc = "ensurePod" /\ run.podName = Gen
         /\ ~pods[Gen].del /\ Live(Gen)
         /\ UNCHANGED <<cluster, client>>
         /\ \/ Ended
            \/ /\ Wrote("podRunning") /\ run'.conds = run.conds \ Recovery
               /\ SameAttempt /\ SamePhase /\ SameRecords /\ SameRequests
<1>1. Persist([rec.run EXCEPT !.conds = rec.run.conds \ Recovery], "podRunning")
  BY DEF ClearRecoveryConditions
<1>2. \/ Ended
      \/ /\ Wrote("podRunning") /\ run'.conds = rec.run.conds \ Recovery
         /\ SameAttempt /\ SamePhase /\ SameRecords /\ SameRequests
  BY <1>1, CondsWrite DEF Steps
<1>3. /\ rec.pc = "ensurePod" /\ run.podName = Gen
      /\ ~pods[Gen].del /\ pods[Gen].phase \in {"Running"}
  BY FoundMove DEF ClearRecoveryConditions
<1>4. QED
  BY <1>2, <1>3 DEF ClearRecoveryConditions, Wrote, Live

\* A running pod is observed, and its checkpoints with it.
LEMMA RunningMove ==
  ASSUME ~StaleReads, IInv, Tracks, ObserveRunning
  PROVE  /\ UNCHANGED <<cluster, client>>
         /\ \/ rec.pc = "podRunning"
            \/ rec.pc = "ensurePod" /\ run.podName = Gen /\ ~pods[Gen].del /\ Live(Gen)
         /\ CurrentGen = Gen
<1>1. CASE At("podRunning")
  BY <1>1, EnsurePodSees DEF ObserveRunning, At
<1>2. CASE PodFound({"Running"})
  BY <1>2, FoundMove, EnsurePodSees DEF ObserveRunning, Live
<1>3. QED
  BY <1>1, <1>2 DEF ObserveRunning

\* A pod that succeeded ends the run.
LEMMA SucceededMove ==
  ASSUME ~StaleReads, IInv, Tracks, ObserveSucceeded
  PROVE  /\ rec.pc = "ensurePod" /\ UNCHANGED <<cluster, client>>
         /\ pods[Gen].phase = "Succeeded" /\ ~pods[Gen].del
         /\ Ended \/ PhaseSet("Succeeded", "HarnessCompleted")
<1>1. Ended \/ PhaseSet("Succeeded", "HarnessCompleted")
  BY PhaseWrite DEF ObserveSucceeded, PhaseSet, Phases, Terminal, Reasons
<1>2. QED
  BY <1>1, FoundMove DEF ObserveSucceeded

\* So does one that failed for good or past the budget.
LEMMA FailTerminallyMove ==
  ASSUME ~StaleReads, IInv, Tracks, FailTerminally
  PROVE  /\ rec.pc = "ensurePod" /\ UNCHANGED <<cluster, client>>
         /\ pods[Gen].phase \in {"Fatal", "Retryable"} /\ ~pods[Gen].del
         /\ Ended \/ (\E why \in {"HarnessError", "RetryBudgetExhausted"} : PhaseSet("Failed", why))
<1>1. PICK why \in {"HarnessError", "RetryBudgetExhausted"} : SetPhase("Failed", why)
  BY DEF FailTerminally
<1>2. why \in Reasons /\ "Failed" \in Phases
  BY DEF Reasons, Phases, Terminal
<1>3. Ended \/ PhaseSet("Failed", why)
  BY <1>1, <1>2, PhaseWrite DEF PhaseSet
<1>4. QED
  BY <1>1, <1>3, FoundMove DEF FailTerminally

\* A pod that may be retried is deleted first.
LEMMA RetryPodMove ==
  ASSUME ~StaleReads, IInv, Tracks, RetryFailedPod
  PROVE  /\ rec.pc = "ensurePod" /\ UNCHANGED <<workspace, runSpec, client>>
         /\ run.podName = Gen /\ pods[Gen].phase = "Retryable" /\ ~pods[Gen].del
         /\ ~(run.restarts >= MaxRestarts)
         /\ Goes("failStatus") /\ pods' = [pods EXCEPT ![Gen].del = TRUE]
<1>1. /\ rec.pc = "ensurePod" /\ run.podName = Gen /\ pods[Gen].phase \in {"Retryable"}
      /\ ~pods[Gen].del
  BY FoundMove DEF RetryFailedPod
<1>2. CurrentGen = Gen /\ ~(run.restarts >= MaxRestarts)
  BY <1>1, EnsurePodSees DEF RetryFailedPod
<1>3. Goes("failStatus")
  BY DEF RetryFailedPod, Continue, Goes, IInv, ObjectTypes
<1>4. QED
  BY <1>1, <1>2, <1>3 DEF RetryFailedPod, Terminate

\* Its failure then costs a restart.
LEMMA FailStatusMove ==
  ASSUME IInv, FailStatus
  PROVE  /\ rec.pc = "failStatus" /\ UNCHANGED <<cluster, client>>
         /\ \/ Ended
            \/ /\ Wrote("idle") /\ Gen' = Gen + 1 /\ run'.restarts = run.restarts + 1
               /\ run'.phase = "Interrupted" /\ run'.reason = run.reason
               /\ run'.conds = run.conds \cup {"Resuming"}
               /\ SameRecords /\ SameRequests
BY RetryWrite DEF FailStatus, At

\* A pass starts with a step that fits the run as it is.
LEMMA ReconcileMove ==
  ASSUME ~StaleReads, IInv, PausingHasBucket, PauseRequests, Reconcile
  PROVE  /\ rec.pc = "idle" /\ UNCHANGED <<run, cluster, client>>
         /\ rec'.run = run /\ rec'.proof = None
         /\ rec'.pc \in {"admit", "cancel", "resume", "enterPausing", "quiesce", "removePod",
                         "prerequisites"}
         /\ Knows(rec'.pc, run)
<1> DEFINE step == RequestedTransition(run)
<1>1. SeenRun = run
  BY DEF SeenRun
<1>2. rec'.pc = step /\ rec'.run = run /\ rec'.proof = None /\ step # "idle"
  BY <1>1 DEF Reconcile
<1>3. CASE run.phase = "Paused"
  BY <1>2, <1>3 DEF RequestedTransition, Knows, WorkSteps, ProofSteps, AbortSteps,
     RemovalSteps, CancelSteps, ResumeSteps, Reconcile, At
<1>4. CASE run.phase \in Terminal
  BY <1>2, <1>4 DEF RequestedTransition, Knows, WorkSteps, ProofSteps, AbortSteps,
     RemovalSteps, CancelSteps, ResumeSteps, Reconcile, At, Terminal
<1>5. CASE run.phase # "Paused" /\ run.phase \notin Terminal
  <2>1. step = ActiveTransition(run)
    BY <1>5 DEF RequestedTransition
  <2>2. CASE "cancel" \in run.annots
    <3>1. step = "cancel"
      BY <2>1, <2>2 DEF ActiveTransition
    <3>2. QED
      BY <1>2, <3>1 DEF Knows, WorkSteps, ProofSteps, AbortSteps,
         RemovalSteps, CancelSteps, ResumeSteps, Reconcile, At
  <2>3. CASE "cancel" \notin run.annots /\ (run.phase = "Pausing" \/ "pause" \in run.annots)
    <3>1. run.bucket
      BY <2>3 DEF PausingHasBucket, PauseRequests
    <3>2. step = PauseTransition(run)
      BY <2>1, <2>3 DEF ActiveTransition
    <3>3. CASE run.phase # "Pausing"
      <4>1. step = "enterPausing"
        BY <3>1, <3>2, <3>3 DEF PauseTransition, CheckpointMountEnabled
      <4>2. QED
        BY <1>2, <1>5, <2>3, <3>1, <3>3, <4>1 DEF Knows, WorkSteps, ProofSteps, AbortSteps,
           RemovalSteps, CancelSteps, ResumeSteps, Reconcile, At
    <3>4. CASE run.phase = "Pausing"
      <4>1. \/ step = "removePod" /\ Proven(run)
            \/ step = "quiesce" /\ ~Proven(run)
        BY <3>1, <3>2, <3>4 DEF PauseTransition, CheckpointMountEnabled, Proven
      <4>2. QED
        BY <1>2, <2>3, <3>1, <3>4, <4>1 DEF Knows, WorkSteps, ProofSteps, AbortSteps,
           RemovalSteps, CancelSteps, ResumeSteps, Reconcile, At
    <3>5. QED
      BY <3>3, <3>4
  <2>4. CASE "cancel" \notin run.annots /\ run.phase # "Pausing" /\ "pause" \notin run.annots
    <3>1. step = IF run.phase = "" THEN "admit" ELSE "prerequisites"
      BY <2>1, <2>4 DEF ActiveTransition
    <3>2. QED
      BY <1>2, <1>5, <2>4, <3>1 DEF Knows, WorkSteps, ProofSteps, AbortSteps,
         RemovalSteps, CancelSteps, ResumeSteps, Reconcile, At
  <2>5. QED
    BY <2>2, <2>3, <2>4
<1>6. QED
  BY <1>3, <1>4, <1>5

-----------------------------------------------------------------------------
(* The copy keeps up with the object.                                      *)

\* A pass that ends has no copy left to keep.
LEMMA TracksEnded == ASSUME rec'.pc = "idle" PROVE Tracks'
BY DEF Tracks

\* A pass that goes on keeps its copy.
LEMMA TracksGoes ==
  ASSUME Tracks, rec.pc # "idle", run' = run, rec'.run = rec.run, Knows(rec'.pc, rec.run)
  PROVE  Tracks'
<1>1. Agree(rec.run, run) /\ rec.run.annots \subseteq run.annots
  BY DEF Tracks
<1>2. Agree(rec'.run, run') /\ rec'.run.annots \subseteq run'.annots /\ Knows(rec'.pc, rec'.run)
  BY <1>1
<1>3. QED
  BY <1>2 DEF Tracks

\* A pass that wrote the object goes on with what it wrote.
LEMMA TracksWrote ==
  ASSUME rec'.run = run', Knows(rec'.pc, run')
  PROVE  Tracks'
BY DEF Tracks, Agree

\* Every step keeps the copy of the pass in flight up with the object.
LEMMA TracksStep ==
  ASSUME ~StaleReads, IInv, SInv, [Next]_vars
  PROVE  Tracks'
<1>s. Tracks
  BY DEF SInv
<1>i. Idle.pc = "idle"
  BY DEF Idle
<1>k. rec.pc # "idle" => Knows(rec.pc, rec.run)
  BY <1>s DEF Tracks
<1>1. ASSUME Ended \/ Wrote("idle") PROVE Tracks'
  BY <1>1, <1>i, TracksEnded DEF Ended, Wrote
<1>2. ASSUME Reconcile PROVE Tracks'
  <2>1. rec'.run = run /\ run' = run /\ Knows(rec'.pc, run)
    BY <1>2, ReconcileMove DEF SInv
  <2>2. QED
    BY <2>1, TracksWrote
<1>3. ASSUME Admit \/ CancelStatus \/ EnterPausing \/ PausePodLost \/ PausedStatus \/ LostStatus
             \/ PodAdmissionForbidden \/ ObservePending \/ ObserveSucceeded \/ FailTerminally
      PROVE  Tracks'
  BY <1>1, <1>3, <1>s, AdmitMove, CancelStatusMove, EnterPausingMove, PausePodLostMove,
     PausedStatusMove, LostStatusMove, ForbiddenMove, PendingMove, SucceededMove,
     FailTerminallyMove DEF PhaseSet
<1>4. ASSUME ResumeStatus \/ CommitProof \/ AbortStatus \/ RestoreStatus \/ RecordPod
             \/ ObserveRunning \/ HandleMissingPod \/ FailStatus \/ ObserveNothing
      PROVE  Tracks'
  BY <1>1, <1>4, <1>s, ResumeWrite, ProofWrite, AbortWrite, RestoreWrite, IdentityWrite,
     RunningWrite, MissingPodMove, FailStatusMove, NothingMove DEF PhaseSet
<1>5. ASSUME Cancel \/ Resume PROVE Tracks'
  <2>1. /\ rec.pc \in {"cancel", "resume"} /\ run' = run /\ rec'.run = rec.run
        /\ rec'.pc \in {"cancelStatus", "resumeClear"}
    BY <1>5, <1>s, CancelMove, ResumeMove DEF Goes
  <2>2. Knows(rec'.pc, rec.run)
    BY <1>k, <2>1 DEF Knows, WorkSteps, ProofSteps, AbortSteps, RemovalSteps, CancelSteps,
       ResumeSteps
  <2>3. QED
    BY <1>s, <2>1, <2>2, TracksGoes
<1>6. ASSUME ResumeClear PROVE Tracks'
  <2>1. CASE Ended
    BY <1>1, <2>1
  <2>2. CASE /\ rec.pc = "resumeClear" /\ rec.run = run
             /\ Wrote("resumeStatus") /\ run'.annots = run.annots \ {"resume"}
    <3>1. Knows("resumeStatus", run')
      BY DEF Knows, WorkSteps, ProofSteps, AbortSteps, RemovalSteps, CancelSteps, ResumeSteps
    <3>2. QED
      BY <2>2, <3>1, TracksWrote DEF Wrote
  <2>3. QED
    BY <1>6, <2>1, <2>2, ResumeClearMove DEF Wrote
<1>7. ASSUME Quiesce \/ Snapshot \/ Unquiesce PROVE Tracks'
  <2>1. /\ rec.pc \in ProofSteps /\ run' = run /\ rec'.run = rec.run
        /\ rec'.pc \in {"snapshot", "commitProof", "unquiesce", "abortClear"}
    BY <1>7, <1>s, QuiesceMove, SnapshotMove, UnquiesceMove DEF Signalled, Goes, ProofSteps
  <2>2. Knows(rec'.pc, rec.run)
    BY <1>k, <2>1 DEF Knows, WorkSteps, ProofSteps, AbortSteps, RemovalSteps, CancelSteps,
       ResumeSteps
  <2>3. QED
    BY <1>s, <2>1, <2>2, TracksGoes DEF ProofSteps
<1>8. ASSUME AbortClear \/ RemoveCheckpointedPod PROVE Tracks'
  <2>1. \/ Ended
        \/ /\ run'.annots = run.annots \ {"pause"} /\ SamePhase /\ SameRecords /\ SameConds
           /\ \/ rec.pc = "abortClear" /\ Wrote("abortStatus")
              \/ rec.pc = "removePod" /\ Wrote("pausedStatus")
    BY <1>8, <1>s, AbortClearMove, RemoveMove
  <2>2. CASE rec.pc = "abortClear" /\ Wrote("abortStatus")
    <3>1. CASE Ended
      BY <1>1, <3>1
    <3>2. CASE run'.annots = run.annots \ {"pause"} /\ SamePhase /\ SameRecords /\ SameConds
      <4>1. Knows("abortStatus", run')
        BY <1>k, <2>2, <3>2 DEF Knows, WorkSteps, ProofSteps, AbortSteps, RemovalSteps,
           CancelSteps, ResumeSteps, Wrote, SamePhase, SameRecords, SameConds, Proven
      <4>2. QED
        BY <2>2, <4>1, TracksWrote DEF Wrote
    <3>3. QED
      BY <2>1, <3>1, <3>2
  <2>3. CASE rec.pc = "removePod" /\ Wrote("pausedStatus")
    <3>1. CASE Ended
      BY <1>1, <3>1
    <3>2. CASE run'.annots = run.annots \ {"pause"} /\ SamePhase /\ SameRecords /\ SameConds
      <4>1. Knows("pausedStatus", run')
        BY <1>k, <2>3, <3>2 DEF Knows, WorkSteps, ProofSteps, AbortSteps, RemovalSteps,
           CancelSteps, ResumeSteps, Wrote, SamePhase, SameRecords, SameConds, Proven
      <4>2. QED
        BY <2>3, <4>1, TracksWrote DEF Wrote
    <3>3. QED
      BY <2>1, <3>1, <3>2
  <2>4. QED
    BY <1>1, <2>1, <2>2, <2>3
<1>9. ASSUME RecordPosture PROVE Tracks'
  <2>1. CASE Ended
    BY <1>1, <2>1
  <2>2. CASE /\ rec.pc = "prerequisites" /\ Wrote("prerequisites")
             /\ SamePhase /\ SameRequests
    <3>1. Knows("prerequisites", run')
      BY <1>k, <2>2 DEF Knows, WorkSteps, ProofSteps, AbortSteps, RemovalSteps,
         CancelSteps, ResumeSteps, Wrote, SamePhase, SameRequests
    <3>2. QED
      BY <2>2, <3>1, TracksWrote DEF Wrote
  <2>3. QED
    BY <1>9, <2>1, <2>2, PostureMove
<1>10. ASSUME ClearRecoveryConditions PROVE Tracks'
  <2>1. CASE Ended
    BY <1>1, <2>1
  <2>2. CASE /\ rec.pc = "ensurePod" /\ Wrote("podRunning")
             /\ SamePhase /\ SameRequests
    <3>1. Knows("podRunning", run')
      BY <1>k, <2>2 DEF Knows, WorkSteps, ProofSteps, AbortSteps, RemovalSteps,
         CancelSteps, ResumeSteps, Wrote, SamePhase, SameRequests
    <3>2. QED
      BY <2>2, <3>1, TracksWrote DEF Wrote
  <2>3. QED
    BY <1>10, <1>s, <2>1, <2>2, ClearMove
<1>11. ASSUME BeginRestore \/ WorkspaceLost PROVE Tracks'
  <2>1. /\ rec.pc = "prerequisites" /\ run' = run /\ rec'.run = rec.run
        /\ run.phase # "Pending"
        /\ \/ rec'.pc = "lostStatus"
           \/ rec'.pc = "restoreStatus" /\ run.bucket /\ ~RestoreRecorded(run)
    BY <1>11, <1>s, BeginRestoreMove, WorkspaceLostMove DEF Goes
  <2>2. Agree(rec.run, run)
    BY <1>s, <2>1 DEF Tracks
  <2>3. Knows(rec'.pc, rec.run)
    BY <1>k, <2>1, <2>2 DEF Knows, WorkSteps, ProofSteps, AbortSteps, RemovalSteps,
       CancelSteps, ResumeSteps, Agree, RestoreRecorded
  <2>4. QED
    BY <1>s, <2>1, <2>3, TracksGoes
<1>12. ASSUME CreateWorkspacePVC \/ EnsureRunSpec \/ CreatePod \/ RetryFailedPod PROVE Tracks'
  <2>1. /\ rec.pc \in {"prerequisites", "runSpec", "ensurePod"}
        /\ run' = run /\ rec'.run = rec.run
        /\ rec'.pc \in {"runSpec", "ensurePod", "recordPod", "failStatus"}
    BY <1>12, <1>s, CreateDiskMove, RunSpecMove, CreatePodMove, RetryPodMove DEF Goes
  <2>2. Knows(rec'.pc, rec.run)
    BY <1>k, <2>1 DEF Knows, WorkSteps, ProofSteps, AbortSteps, RemovalSteps, CancelSteps,
       ResumeSteps
  <2>3. QED
    BY <1>s, <2>1, <2>2, TracksGoes
<1>13. CASE Operator
  BY <1>2, <1>3, <1>4, <1>5, <1>6, <1>7, <1>8, <1>9, <1>10, <1>11, <1>12, <1>13 DEF Operator
<1>14. ASSUME UNCHANGED <<run, rec>> PROVE Tracks'
  BY <1>14, <1>s DEF Tracks
<1>15. ASSUME Crash PROVE Tracks'
  BY <1>15, <1>i, TracksEnded DEF Crash, Return
<1>16. ASSUME NEW a \in Annotations, RequestAnnotation(a) PROVE Tracks'
  <2>1. /\ run' = [run EXCEPT !.annots = @ \cup {a}] /\ rec'.pc = rec.pc /\ rec'.run = rec.run
    BY <1>16 DEF RequestAnnotation, Supersede, IInv, ObjectTypes
  <2>2. Agree(rec.run, run) => Agree(rec.run, run')
    BY <2>1 DEF Agree, IInv, ObjectTypes, Runs
  <2>3. run.annots \subseteq run'.annots
    BY <2>1 DEF IInv, ObjectTypes, Runs
  <2>4. QED
    BY <1>s, <2>1, <2>2, <2>3 DEF Tracks
<1>17. QED
  BY <1>13, <1>14, <1>15, <1>16 DEF Next, vars, PodStep, Hydrate, Work, TakeCheckpoint, Exit,
     ExitRetryable, PodGone, LosePod, LoseNode, DoomedPVCGone, LosePVC, SyncRun, SyncPods,
     SyncPVC, Ask

-----------------------------------------------------------------------------
(* Phases and requests.                                                    *)

\* Which step of a pass takes the run to which phase.
Leads(step, phase) ==
  CASE phase = "Pending" -> step = "admit"
    [] phase = "Pausing" -> step = "enterPausing"
    [] phase = "Paused" -> step = "pausedStatus"
    [] phase = "Canceled" -> step = "cancelStatus"
    [] phase = "Failed" -> step \in {"quiesce", "lostStatus", "ensurePod"}
    [] phase = "Interrupted" -> step \in {"resumeStatus", "restoreStatus", "failStatus",
                                          "ensurePod"}
    [] phase = "Running" -> step \in {"abortStatus", "podRunning", "ensurePod"}
    [] phase \in {"Provisioning", "Succeeded"} -> step = "ensurePod"
    [] OTHER -> FALSE

\* A step of a pass withdraws requests at most, and moves the phase only along
\* Leads, with its last write.
LEMMA ObjectMoves ==
  ASSUME ~StaleReads, IInv, SInv, Operator
  PROVE  /\ run'.bucket = run.bucket /\ run'.annots \subseteq run.annots /\ asked' = asked
         /\ run'.phase # run.phase =>
              rec.run = run /\ rec'.pc = "idle" /\ Leads(rec.pc, run'.phase)
<1> DEFINE P == /\ run'.bucket = run.bucket /\ run'.annots \subseteq run.annots
                /\ asked' = asked
                /\ run'.phase # run.phase =>
                     rec.run = run /\ rec'.pc = "idle" /\ Leads(rec.pc, run'.phase)
<1>s. Tracks /\ PausingHasBucket /\ PauseRequests
  BY DEF SInv
<1>0. ASSUME run' = run, asked' = asked PROVE P
  BY <1>0
<1>1. ASSUME Ended, asked' = asked PROVE P
  BY <1>0, <1>1 DEF Ended
<1>2. ASSUME NEW p, NEW why, PhaseSet(p, why), Leads(rec.pc, p), asked' = asked PROVE P
  BY <1>2 DEF PhaseSet, Wrote, SameRequests
<1>3. ASSUME NEW step, Wrote(step), SamePhase, run'.annots \subseteq run.annots, asked' = asked
      PROVE  P
  BY <1>3 DEF Wrote, SamePhase
<1>4. ASSUME Wrote("idle"), SameRequests, Leads(rec.pc, run'.phase), asked' = asked
      PROVE  P
  BY <1>4 DEF Wrote, SameRequests
<1>5. ASSUME Reconcile PROVE P
  BY <1>0, <1>5, <1>s, ReconcileMove DEF client
<1>6. ASSUME Admit \/ CancelStatus \/ EnterPausing \/ PausedStatus \/ LostStatus PROVE P
  BY <1>1, <1>2, <1>6, AdmitMove, CancelStatusMove, EnterPausingMove,
     PausedStatusMove, LostStatusMove DEF Leads, client
<1>7. ASSUME PausePodLost \/ PodAdmissionForbidden \/ ObservePending \/ ObserveSucceeded PROVE P
  BY <1>1, <1>2, <1>7, <1>s, PausePodLostMove, ForbiddenMove, PendingMove, SucceededMove
     DEF Leads, client
<1>8. ASSUME FailTerminally PROVE P
  BY <1>1, <1>2, <1>8, <1>s, FailTerminallyMove DEF Leads, client
<1>9. ASSUME HandleMissingPod \/ FailStatus PROVE P
  BY <1>1, <1>2, <1>4, <1>9, <1>s, MissingPodMove, FailStatusMove DEF Leads, client
<1>10. ASSUME ResumeStatus PROVE P
  <2>1. rec.pc = "resumeStatus" /\ asked' = asked
    BY <1>10 DEF ResumeStatus, At, client
  <2>2. QED
    BY <1>1, <1>4, <1>10, <2>1, ResumeWrite DEF Leads
<1>11. ASSUME RestoreStatus PROVE P
  BY <1>1, <1>4, <1>11, RestoreWrite, RestoreStatusMove DEF Leads, client
<1>12. ASSUME AbortStatus PROVE P
  <2>1. rec.pc = "abortStatus" /\ asked' = asked
    BY <1>12 DEF AbortStatus, At, client
  <2>2. QED
    BY <1>1, <1>4, <1>12, <2>1, AbortWrite DEF Leads
<1>13. ASSUME ObserveRunning PROVE P
  <2>1. rec.pc \in {"podRunning", "ensurePod"} /\ asked' = asked
    BY <1>13, <1>s, RunningMove DEF client
  <2>2. QED
    BY <1>1, <1>4, <1>13, <2>1, RunningWrite DEF Leads
<1>14. ASSUME CommitProof \/ RecordPod PROVE P
  <2>1. asked' = asked
    BY <1>14 DEF CommitProof, RecordPod, client
  <2>2. QED
    BY <1>1, <1>3, <1>14, <2>1, ProofWrite, IdentityWrite DEF SameRequests
<1>15. ASSUME ResumeClear \/ AbortClear \/ RemoveCheckpointedPod PROVE P
  BY <1>1, <1>3, <1>15, <1>s, ResumeClearMove, AbortClearMove, RemoveMove DEF client
<1>16. ASSUME RecordPosture \/ ClearRecoveryConditions PROVE P
  BY <1>1, <1>3, <1>16, <1>s, PostureMove, ClearMove DEF SameRequests, client
<1>17. ASSUME Cancel \/ Resume \/ Quiesce \/ Snapshot \/ Unquiesce \/ CreateWorkspacePVC
              \/ BeginRestore \/ WorkspaceLost \/ EnsureRunSpec \/ CreatePod \/ RetryFailedPod
              \/ ObserveNothing
       PROVE  P
  BY <1>0, <1>17 DEF Cancel, Resume, Quiesce, Snapshot, Unquiesce, CreateWorkspacePVC,
     BeginRestore, WorkspaceLost, EnsureRunSpec, CreatePod, RetryFailedPod, ObserveNothing,
     client
<1> HIDE DEF P
<1>18. P
  BY <1>5, <1>6, <1>7, <1>8, <1>9, <1>10, <1>11, <1>12, <1>13, <1>14, <1>15, <1>16, <1>17
     DEF Operator
<1>19. QED
  BY <1>18 DEF P

\* What the environment may do to the object: add the requests asked for.
LEMMA ObjectEnvironment ==
  ASSUME IInv, [Next]_vars, ~Operator
  PROVE  /\ run'.bucket = run.bucket /\ run'.phase = run.phase /\ run'.reason = run.reason
         /\ run'.restarts = run.restarts /\ Gen' = Gen
         /\ run'.podName = run.podName /\ run'.lastCk = run.lastCk /\ run'.conds = run.conds
         /\ run.annots \subseteq run'.annots
         /\ rec' = Idle \/ (rec'.pc = rec.pc /\ rec'.run = rec.run /\ rec'.proof = rec.proof)
<1>1. CASE UNCHANGED <<run, rec>>
  BY <1>1 DEF Gen
<1>2. CASE Crash
  BY <1>2 DEF Crash, Return, Gen
<1>3. ASSUME NEW a \in Annotations, RequestAnnotation(a)
      PROVE  /\ run'.bucket = run.bucket /\ run'.phase = run.phase
             /\ run'.reason = run.reason
             /\ run'.restarts = run.restarts /\ Gen' = Gen
             /\ run'.podName = run.podName /\ run'.lastCk = run.lastCk /\ run'.conds = run.conds
             /\ run.annots \subseteq run'.annots
             /\ rec'.pc = rec.pc /\ rec'.run = rec.run /\ rec'.proof = rec.proof
  <2>1. /\ run' = [run EXCEPT !.annots = @ \cup {a}] /\ rec'.pc = rec.pc /\ rec'.run = rec.run
        /\ rec'.proof = rec.proof
    BY <1>3 DEF RequestAnnotation, Supersede, IInv, ObjectTypes
  <2>2. run \in Runs
    BY DEF IInv, ObjectTypes
  <2>3. QED
    BY <2>1, <2>2 DEF Runs, Gen, AttemptGeneration
<1>4. QED
  BY <1>1, <1>2, <1>3 DEF Next, vars, PodStep, Hydrate, Work, TakeCheckpoint, Exit,
     ExitRetryable, PodGone, LosePod, LoseNode, DoomedPVCGone, LosePVC, SyncRun, SyncPods,
     SyncPVC, Ask

\* Every step keeps pauses to runs with checkpoints that are past Pending.
LEMMA RequestsStep ==
  ASSUME ~StaleReads, IInv, SInv, [Next]_vars
  PROVE  PausingHasBucket' /\ PauseRequests'
<1>s. Tracks /\ PausingHasBucket /\ PauseRequests
  BY DEF SInv
<1>1. CASE Operator
  <2>1. /\ run'.bucket = run.bucket /\ run'.annots \subseteq run.annots /\ asked' = asked
        /\ run'.phase # run.phase =>
             rec.run = run /\ rec'.pc = "idle" /\ Leads(rec.pc, run'.phase)
    BY <1>1, ObjectMoves
  <2>2. run'.phase = "Pausing" => run.bucket
    BY <1>s, <2>1, PassKnows DEF PausingHasBucket, Leads
  <2>3. run'.phase \in {"", "Pending"} => run.phase \in {"", "Pending"}
    BY <1>s, <2>1, PassKnows DEF Leads
  <2>4. QED
    BY <1>s, <2>1, <2>2, <2>3 DEF PausingHasBucket, PauseRequests
<1>2. CASE ~Operator
  <2>1. run'.bucket = run.bucket /\ run'.phase = run.phase
    BY <1>2, ObjectEnvironment
  <2>2. PausingHasBucket'
    BY <1>s, <2>1 DEF PausingHasBucket
  <2>3. ASSUME NEW a \in Annotations, Ask(a) PROVE PauseRequests'
    <3>1. run' = run /\ asked' = asked \cup {a} /\ MayAsk(a)
      BY <2>3 DEF Ask
    <3>2. a = "pause" => run.bucket /\ run.phase = "Running"
      BY <3>1 DEF MayAsk, CheckpointMountEnabled
    <3>3. QED
      BY <1>s, <3>1, <3>2 DEF PauseRequests
  <2>4. ASSUME NEW a \in Annotations, RequestAnnotation(a) PROVE PauseRequests'
    <3>1. a \in asked /\ asked' = asked \ {a} /\ run'.annots = run.annots \cup {a}
      BY <2>4 DEF RequestAnnotation, Supersede, IInv, ObjectTypes, Runs
    <3>2. QED
      BY <1>s, <2>1, <3>1 DEF PauseRequests
  <2>5. ASSUME UNCHANGED <<run, asked>> PROVE PauseRequests'
    BY <1>s, <2>5 DEF PauseRequests
  <2>6. PauseRequests'
    BY <1>2, <2>3, <2>4, <2>5 DEF Next, vars, PodStep, Hydrate, Work, TakeCheckpoint, Exit,
       ExitRetryable, PodGone, LosePod, LoseNode, DoomedPVCGone, LosePVC, SyncRun, SyncPods,
       SyncPVC, Crash, client
  <2>7. QED
    BY <2>2, <2>6
<1>3. QED
  BY <1>1, <1>2

-----------------------------------------------------------------------------
(* Pods.                                                                   *)

\* What happens to pod p, other than being created: it ends, it stays what it
\* is, or it comes up on a disk that is there.
Settles(p, q) ==
  \/ q.phase \notin {"Running", "Pending"}
  \/ q.phase = p.phase /\ (p.del => q.del)
  \/ /\ p.phase = "Pending" /\ ~p.del /\ q.phase = "Running"
     /\ pvc /\ ~doomed

\* Only CreatePod brings a new pod about.
LEMMA PodsMove ==
  ASSUME ~StaleReads, IInv, SInv, [Next]_vars, ~CreatePod
  PROVE  \A g \in Gens : Settles(pods[g], pods'[g])
<1> DEFINE P == \A g \in Gens : Settles(pods[g], pods'[g])
<1> SUFFICES P
  OBVIOUS
<1>s. Tracks
  BY DEF SInv
<1>t. pods \in [Gens -> Pods]
  BY DEF IInv, WorldTypes
<1>g. Gen \in Gens
  BY GenType DEF Gen, IInv, ObjectTypes
<1>p. NoPod.phase = "Absent"
  BY DEF NoPod
<1>1. ASSUME pods' = pods PROVE P
  BY <1>1 DEF Settles
<1>2. ASSUME NEW g \in Gens, NEW p \in Pods, pods' = [pods EXCEPT ![g] = p],
             Settles(pods[g], p)
      PROVE  P
  BY <1>2, <1>t DEF Settles
<1>3. ASSUME NEW g \in Gens, pods' = [pods EXCEPT ![g].del = TRUE] PROVE P
  <2> DEFINE p == [pods[g] EXCEPT !.del = TRUE]
  <2>1. p \in Pods /\ Settles(pods[g], p)
    BY <1>t DEF Pods, Settles
  <2>2. QED
    BY <1>2, <1>3, <2>1
<1>4. ASSUME PodDeleted PROVE P
  BY <1>1, <1>3, <1>4, <1>g DEF PodDeleted
<1>5. ASSUME Quiesce \/ Unquiesce PROVE P
  <2>1. pods' = pods \/ \E stop \in BOOLEAN : pods' = [pods EXCEPT ![Gen].stopped = stop]
    BY <1>5, <1>s, QuiesceMove, UnquiesceMove DEF Signalled
  <2>2. ASSUME NEW stop \in BOOLEAN, pods' = [pods EXCEPT ![Gen].stopped = stop] PROVE P
    <3> DEFINE p == [pods[Gen] EXCEPT !.stopped = stop]
    <3>1. p \in Pods /\ Settles(pods[Gen], p)
      BY <1>t, <1>g DEF Pods, Settles
    <3>2. QED
      BY <1>2, <1>g, <2>2, <3>1
  <2>3. QED
    BY <1>1, <2>1, <2>2
<1>6. ASSUME NEW g \in Gens, pods' = [pods EXCEPT ![g] = NoPod] PROVE P
  BY <1>6, <1>p, <1>t DEF Settles
<1>7. ASSUME NEW g \in Gens, NEW phase \in PodPhases \ {"Running", "Pending"},
             SetPodPhase(g, phase)
      PROVE  P
  <2> DEFINE p == [pods[g] EXCEPT !.phase = phase]
  <2>1. p \in Pods /\ Settles(pods[g], p)
    BY <1>t DEF Pods, Settles
  <2>2. QED
    BY <1>2, <1>7, <2>1 DEF SetPodPhase
<1>8. ASSUME NEW g \in Gens, Hydrate(g) PROVE P
  <2>1. CASE SetPodPhase(g, "Fatal")
    BY <1>7, <2>1 DEF PodPhases
  <2>2. CASE SetPodPhase(g, "Running")
    <3> DEFINE p == [pods[g] EXCEPT !.phase = "Running"]
    <3>1. p \in Pods /\ p.phase = "Running"
      BY <1>t DEF Pods, PodPhases
    <3>2. Settles(pods[g], p)
      BY <1>8, <3>1 DEF Settles, Hydrate
    <3>3. QED
      BY <1>2, <2>2, <3>1, <3>2 DEF SetPodPhase
  <2>3. QED
    BY <1>8, <2>1, <2>2 DEF Hydrate
<1>9. ASSUME NEW g \in Gens, TakeCheckpoint(g) PROVE P
  <2> DEFINE p == [pods[g] EXCEPT !.ck = disk]
  <2>1. p \in Pods /\ Settles(pods[g], p)
    BY <1>t DEF Pods, Settles, IInv, WorldTypes
  <2>2. QED
    BY <1>2, <1>9, <2>1 DEF TakeCheckpoint
<1>10. ASSUME NEW g \in Gens, Exit(g) \/ ExitRetryable(g) PROVE P
  <2>1. \E phase \in PodPhases \ {"Running", "Pending"} : SetPodPhase(g, phase)
    BY <1>10 DEF Exit, ExitRetryable, PodPhases
  <2>2. QED
    BY <1>7, <2>1
<1>11. ASSUME NEW g \in Gens, PodGone(g) \/ LosePod(g) PROVE P
  BY <1>3, <1>6, <1>11 DEF PodGone, LosePod
<1>12. ASSUME NEW g \in Gens, Work(g) PROVE P
  BY <1>1, <1>12 DEF Work
<1>13. ASSUME LoseNode PROVE P
  BY <1>13, <1>p DEF LoseNode, Settles
<1>14. ASSUME Cancel \/ Resume \/ BeginRestore \/ WorkspaceLost PROVE P
  BY <1>4, <1>14, <1>s, CancelMove, ResumeMove, BeginRestoreMove, WorkspaceLostMove
<1>15. ASSUME RemoveCheckpointedPod PROVE P
  BY <1>1, <1>6, <1>15, <1>g, <1>s, RemoveMove
<1>16. ASSUME RetryFailedPod PROVE P
  BY <1>3, <1>16, <1>g, <1>s, RetryPodMove
<1> HIDE DEF P
<1>17. CASE Operator
  <2>1. \/ pods' = pods \/ Cancel \/ Resume \/ BeginRestore \/ WorkspaceLost
        \/ Quiesce \/ Unquiesce \/ RemoveCheckpointedPod \/ RetryFailedPod
    BY <1>17 DEF Operator, Reconcile, Admit, CancelStatus, ResumeClear,
       ResumeStatus, EnterPausing, PausePodLost, Snapshot, CommitProof, AbortClear, AbortStatus,
       PausedStatus, RecordPosture, CreateWorkspacePVC, RestoreStatus,
       LostStatus, EnsureRunSpec, PodAdmissionForbidden, RecordPod,
       HandleMissingPod, ObserveNothing, ObservePending, ClearRecoveryConditions,
       ObserveRunning, ObserveSucceeded, FailTerminally, FailStatus, cluster
  <2>2. QED
    BY <1>1, <1>5, <1>14, <1>15, <1>16, <2>1
<1>18. CASE \E g \in Gens : PodStep(g)
  BY <1>8, <1>9, <1>10, <1>11, <1>12, <1>18 DEF PodStep
<1>19. CASE \/ DoomedPVCGone \/ LosePVC \/ SyncRun \/ SyncPods \/ SyncPVC \/ Crash
            \/ \E a \in Annotations : Ask(a) \/ RequestAnnotation(a)
            \/ UNCHANGED vars
  BY <1>1, <1>19 DEF DoomedPVCGone, LosePVC, SyncRun, SyncPods, SyncPVC, Crash, Ask,
     RequestAnnotation, cluster, vars
<1>20. QED
  BY <1>13, <1>17, <1>18, <1>19 DEF Next

\* A quiet pod stays quiet and a stopping one stopping, unless it is created anew.
LEMMA CalmStep ==
  ASSUME ~StaleReads, IInv, SInv, [Next]_vars, ~CreatePod
  PROVE  \A g \in Gens : (Quiet(g) => Quiet(g)') /\ (Stopping(g) => Stopping(g)')
<1> SUFFICES ASSUME NEW g \in Gens
             PROVE  (Quiet(g) => Quiet(g)') /\ (Stopping(g) => Stopping(g)')
  OBVIOUS
<1>1. Settles(pods[g], pods'[g])
  BY PodsMove
<1>2. QED
  BY <1>1 DEF Settles, Quiet, Stopping

\* Every step keeps running agents on a disk that is there.
LEMMA MountedStep ==
  ASSUME ~StaleReads, IInv, SInv, [Next]_vars
  PROVE  Mounted'
<1>s. Tracks /\ Mounted
  BY DEF SInv
<1>t. pods \in [Gens -> Pods] /\ pvc \in BOOLEAN /\ doomed \in BOOLEAN
  BY DEF IInv, WorldTypes
<1>g. Gen \in Gens
  BY GenType DEF Gen, IInv, ObjectTypes
<1>1. ASSUME UNCHANGED <<pvc, doomed>>, ~CreatePod PROVE Mounted'
  <2>1. ASSUME NEW g \in Gens, pods'[g].phase = "Running" PROVE pvc /\ ~doomed
    <3>1. Settles(pods[g], pods'[g])
      BY <1>1, PodsMove
    <3>2. QED
      BY <1>s, <2>1, <3>1 DEF Settles, Mounted, Live
  <2>2. QED
    BY <1>1, <1>s, <2>1 DEF Mounted, Live
<1>2. ASSUME CreatePod PROVE Mounted'
  <2>1. pods' = [pods EXCEPT ![Gen] = FreshPod] /\ UNCHANGED workspace
    BY <1>2, <1>s, CreatePodMove
  <2>2. FreshPod.phase # "Running"
    BY DEF FreshPod, NoPod
  <2>3. \A g \in Gens : pods'[g].phase = "Running" => pods[g].phase = "Running"
    BY <1>t, <1>g, <2>1, <2>2
  <2>4. QED
    BY <1>s, <2>1, <2>3 DEF Mounted, Live, workspace
<1>3. ASSUME CreateWorkspacePVC PROVE Mounted'
  BY <1>3, <1>s, CreateDiskMove DEF Mounted, Live
<1>4. ASSUME LoseNode PROVE Mounted'
  <2>1. \A g \in Gens : pods'[g].phase # "Running"
    BY <1>4 DEF LoseNode, NoPod
  <2>2. QED
    BY <1>4, <2>1 DEF LoseNode, Mounted, Live
<1>5. ASSUME DoomedPVCGone \/ LosePVC PROVE Mounted'
  <2>1. \A g \in Gens : ~Live(g)
    BY <1>5, <1>s DEF DoomedPVCGone, LosePVC, Mounted
  <2>2. pods' = pods /\ pvc' = FALSE /\ doomed' = FALSE
    BY <1>5 DEF DoomedPVCGone, LosePVC, RemovePVC
  <2>3. QED
    BY <2>1, <2>2 DEF Mounted, Live
<1>6. CASE Operator
  <2>1. UNCHANGED <<pvc, doomed>> \/ CreateWorkspacePVC
    BY <1>6 DEF Operator, Reconcile, Admit, Cancel, CancelStatus, Resume, ResumeClear,
       ResumeStatus, EnterPausing, PausePodLost, Quiesce, Snapshot, CommitProof, Unquiesce,
       AbortClear, AbortStatus, RemoveCheckpointedPod, PausedStatus, RecordPosture,
       BeginRestore, RestoreStatus, WorkspaceLost, LostStatus, EnsureRunSpec, CreatePod,
       PodAdmissionForbidden, RecordPod, HandleMissingPod, ObserveNothing, ObservePending,
       ClearRecoveryConditions, ObserveRunning, ObserveSucceeded, FailTerminally,
       RetryFailedPod, FailStatus, cluster, workspace
  <2>2. QED
    BY <1>1, <1>2, <1>3, <2>1
<1>7. CASE /\ ~CreatePod
           /\ \/ \E g \in Gens : PodStep(g)
              \/ SyncRun \/ SyncPods \/ SyncPVC \/ Crash
              \/ \E a \in Annotations : Ask(a) \/ RequestAnnotation(a)
              \/ UNCHANGED vars
  BY <1>1, <1>7 DEF PodStep, Hydrate, Work, TakeCheckpoint, Exit, ExitRetryable, PodGone,
     LosePod, SyncRun, SyncPods, SyncPVC, Crash, Ask, RequestAnnotation, cluster, workspace, vars
<1>8. QED
  BY <1>2, <1>4, <1>5, <1>6, <1>7 DEF Next

-----------------------------------------------------------------------------
(* Which pods are quiet.                                                   *)

\* The steps of a pass that has made sure of the current pod.
GivingUp == {"failStatus", "restoreStatus", "lostStatus", "pausedStatus"}

\* Once the current pod is quiet all are, and stopping likewise.
LEMMA AllQuiet ==
  ASSUME IInv, Quietness
  PROVE  /\ Quiet(Gen) => \A g \in Gens : Quiet(g)
         /\ Stopping(Gen) => \A g \in Gens : Stopping(g)
<1>g. Gen \in Int /\ \A g \in Gens : g \in Int
  BY GenType, OperatorConstants DEF Gen, Gens, IInv, ObjectTypes
<1>1. ASSUME NEW g \in Gens, g < Gen PROVE Quiet(g) /\ Stopping(g)
  BY <1>1 DEF Quietness, Quiet, Stopping
<1>2. ASSUME NEW g \in Gens, g > Gen PROVE Quiet(g) /\ Stopping(g)
  <2>1. pods[g].phase = "Absent"
    BY <1>2, <1>g DEF IInv, NoFuturePods, Gen
  <2>2. QED
    BY <2>1 DEF Quiet, Stopping
<1>3. QED
  BY <1>g, <1>1, <1>2

\* A step that creates no pod keeps Quietness if it makes sure of the pods
\* where it gives an attempt up.
LEMMA QuietFrame ==
  ASSUME ~StaleReads, IInv, SInv, [Next]_vars, ~CreatePod,
         Gen' = Gen \/ (Gen' = Gen + 1 /\ Quiet(Gen)),
         run'.phase \in Halted => run.phase \in Halted \/ Quiet(Gen),
         run'.phase = "Canceled" => run.phase = "Canceled" \/ Stopping(Gen),
         rec'.pc \in GivingUp => Gen' = Gen /\ (rec.pc \in GivingUp \/ Quiet(Gen)'),
         rec'.pc = "cancelStatus" => Gen' = Gen /\ (rec.pc = "cancelStatus" \/ Stopping(Gen)')
  PROVE  Quietness'
<1>q. Quietness
  BY DEF SInv
<1>c. \A g \in Gens : (Quiet(g) => Quiet(g)') /\ (Stopping(g) => Stopping(g)')
  BY CalmStep
<1>g. Gen \in Gens /\ Gen \in Int /\ \A g \in Gens : g \in Int
  BY GenType, OperatorConstants DEF Gen, Gens, IInv, ObjectTypes
<1>1. \A g \in Gens : g < Gen' => Quiet(g)'
  <2>1. \A g \in Gens : g < Gen => Quiet(g)
    BY <1>q DEF Quietness
  <2>2. \A g \in Gens : g < Gen' => Quiet(g)
    BY <1>g, <2>1
  <2>3. QED
    BY <1>c, <2>2
<1>2. run'.phase \in Halted => \A g \in Gens : Quiet(g)'
  <2>1. run.phase \in Halted => \A g \in Gens : Quiet(g)
    BY <1>q DEF Quietness
  <2>2. QED
    BY <1>c, <1>q, <2>1, AllQuiet
<1>3. run'.phase = "Canceled" => \A g \in Gens : Stopping(g)'
  <2>1. run.phase = "Canceled" => \A g \in Gens : Stopping(g)
    BY <1>q DEF Quietness
  <2>2. QED
    BY <1>c, <1>q, <2>1, AllQuiet
<1>4. rec'.pc \in GivingUp => Quiet(Gen)'
  <2>1. rec.pc \in GivingUp => Quiet(Gen)
    BY <1>q DEF Quietness, GivingUp
  <2>2. ASSUME rec'.pc \in GivingUp, Quiet(Gen), Gen' = Gen PROVE Quiet(Gen)'
    <3>1. Quiet(Gen)' = (pods'[Gen'].phase # "Running" /\ (pods'[Gen'].phase = "Pending" => pods'[Gen'].del))
      BY DEF Quiet
    <3>2. pods'[Gen].phase # "Running" /\ (pods'[Gen].phase = "Pending" => pods'[Gen].del)
      BY <1>c, <1>g, <2>2 DEF Quiet
    <3>3. QED
      BY <2>2, <3>1, <3>2
  <2>3. QED
    BY <2>1, <2>2
<1>5. rec'.pc = "cancelStatus" => Stopping(Gen)'
  <2>1. rec.pc = "cancelStatus" => Stopping(Gen)
    BY <1>q DEF Quietness
  <2>2. ASSUME rec'.pc = "cancelStatus", Stopping(Gen), Gen' = Gen PROVE Stopping(Gen)'
    <3>1. Stopping(Gen)' = (pods'[Gen'].phase \in {"Running", "Pending"} => pods'[Gen'].del)
      BY DEF Stopping
    <3>2. pods'[Gen].phase \in {"Running", "Pending"} => pods'[Gen].del
      BY <1>c, <1>g, <2>2 DEF Stopping
    <3>3. QED
      BY <2>2, <3>1, <3>2
  <2>3. QED
    BY <2>1, <2>2
<1>6. QED
  BY <1>1, <1>2, <1>3, <1>4, <1>5 DEF Quietness, GivingUp

\* A deleted pod is stopping; if it was not running it is quiet.
LEMMA DeletedIsStopping ==
  ASSUME IInv, PodDeleted, Gen' = Gen
  PROVE  Stopping(Gen)' /\ (~Live(Gen) => Quiet(Gen)')
<1>t. pods \in [Gens -> Pods] /\ Gen \in Gens
  BY GenType DEF Gen, IInv, ObjectTypes, WorldTypes
<1>1. pods'[Gen].phase = pods[Gen].phase
  BY <1>t DEF PodDeleted, Pods
<1>2. pods[Gen].phase # "Absent" => pods'[Gen].del
  BY <1>t DEF PodDeleted, Pods
<1>3. /\ Stopping(Gen)' = (pods'[Gen'].phase \in {"Running", "Pending"} => pods'[Gen'].del)
      /\ Quiet(Gen)' = (/\ pods'[Gen'].phase # "Running"
                        /\ pods'[Gen'].phase = "Pending" => pods'[Gen'].del)
  BY DEF Stopping, Quiet
<1>4. QED
  BY <1>1, <1>2, <1>3 DEF Live

\* A pod is created only for the attempt of an active run.
LEMMA QuietCreate ==
  ASSUME ~StaleReads, IInv, SInv, CreatePod
  PROVE  Quietness'
<1>s. Tracks /\ Quietness
  BY DEF SInv
<1>t. pods \in [Gens -> Pods] /\ Gen \in Gens /\ Gen \in Int /\ \A g \in Gens : g \in Int
  BY GenType, OperatorConstants DEF Gen, Gens, IInv, ObjectTypes, WorldTypes
<1>1. /\ rec.pc = "ensurePod" /\ run' = run /\ rec'.pc = "recordPod"
      /\ pods' = [pods EXCEPT ![Gen] = FreshPod]
  BY <1>s, CreatePodMove DEF Goes
<1>2. run.phase \notin Terminal \cup {"", "Paused", "Pausing"}
  BY <1>s, <1>1, PassKnows DEF WorkSteps
<1>3. Gen' = Gen
  BY <1>1 DEF Gen
<1>4. \A g \in Gens : g < Gen' => Quiet(g)'
  BY <1>s, <1>t, <1>1, <1>3 DEF Quietness, Quiet
<1>5. QED
  BY <1>1, <1>2, <1>4 DEF Quietness, Halted, Terminal

\* Every step keeps quiet what is over, halted, or about to be given up.
LEMMA QuietnessStep ==
  ASSUME ~StaleReads, IInv, SInv, [Next]_vars
  PROVE  Quietness'
<1> SUFFICES ASSUME ~CreatePod PROVE Quietness'
  BY QuietCreate
<1>s. Tracks /\ Quietness /\ PausingHasBucket /\ PauseRequests /\ Mounted
  BY DEF SInv
<1>t. pods \in [Gens -> Pods] /\ Gen \in Gens /\ Gen \in Int
  BY GenType, OperatorConstants DEF Gen, Gens, IInv, ObjectTypes, WorldTypes
<1>i. Idle.pc = "idle" /\ "idle" \notin GivingUp
  BY DEF Idle, GivingUp
<1>g. rec.pc \in GivingUp => Quiet(Gen)
  BY <1>s DEF Quietness, GivingUp
<1>0. ASSUME Gen' = Gen,
             run'.phase = run.phase \/ run'.phase \notin Halted \cup {"Canceled"},
             rec'.pc = rec.pc \/ rec'.pc \notin GivingUp \cup {"cancelStatus"}
      PROVE  Quietness'
  BY <1>0, QuietFrame
<1>1. ASSUME Ended PROVE Quietness'
  BY <1>1, <1>i, <1>0 DEF Ended, Gen
<1>2. ASSUME NEW why, PhaseSet("Failed", why) \/ PhaseSet("Paused", why), Quiet(Gen)
      PROVE  Quietness'
  <2>1. Gen' = Gen /\ rec'.pc = "idle" /\ run'.phase \in Halted
    BY <1>2 DEF PhaseSet, SameAttempt, Wrote, Halted
  <2>2. QED
    BY <1>2, <1>i, <2>1, QuietFrame DEF Halted
<1>3. ASSUME NEW step, step \notin GivingUp \cup {"cancelStatus"}, Wrote(step), SameAttempt,
             run'.phase = run.phase \/ run'.phase \notin Halted \cup {"Canceled"}
      PROVE  Quietness'
  BY <1>3, <1>0 DEF Wrote, SameAttempt
<1>4. ASSUME Wrote("idle"), Gen' = Gen + 1, run'.phase = "Interrupted", Quiet(Gen)
      PROVE  Quietness'
  BY <1>4, <1>i, QuietFrame DEF Wrote, Halted
<1>5. ASSUME Reconcile PROVE Quietness'
  <2>1. /\ run' = run
        /\ rec'.pc \in {"admit", "cancel", "resume", "enterPausing", "quiesce", "removePod",
                        "prerequisites"}
    BY <1>5, <1>s, ReconcileMove
  <2>2. Gen' = Gen
    BY <2>1 DEF Gen
  <2>3. QED
    BY <1>0, <2>1, <2>2 DEF GivingUp
<1>6. ASSUME Admit \/ EnterPausing \/ ObservePending \/ ObserveSucceeded PROVE Quietness'
  <2>1. \/ Ended
        \/ /\ Wrote("idle") /\ SameAttempt
           /\ run'.phase \in {"Pending", "Pausing", "Provisioning", "Succeeded"}
    BY <1>6, <1>s, AdmitMove, EnterPausingMove, PendingMove, SucceededMove DEF PhaseSet
  <2>2. QED
    BY <1>1, <1>3, <2>1 DEF GivingUp, Halted
<1>7. ASSUME PausePodLost \/ PodAdmissionForbidden \/ FailTerminally PROVE Quietness'
  <2>1. Ended \/ (Quiet(Gen) /\ \E why \in Reasons : PhaseSet("Failed", why))
    BY <1>7, <1>s, PausePodLostMove, ForbiddenMove, FailTerminallyMove DEF Quiet, Reasons
  <2>2. QED
    BY <1>1, <1>2, <2>1
<1>8. ASSUME LostStatus \/ PausedStatus PROVE Quietness'
  <2>1. Quiet(Gen)
    BY <1>8, <1>g, LostStatusMove, PausedStatusMove DEF GivingUp
  <2>2. QED
    BY <1>1, <1>2, <1>8, <2>1, LostStatusMove, PausedStatusMove
<1>9. ASSUME CancelStatus PROVE Quietness'
  <2>1. rec.pc = "cancelStatus" /\ Stopping(Gen)
    BY <1>9, <1>s, CancelStatusMove DEF Quietness
  <2>2. CASE PhaseSet("Canceled", "Canceled")
    <3>1. Gen' = Gen /\ rec'.pc = "idle" /\ run'.phase = "Canceled"
      BY <2>2 DEF PhaseSet, SameAttempt, Wrote
    <3>2. QED
      BY <1>i, <2>1, <3>1, QuietFrame DEF Halted
  <2>3. QED
    BY <1>1, <1>9, <2>2, CancelStatusMove
<1>10. ASSUME Cancel PROVE Quietness'
  <2>1. run' = run /\ rec'.pc = "cancelStatus" /\ PodDeleted
    BY <1>10, <1>s, CancelMove DEF Goes
  <2>2. Gen' = Gen
    BY <2>1 DEF Gen
  <2>3. Stopping(Gen)'
    BY <2>1, <2>2, DeletedIsStopping
  <2>4. QED
    BY <2>1, <2>2, <2>3, QuietFrame DEF GivingUp
<1>11. ASSUME BeginRestore \/ WorkspaceLost PROVE Quietness'
  <2>1. /\ run' = run /\ rec'.pc \in {"restoreStatus", "lostStatus"} /\ PodDeleted
        /\ ~pvc
    BY <1>11, <1>s, BeginRestoreMove, WorkspaceLostMove DEF Goes
  <2>2. Gen' = Gen /\ ~Live(Gen)
    BY <1>s, <1>t, <2>1 DEF Gen, Mounted
  <2>3. Quiet(Gen)'
    BY <2>1, <2>2, DeletedIsStopping
  <2>4. QED
    BY <2>1, <2>2, <2>3, QuietFrame
<1>12. ASSUME RetryFailedPod PROVE Quietness'
  <2>1. /\ run' = run /\ rec'.pc = "failStatus" /\ pods[Gen].phase = "Retryable"
    BY <1>12, <1>s, RetryPodMove DEF Goes
  <2>2. Gen' = Gen /\ Quiet(Gen)
    BY <2>1 DEF Gen, Quiet
  <2>3. Quiet(Gen)'
    <3>1. Quiet(Gen)' = (/\ pods'[Gen'].phase # "Running"
                         /\ pods'[Gen'].phase = "Pending" => pods'[Gen'].del)
      BY DEF Quiet
    <3>2. pods'[Gen].phase # "Running" /\ (pods'[Gen].phase = "Pending" => pods'[Gen].del)
      BY <1>t, <2>2, CalmStep DEF Quiet
    <3>3. QED
      BY <2>2, <3>1, <3>2
  <2>4. QED
    BY <2>1, <2>2, <2>3, QuietFrame
<1>13. ASSUME Resume \/ Quiesce \/ Snapshot \/ Unquiesce \/ CreateWorkspacePVC \/ EnsureRunSpec
       PROVE  Quietness'
  <2>1. /\ run' = run
        /\ rec'.pc \in {"resumeClear", "snapshot", "unquiesce", "commitProof", "abortClear",
                        "runSpec", "ensurePod"}
    BY <1>13, <1>s, ResumeMove, QuiesceMove, SnapshotMove, UnquiesceMove, CreateDiskMove,
       RunSpecMove DEF Goes, Signalled
  <2>2. Gen' = Gen
    BY <2>1 DEF Gen
  <2>3. QED
    BY <1>0, <2>1, <2>2 DEF GivingUp
<1>14. ASSUME ResumeClear \/ AbortClear \/ RecordPosture \/ ClearRecoveryConditions
              \/ CommitProof \/ RecordPod
       PROVE  Quietness'
  <2>1. \/ Ended
        \/ \E step \in {"idle", "resumeStatus", "abortStatus", "prerequisites", "podRunning"} :
             Wrote(step) /\ SameAttempt /\ SamePhase
    BY <1>14, <1>s, ResumeClearMove, AbortClearMove, PostureMove, ClearMove, ProofWrite,
       IdentityWrite
  <2>2. QED
    BY <1>1, <1>3, <2>1 DEF GivingUp, SamePhase
<1>15. ASSUME RemoveCheckpointedPod PROVE Quietness'
  <2>1. CASE Ended
    BY <1>1, <2>1
  <2>2. CASE /\ pods[Gen].phase = "Absent" /\ pods' = pods
             /\ Wrote("pausedStatus") /\ SameAttempt /\ SamePhase
    <3>1. Gen' = Gen /\ rec'.pc = "pausedStatus" /\ run'.phase = run.phase
      BY <2>2 DEF SameAttempt, Wrote, SamePhase
    <3>2. Quiet(Gen)'
      <4>1. Quiet(Gen)' = (/\ pods'[Gen'].phase # "Running"
                           /\ pods'[Gen'].phase = "Pending" => pods'[Gen'].del)
        BY DEF Quiet
      <4>2. QED
        BY <2>2, <3>1, <4>1
    <3>3. QED
      BY <3>1, <3>2, QuietFrame
  <2>3. QED
    BY <1>15, <1>s, <2>1, <2>2, RemoveMove
<1>16. ASSUME AbortStatus \/ ObserveRunning PROVE Quietness'
  <2>1. Ended \/ (Wrote("idle") /\ SameAttempt /\ run'.phase = "Running")
    BY <1>16, AbortWrite, RunningWrite
  <2>2. QED
    BY <1>1, <1>3, <2>1 DEF GivingUp, Halted
<1>17. ASSUME ResumeStatus PROVE Quietness'
  <2>1. rec.pc = "resumeStatus"
    BY <1>17 DEF ResumeStatus, At
  <2>2. Quiet(Gen)
    BY <1>s, <1>t, <2>1, ResumeKnows DEF ResumeSteps, Quietness
  <2>3. QED
    BY <1>1, <1>4, <1>17, <2>2, ResumeWrite
<1>18. ASSUME RestoreStatus PROVE Quietness'
  <2>1. rec.pc = "restoreStatus"
    BY <1>18 DEF RestoreStatus, At
  <2>2. Quiet(Gen)
    BY <1>g, <2>1 DEF GivingUp
  <2>3. \/ Ended
        \/ /\ Wrote("idle") /\ run'.phase = "Interrupted"
           /\ SameAttempt \/ Gen' = Gen + 1
    BY <1>18, RestoreWrite
  <2>4. QED
    BY <1>1, <1>3, <1>4, <2>2, <2>3 DEF GivingUp, Halted
<1>19. ASSUME FailStatus PROVE Quietness'
  <2>1. Quiet(Gen)
    BY <1>19, <1>g, FailStatusMove DEF GivingUp
  <2>2. QED
    BY <1>1, <1>4, <1>19, <2>1, FailStatusMove
<1>20. ASSUME HandleMissingPod PROVE Quietness'
  <2>1. Quiet(Gen)
    BY <1>20, <1>s, MissingPodMove DEF Quiet
  <2>2. QED
    BY <1>1, <1>2, <1>4, <1>20, <1>s, <2>1, MissingPodMove
<1>21. ASSUME ObserveNothing PROVE Quietness'
  BY <1>1, <1>21, NothingMove
<1>22. CASE Operator
  BY <1>5, <1>6, <1>7, <1>8, <1>9, <1>10, <1>11, <1>12, <1>13, <1>14, <1>15, <1>16, <1>17,
     <1>18, <1>19, <1>20, <1>21, <1>22 DEF Operator
<1>23. CASE ~Operator
  <2>1. /\ run'.phase = run.phase /\ Gen' = Gen
        /\ rec' = Idle \/ rec'.pc = rec.pc
    BY <1>23, ObjectEnvironment
  <2>2. QED
    BY <1>0, <1>i, <2>1
<1>24. QED
  BY <1>22, <1>23

-----------------------------------------------------------------------------
(* One agent at a time.                                                    *)

\* SInv holds of a run nobody has reconciled yet.
LEMMA SafetyInit == Init => SInv
<1> SUFFICES ASSUME Init PROVE SInv
  OBVIOUS
<1>1. PICK b \in BOOLEAN : run = NewRun(b)
  BY OperatorConstants DEF Init
<1>2. run.phase = "" /\ run.annots = {} /\ asked = {}
  BY <1>1 DEF Init, NewRun
<1>3. rec.pc = "idle" /\ pvc = FALSE /\ doomed = FALSE
  BY DEF Init, Idle
<1>4. \A g \in Gens : pods[g].phase = "Absent"
  BY DEF Init, NoPod
<1>5. Tracks /\ PausingHasBucket /\ PauseRequests
  BY <1>2, <1>3 DEF Tracks, PausingHasBucket, PauseRequests
<1>6. Quietness
  BY <1>2, <1>3, <1>4 DEF Quietness, Quiet, Halted
<1>7. Mounted
  BY <1>3, <1>4 DEF Mounted, Live
<1>8. QED
  BY <1>5, <1>6, <1>7 DEF SInv

\* With fresh reads SInv is inductive.
LEMMA SafetyStep == ASSUME ~StaleReads, IInv, SInv, [Next]_vars PROVE SInv'
BY TracksStep, RequestsStep, QuietnessStep, MountedStep DEF SInv

\* With fresh reads the copy of a pass, the requests, the pods and the disk
\* keep to SInv in every reachable state.
THEOREM SafetyInvariance == ASSUME ~StaleReads PROVE Spec => [](IInv /\ SInv)
<1>1. IInv /\ SInv /\ [Next]_vars => IInv' /\ SInv'
  BY InvStep, SafetyStep
<1>2. QED
  BY <1>1, InitEstablishes, SafetyInit, PTL DEF Spec

\* An operator with fresh reads never has two agents on one workspace: a
\* replacement pod comes up only when every pod of an earlier attempt has
\* ended (ensurePod, handleMissingPod, handlePodFailure, ensurePVC, resume).
THEOREM OneAgent == ASSUME ~StaleReads PROVE Spec => []OneAgentAtATime
<1>1. IInv /\ SInv => OneAgentAtATime
  <2> SUFFICES ASSUME IInv, SInv, NEW g \in Gens, NEW h \in Gens, Live(g), Live(h)
               PROVE  g = h
    BY DEF OneAgentAtATime
  <2>1. Gen \in Int /\ g \in Int /\ h \in Int
    BY GenType, OperatorConstants DEF Gen, Gens, IInv, ObjectTypes
  <2>2. g <= Gen /\ h <= Gen
    BY DEF IInv, NoFuturePods, Live, Gen
  <2>3. ~(g < Gen) /\ ~(h < Gen)
    BY DEF SInv, Quietness, Quiet, Live
  <2>4. QED
    BY <2>1, <2>2, <2>3
<1>2. QED
  BY <1>1, SafetyInvariance, PTL

\* A run reads Paused only when no agent of any attempt is left running, also
\* when the operator crashed on the way or the pod was lost (pause,
\* removeCheckpointedPod).
THEOREM PausedIsQuiet == ASSUME ~StaleReads PROVE Spec => []PausedHasNoAgent
<1>1. SInv => PausedHasNoAgent
  BY DEF SInv, Quietness, Halted, Quiet, Live, PausedHasNoAgent
<1>2. QED
  BY <1>1, SafetyInvariance, PTL

\* A run reads Canceled only when every agent still up has been told to stop
\* (cancel, deleteCurrentPod).
THEOREM CanceledIsStopping == ASSUME ~StaleReads PROVE Spec => []CanceledStopsTheAgent
<1>1. SInv => CanceledStopsTheAgent
  BY DEF SInv, Quietness, Stopping, Live, CanceledStopsTheAgent
<1>2. QED
  BY <1>1, SafetyInvariance, PTL

-----------------------------------------------------------------------------
(* The retry budget.                                                       *)

\* The steps of a pass that has found the disk in place.
DiskSeen == {"runSpec", "ensurePod", "recordPod", "podRunning", "failStatus"}

\* The phases before the first pod; the disk of a run in them that no pass has
\* found is still to be created for the first time.
FirstPhases == {"", "Pending"}
Early == run.phase \in FirstPhases /\ rec.pc \notin DiskSeen

\* The disk is lost and the loss not yet recorded: it can still be charged.
DiskOwed == /\ ~RestoreRecorded(run) /\ run.phase # "Canceled"
            /\ doomed \/ (~pvc /\ ~Early)

\* Charges stop at the budget, but for losses of the disk that are charged, or
\* will be, whatever the budget.
BInv ==
  /\ run.phase \in FirstPhases => run.restarts = 0
  /\ rec.pc = "failStatus" => ~(run.restarts >= MaxRestarts)
  /\ rec.pc = "restoreStatus" => ~pvc
  /\ run.restarts <= MaxRestarts + DiskLosses
  /\ DiskOwed => DiskLosses >= 1 /\ run.restarts + 1 <= MaxRestarts + DiskLosses

\* The counters are numbers.
LEMMA CounterTypes ==
  ASSUME IInv
  PROVE  /\ run.restarts \in Nat /\ MaxRestarts \in Nat /\ DiskLosses \in Nat
         /\ \A e \in Events : spent[e] \in Nat
<1>1. run.restarts \in Nat
  BY OperatorConstants DEF IInv, ObjectTypes, Runs, Gens
<1>2. \A e \in Events : spent[e] \in Nat
  BY DEF IInv, WorldTypes
<1>3. DiskLosses \in Nat
  BY <1>2 DEF DiskLosses, Events
<1>4. QED
  BY <1>1, <1>2, <1>3, OperatorConstants

\* An event counts itself and nothing else.
LEMMA SpendCounts ==
  ASSUME IInv, NEW e \in Events, Spend(e)
  PROVE  /\ spent'[e] = spent[e] + 1
         /\ \A x \in Events : x # e => spent'[x] = spent[x]
BY DEF IInv, WorldTypes, Spend

\* BInv survives a step that charges nothing and loses no disk.
LEMMA BudgetFrame ==
  ASSUME IInv, BInv,
         run'.restarts = run.restarts \/ (run'.restarts = 0 /\ rec'.pc = "idle"),
         run'.phase \in FirstPhases => run.phase \in FirstPhases,
         rec'.pc = "failStatus" => rec.pc = "failStatus" \/ ~(run.restarts >= MaxRestarts),
         rec'.pc = "restoreStatus" => ~pvc',
         DiskLosses' = DiskLosses, DiskOwed' => DiskOwed
  PROVE  BInv'
<1>t. run.restarts \in Nat /\ MaxRestarts \in Nat /\ DiskLosses \in Nat
  BY CounterTypes
<1>1. run'.phase \in FirstPhases => run'.restarts = 0
  BY DEF BInv
<1>2. rec'.pc = "failStatus" => ~(run'.restarts >= MaxRestarts)
  BY DEF BInv
<1>3. DiskOwed' => DiskLosses' >= 1 /\ run'.restarts + 1 <= MaxRestarts + DiskLosses'
  BY <1>t DEF BInv
<1>4. run'.restarts <= MaxRestarts + DiskLosses'
  BY <1>t DEF BInv
<1>5. QED
  BY <1>1, <1>2, <1>3, <1>4 DEF BInv

\* BInv survives a charge within the budget.
LEMMA BudgetCharge ==
  ASSUME IInv, BInv, ~(run.restarts >= MaxRestarts), run'.restarts = run.restarts + 1,
         run'.phase = "Interrupted", rec'.pc = "idle",
         DiskLosses' = DiskLosses, DiskOwed' => DiskOwed
  PROVE  BInv'
<1>t. run.restarts \in Nat /\ MaxRestarts \in Nat /\ DiskLosses \in Nat
  BY CounterTypes
<1>1. DiskOwed' => DiskLosses' >= 1 /\ run'.restarts + 1 <= MaxRestarts + DiskLosses'
  BY <1>t DEF BInv
<1>2. run'.restarts <= MaxRestarts + DiskLosses'
  BY <1>t
<1>3. run'.phase \notin FirstPhases
  BY DEF FirstPhases
<1>4. QED
  BY <1>1, <1>2, <1>3 DEF BInv

\* Which step of a pass changes the conditions, and how.
LEMMA CondsMoves ==
  ASSUME ~StaleReads, IInv, SInv, Operator
  PROVE  \/ run'.conds = run.conds
         \/ rec.pc = "commitProof" /\ run'.conds = run.conds \cup {"PauseCheckpointReady"}
         \/ rec.pc = "abortStatus" /\ run'.conds = run.conds \ {"PauseCheckpointReady"}
         \/ /\ rec.pc = "prerequisites" /\ Wrote("prerequisites")
            /\ \E c \in Posture : run'.conds = run.conds \cup {c}
         \/ /\ rec.pc = "ensurePod" /\ Live(Gen) /\ Wrote("podRunning")
            /\ run'.conds = run.conds \ Recovery
         \/ /\ rec.pc = "restoreStatus"
            /\ run'.conds = run.conds \cup {"WorkspaceRestorePending"}
         \/ /\ rec.pc = "resumeStatus"
            /\ run'.conds = run.conds \cup {"Resuming"}
                 \cup (IF run.phase = "Paused" THEN {"PauseResumePending"} ELSE {})
         \/ /\ rec.pc \in {"ensurePod", "failStatus"} /\ run'.phase = "Interrupted"
            /\ run'.conds = run.conds \cup {"Resuming"}
<1>s. Tracks /\ PausingHasBucket /\ PauseRequests
  BY DEF SInv
<1>1. ASSUME Ended PROVE run'.conds = run.conds
  BY <1>1 DEF Ended
<1>2. ASSUME Admit \/ CancelStatus \/ EnterPausing \/ PausePodLost \/ PausedStatus \/ LostStatus
             \/ PodAdmissionForbidden \/ ObservePending \/ ObserveSucceeded \/ FailTerminally
      PROVE  run'.conds = run.conds
  BY <1>1, <1>2, <1>s, AdmitMove, CancelStatusMove, EnterPausingMove, PausePodLostMove,
     PausedStatusMove, LostStatusMove, ForbiddenMove, PendingMove, SucceededMove,
     FailTerminallyMove DEF PhaseSet, SameConds
<1>3. ASSUME ResumeClear \/ AbortClear \/ RemoveCheckpointedPod \/ RecordPod \/ ObserveRunning
      PROVE  run'.conds = run.conds
  BY <1>1, <1>3, <1>s, ResumeClearMove, AbortClearMove, RemoveMove, IdentityWrite,
     RunningWrite DEF SameConds
<1>4. ASSUME Reconcile \/ Cancel \/ Resume \/ Quiesce \/ Snapshot \/ Unquiesce
              \/ CreateWorkspacePVC
              \/ BeginRestore \/ WorkspaceLost \/ EnsureRunSpec \/ CreatePod \/ RetryFailedPod
              \/ ObserveNothing
       PROVE  run'.conds = run.conds
  BY <1>4 DEF Reconcile, Cancel, Resume, Quiesce, Snapshot, Unquiesce, CreateWorkspacePVC,
     BeginRestore, WorkspaceLost, EnsureRunSpec, CreatePod, RetryFailedPod, ObserveNothing
<1>5. ASSUME CommitProof
      PROVE  \/ run'.conds = run.conds
             \/ rec.pc = "commitProof" /\ run'.conds = run.conds \cup {"PauseCheckpointReady"}
  BY <1>1, <1>5, ProofWrite DEF CommitProof, At
<1>6. ASSUME AbortStatus
      PROVE  \/ run'.conds = run.conds
             \/ rec.pc = "abortStatus" /\ run'.conds = run.conds \ {"PauseCheckpointReady"}
  BY <1>1, <1>6, AbortWrite DEF AbortStatus, At
<1>7. ASSUME ResumeStatus
      PROVE  \/ run'.conds = run.conds
             \/ /\ rec.pc = "resumeStatus"
                /\ run'.conds = run.conds \cup {"Resuming"}
                     \cup (IF run.phase = "Paused" THEN {"PauseResumePending"} ELSE {})
  BY <1>1, <1>7, ResumeWrite DEF ResumeStatus, At
<1>8. ASSUME RestoreStatus
      PROVE  \/ run'.conds = run.conds
             \/ /\ rec.pc = "restoreStatus"
                /\ run'.conds = run.conds \cup {"WorkspaceRestorePending"}
  BY <1>1, <1>8, RestoreWrite DEF RestoreStatus, At
<1>9. ASSUME HandleMissingPod \/ FailStatus
      PROVE  \/ run'.conds = run.conds
             \/ /\ rec.pc \in {"ensurePod", "failStatus"} /\ run'.phase = "Interrupted"
                /\ run'.conds = run.conds \cup {"Resuming"}
  BY <1>1, <1>9, <1>s, MissingPodMove, FailStatusMove DEF PhaseSet, SameConds
<1>10. ASSUME RecordPosture
       PROVE  \/ run'.conds = run.conds
              \/ /\ rec.pc = "prerequisites" /\ Wrote("prerequisites")
                 /\ \E c \in Posture : run'.conds = run.conds \cup {c}
  BY <1>1, <1>10, PostureMove
<1>11. ASSUME ClearRecoveryConditions
       PROVE  \/ run'.conds = run.conds
              \/ /\ rec.pc = "ensurePod" /\ Live(Gen) /\ Wrote("podRunning")
                 /\ run'.conds = run.conds \ Recovery
  BY <1>1, <1>11, <1>s, ClearMove
<1>12. QED
  BY <1>2, <1>3, <1>4, <1>5, <1>6, <1>7, <1>8, <1>9, <1>10, <1>11 DEF Operator

\* A pass that ends leaves the operator idle.
LEMMA EndedIsIdle ==
  ASSUME Ended
  PROVE  rec'.pc = "idle"
BY DEF Ended, Idle

\* A pass looks for its pod only after it has found or created the disk, and
\* only then does a pass come to count the loss of a pod.
LEMMA PcMoves ==
  ASSUME ~StaleReads, IInv, SInv, Operator
  PROVE  /\ rec'.pc \in DiskSeen => rec.pc \in DiskSeen \/ pvc'
         /\ rec'.pc = "failStatus" =>
              rec.pc = "failStatus" \/ ~(run.restarts >= MaxRestarts)
         /\ rec'.pc = "restoreStatus" => ~pvc'
<1>s. Tracks /\ PausingHasBucket /\ PauseRequests
  BY DEF SInv
<1>1. ASSUME rec'.pc \notin DiskSeen \cup {"restoreStatus"}
      PROVE  /\ rec'.pc \in DiskSeen => rec.pc \in DiskSeen \/ pvc'
             /\ rec'.pc = "failStatus" =>
                  rec.pc = "failStatus" \/ ~(run.restarts >= MaxRestarts)
             /\ rec'.pc = "restoreStatus" => ~pvc'
  BY <1>1 DEF DiskSeen
<1>2. ASSUME Ended \/ Wrote("idle") PROVE rec'.pc \notin DiskSeen \cup {"restoreStatus"}
  <2>2. rec'.pc = "idle"
    BY <1>2, EndedIsIdle DEF Wrote
  <2>3. QED
    BY <2>2 DEF DiskSeen
<1>3. ASSUME Admit \/ CancelStatus \/ EnterPausing \/ PausePodLost \/ PausedStatus \/ LostStatus
             \/ PodAdmissionForbidden \/ ObservePending \/ ObserveSucceeded \/ FailTerminally
      PROVE  rec'.pc \notin DiskSeen \cup {"restoreStatus"}
  BY <1>2, <1>3, <1>s, AdmitMove, CancelStatusMove, EnterPausingMove, PausePodLostMove,
     PausedStatusMove, LostStatusMove, ForbiddenMove, PendingMove, SucceededMove,
     FailTerminallyMove DEF PhaseSet
<1>4. ASSUME ResumeStatus \/ CommitProof \/ AbortStatus \/ RestoreStatus \/ RecordPod
             \/ ObserveRunning \/ HandleMissingPod \/ FailStatus \/ ObserveNothing
      PROVE  rec'.pc \notin DiskSeen \cup {"restoreStatus"}
  BY <1>2, <1>4, <1>s, ResumeWrite, ProofWrite, AbortWrite, RestoreWrite, IdentityWrite,
     RunningWrite, MissingPodMove, FailStatusMove, NothingMove DEF PhaseSet
<1>5. ASSUME Reconcile \/ Cancel \/ Resume \/ Quiesce \/ Snapshot \/ Unquiesce \/ WorkspaceLost
             \/ ResumeClear \/ AbortClear \/ RemoveCheckpointedPod \/ RecordPosture
      PROVE  rec'.pc \notin DiskSeen \cup {"restoreStatus"}
  BY <1>2, <1>5, <1>s, ReconcileMove, CancelMove, ResumeMove, QuiesceMove, SnapshotMove,
     UnquiesceMove, WorkspaceLostMove, ResumeClearMove, AbortClearMove, RemoveMove, PostureMove
     DEF Goes, Signalled, Wrote, DiskSeen
<1>6. ASSUME CreateWorkspacePVC \/ EnsureRunSpec
      PROVE  rec'.pc \in {"runSpec", "ensurePod"} /\ (rec.pc \in DiskSeen \/ pvc')
  <2>1. CASE CreateWorkspacePVC
    BY <2>1, <1>s, CreateDiskMove DEF Goes
  <2>2. CASE EnsureRunSpec
    <3>1. rec.pc = "runSpec" \/ pvc
      BY <2>2, <1>s, RunSpecMove
    <3>2. rec'.pc = "ensurePod" /\ pvc' = pvc
      BY <2>2, <1>s, RunSpecMove DEF Goes, workspace
    <3>3. QED
      BY <3>1, <3>2 DEF DiskSeen
  <2>3. QED
    BY <1>6, <2>1, <2>2
<1>7. ASSUME ClearRecoveryConditions \/ CreatePod
      PROVE  rec.pc \in DiskSeen /\ rec'.pc \notin {"failStatus", "restoreStatus"}
  <2>1. CASE ClearRecoveryConditions
    <3>1. rec.pc = "ensurePod" /\ (Ended \/ Wrote("podRunning"))
      BY <2>1, <1>s, ClearMove
    <3>2. rec'.pc \in {"idle", "podRunning"}
      BY <3>1, EndedIsIdle DEF Wrote
    <3>3. QED
      BY <3>1, <3>2 DEF DiskSeen
  <2>2. CASE CreatePod
    <3>1. rec.pc = "ensurePod" /\ rec'.pc = "recordPod"
      BY <2>2, <1>s, CreatePodMove DEF Goes
    <3>2. QED
      BY <3>1 DEF DiskSeen
  <2>3. QED
    BY <1>7, <2>1, <2>2
<1>8. ASSUME RetryFailedPod
      PROVE  rec.pc \in DiskSeen /\ rec'.pc = "failStatus" /\ ~(run.restarts >= MaxRestarts)
  BY <1>8, <1>s, RetryPodMove DEF Goes, DiskSeen
<1>9. ASSUME BeginRestore
      PROVE  rec'.pc = "restoreStatus" /\ ~pvc'
  BY <1>9, <1>s, BeginRestoreMove DEF Goes, workspace
<1>10. QED
  BY <1>1, <1>3, <1>4, <1>5, <1>6, <1>7, <1>8, <1>9 DEF Operator, DiskSeen

\* A pass neither dooms nor removes the disk.
LEMMA DiskMoves ==
  ASSUME ~StaleReads, IInv, SInv, Operator
  PROVE  doomed' = doomed /\ (pvc' = pvc \/ (pvc' = TRUE /\ ~pvc))
<1>1. CASE CreateWorkspacePVC
  BY <1>1, CreateDiskMove DEF SInv
<1>2. CASE ~CreateWorkspacePVC
  BY <1>2 DEF Operator, workspace, cluster, Reconcile, Admit, Cancel, CancelStatus, Resume,
     ResumeClear, ResumeStatus, EnterPausing, PausePodLost, Quiesce, Snapshot, CommitProof,
     Unquiesce, AbortClear, AbortStatus, RemoveCheckpointedPod, PausedStatus, RecordPosture,
     BeginRestore, RestoreStatus, WorkspaceLost, LostStatus, EnsureRunSpec, CreatePod,
     PodAdmissionForbidden, RecordPod, HandleMissingPod, ObserveNothing, ObservePending,
     ClearRecoveryConditions, ObserveRunning, ObserveSucceeded, FailTerminally,
     RetryFailedPod, FailStatus
<1>3. QED
  BY <1>1, <1>2

\* What a pass that moves the phase knows of the phase it leaves.
LEMMA PhaseLeft ==
  ASSUME ~StaleReads, IInv, SInv, Operator, run'.phase # run.phase
  PROVE  /\ run.phase = "Canceled" => run'.phase = "Canceled"
         /\ run.phase \in FirstPhases =>
              run'.phase \in FirstPhases \cup {"Canceled"} \/ rec.pc \in DiskSeen
         /\ run'.phase \in FirstPhases => run.phase \in FirstPhases
<1>s. Tracks /\ PauseRequests
  BY DEF SInv
<1>1. rec.run = run /\ Leads(rec.pc, run'.phase)
  BY ObjectMoves
<1>2. rec.pc # "idle"
  BY <1>1 DEF Leads
<1>3. /\ rec.pc \in WorkSteps => run.phase \notin Terminal \cup {"", "Paused", "Pausing"}
      /\ rec.pc \in ProofSteps \cup AbortSteps => run.phase = "Pausing"
      /\ rec.pc \in RemovalSteps => run.phase = "Pausing"
      /\ rec.pc \in {"restoreStatus", "lostStatus"} => run.phase # "Pending"
      /\ rec.pc = "enterPausing" => /\ run.phase \notin Terminal \cup {"Paused", "Pausing"}
                                    /\ "pause" \in run.annots
      /\ rec.pc = "admit" => run.phase = ""
  BY <1>2, <1>s, PassKnows
<1>4. rec.pc = "resumeStatus" => run.phase \in Halted
  BY <1>s, ResumeKnows DEF ResumeSteps
<1>5. rec.pc = "enterPausing" => run.phase \notin {"", "Pending"}
  BY <1>3, <1>s DEF PauseRequests
<1>6. run'.phase = "Pending" \/ run'.phase \notin FirstPhases
  BY <1>1 DEF Leads, FirstPhases
<1>7. rec.pc \in {"admit", "enterPausing", "pausedStatus", "cancelStatus", "quiesce",
                  "lostStatus", "ensurePod", "resumeStatus", "restoreStatus", "failStatus",
                  "abortStatus", "podRunning"}
  BY <1>1 DEF Leads
<1>8. /\ rec.pc = "cancelStatus" => run'.phase = "Canceled"
      /\ rec.pc = "admit" => run'.phase = "Pending"
      /\ run'.phase = "Pending" => rec.pc = "admit"
  BY <1>1 DEF Leads
<1>9. QED
  BY <1>3, <1>4, <1>5, <1>6, <1>7, <1>8 DEF WorkSteps, ProofSteps, AbortSteps, RemovalSteps,
     Halted, FirstPhases, Terminal, DiskSeen

\* A pass owes for a lost disk only what it owed before.
LEMMA OwedMoves ==
  ASSUME ~StaleReads, IInv, SInv, Operator, DiskOwed'
  PROVE  DiskOwed
<1>1. run.phase # "Canceled" /\ run'.phase # "Canceled"
  BY PhaseLeft DEF DiskOwed
<1>2. doomed' = doomed /\ (pvc' = pvc \/ (pvc' = TRUE /\ ~pvc))
  BY DiskMoves
<1>3. ~RestoreRecorded(run)
  <2> SUFFICES ASSUME RestoreRecorded(run) PROVE FALSE
    OBVIOUS
  <2>1. "WorkspaceRestorePending" \notin run'.conds
    BY DEF DiskOwed, RestoreRecorded
  <2>2. Live(Gen) /\ pvc' = pvc
    <3>1. Live(Gen)
      BY <2>1, CondsMoves DEF RestoreRecorded, Posture, Recovery
    <3>2. pvc /\ Gen \in Gens
      BY <3>1, GenType DEF SInv, Mounted, Gen, IInv, ObjectTypes
    <3>3. QED
      BY <3>1, <3>2, <1>2
  <2>3. pvc /\ ~doomed
    BY <2>2, GenType DEF SInv, Mounted, Gen, IInv, ObjectTypes
  <2>4. QED
    BY <2>2, <2>3, <1>2 DEF DiskOwed
<1>4. CASE doomed
  BY <1>1, <1>3, <1>4 DEF DiskOwed
<1>5. CASE ~doomed
  <2>1. ~pvc' /\ ~pvc
    BY <1>2, <1>5 DEF DiskOwed, IInv, WorldTypes
  <2>2. run'.phase \notin FirstPhases \/ rec'.pc \in DiskSeen
    BY <1>2, <1>5 DEF DiskOwed, Early
  <2>3. rec'.pc \in DiskSeen => rec.pc \in DiskSeen
    BY <2>1, PcMoves
  <2>4. run'.phase \notin FirstPhases => run.phase \notin FirstPhases \/ rec.pc \in DiskSeen
    BY <1>1, PhaseLeft
  <2>5. QED
    BY <1>1, <1>3, <2>1, <2>2, <2>3, <2>4 DEF DiskOwed, Early
<1>6. QED
  BY <1>4, <1>5

\* A pass loses nothing, and counts restarts in four of its steps only.
LEMMA CountMoves ==
  ASSUME ~StaleReads, IInv, SInv, Operator
  PROVE  /\ \A e \in Events \ {"exec", "forbid"} : spent'[e] = spent[e]
         /\ DiskLosses' = DiskLosses
         /\ \/ run'.restarts = run.restarts
            \/ ResumeStatus \/ RestoreStatus \/ HandleMissingPod \/ FailStatus
<1>s. Tracks /\ PausingHasBucket /\ PauseRequests
  BY DEF SInv
<1>1. spent' = spent \/ (\E e \in {"exec", "forbid"} : Spend(e))
  BY DEF Operator, client, Reconcile, Admit, Cancel, CancelStatus, Resume,
     ResumeClear, ResumeStatus, EnterPausing, PausePodLost, Quiesce, Snapshot, CommitProof,
     Unquiesce, AbortClear, AbortStatus, RemoveCheckpointedPod, PausedStatus, RecordPosture,
     CreateWorkspacePVC, SignalHarness,
     BeginRestore, RestoreStatus, WorkspaceLost, LostStatus, EnsureRunSpec, CreatePod,
     PodAdmissionForbidden, RecordPod, HandleMissingPod, ObserveNothing, ObservePending,
     ClearRecoveryConditions, ObserveRunning, ObserveSucceeded, FailTerminally,
     RetryFailedPod, FailStatus
<1>2. \A e \in Events \ {"exec", "forbid"} : spent'[e] = spent[e]
  <2>1. CASE spent' = spent
    BY <2>1
  <2>2. CASE \E e \in {"exec", "forbid"} : Spend(e)
    BY <2>2, SpendCounts DEF Events
  <2>3. QED
    BY <1>1, <2>1, <2>2
<1>d. DiskLosses' = DiskLosses
  BY <1>2 DEF DiskLosses, Events
<1>3. ASSUME Admit \/ CancelStatus \/ EnterPausing \/ PausePodLost \/ PausedStatus \/ LostStatus
             \/ PodAdmissionForbidden \/ ObservePending \/ ObserveSucceeded \/ FailTerminally
      PROVE  run'.restarts = run.restarts
  BY <1>3, <1>s, AdmitMove, CancelStatusMove, EnterPausingMove, PausePodLostMove,
     PausedStatusMove, LostStatusMove, ForbiddenMove, PendingMove, SucceededMove,
     FailTerminallyMove DEF PhaseSet, SameAttempt, Ended
<1>4. ASSUME ResumeClear \/ AbortClear \/ RemoveCheckpointedPod \/ RecordPod \/ ObserveRunning
             \/ CommitProof \/ AbortStatus \/ RecordPosture \/ ClearRecoveryConditions
      PROVE  run'.restarts = run.restarts
  BY <1>4, <1>s, ResumeClearMove, AbortClearMove, RemoveMove, IdentityWrite,
     RunningWrite, ProofWrite, AbortWrite, PostureMove, ClearMove DEF SameAttempt, Ended
<1>5. ASSUME Reconcile \/ Cancel \/ Resume \/ Quiesce \/ Snapshot \/ Unquiesce
              \/ CreateWorkspacePVC
              \/ BeginRestore \/ WorkspaceLost \/ EnsureRunSpec \/ CreatePod \/ RetryFailedPod
              \/ ObserveNothing
       PROVE  run'.restarts = run.restarts
  BY <1>5 DEF Reconcile, Cancel, Resume, Quiesce, Snapshot, Unquiesce, CreateWorkspacePVC,
     BeginRestore, WorkspaceLost, EnsureRunSpec, CreatePod, RetryFailedPod, ObserveNothing
<1>6. QED
  BY <1>2, <1>d, <1>3, <1>4, <1>5 DEF Operator

\* Every step of a pass keeps the budget.
LEMMA BudgetMoves ==
  ASSUME ~StaleReads, IInv, SInv, BInv, Operator
  PROVE  BInv'
<1>s. Tracks
  BY DEF SInv
<1>1. DiskLosses' = DiskLosses
  BY CountMoves
<1>2. DiskOwed' => DiskOwed
  BY OwedMoves
<1>3. run'.phase \in FirstPhases => run.phase \in FirstPhases
  BY PhaseLeft
<1>4. /\ rec'.pc = "failStatus" => rec.pc = "failStatus" \/ ~(run.restarts >= MaxRestarts)
      /\ rec'.pc = "restoreStatus" => ~pvc'
  BY PcMoves
<1>5. CASE run'.restarts = run.restarts
  BY <1>1, <1>2, <1>3, <1>4, <1>5, BudgetFrame
<1>6. CASE ResumeStatus /\ run'.restarts # run.restarts
  <2>1. run'.restarts = 0 /\ rec'.pc = "idle"
    BY <1>6, ResumeWrite DEF Ended, Wrote
  <2>2. QED
    BY <1>1, <1>2, <1>3, <1>4, <2>1, BudgetFrame
<1>7. CASE (HandleMissingPod \/ FailStatus) /\ run'.restarts # run.restarts
  <2>1. /\ run'.restarts = run.restarts + 1 /\ run'.phase = "Interrupted" /\ rec'.pc = "idle"
        /\ rec.pc = "failStatus" \/ ~(run.restarts >= MaxRestarts)
    BY <1>7, <1>s, MissingPodMove, FailStatusMove DEF Ended, Wrote, PhaseSet, SameAttempt
  <2>2. ~(run.restarts >= MaxRestarts)
    BY <2>1 DEF BInv
  <2>3. QED
    BY <1>1, <1>2, <2>1, <2>2, BudgetCharge
<1>8. CASE RestoreStatus /\ run'.restarts # run.restarts
  <2>1. /\ rec.pc = "restoreStatus" /\ rec'.pc = "idle"
        /\ run'.restarts = run.restarts + 1 /\ run'.phase = "Interrupted"
        /\ RestoreRecorded(run)'
    BY <1>8, RestoreWrite, RestoreStatusMove DEF Ended, Wrote, SameAttempt, RestoreRecorded
  <2>2. ~RestoreRecorded(run) /\ run.phase # "Canceled" /\ run.phase \notin FirstPhases
    BY <2>1, <1>s, PassKnows DEF WorkSteps, Terminal, FirstPhases
  <2>3. DiskOwed
    BY <2>1, <2>2 DEF DiskOwed, Early, BInv
  <2>4. run.restarts + 1 <= MaxRestarts + DiskLosses
    BY <2>3 DEF BInv
  <2>5. ~DiskOwed' /\ run'.phase \notin FirstPhases
    BY <2>1 DEF DiskOwed, FirstPhases, RestoreRecorded
  <2>6. run'.restarts <= MaxRestarts + DiskLosses'
    BY <1>1, <2>1, <2>4
  <2>7. QED
    BY <2>1, <2>5, <2>6 DEF BInv
<1>9. QED
  BY <1>5, <1>6, <1>7, <1>8, CountMoves

\* Outside a pass and a loss of the disk, no disk is lost.
LEMMA QuietCounts ==
  ASSUME IInv, [Next]_vars, ~Operator, ~LoseNode, ~LosePVC
  PROVE  spent'["nodeLoss"] = spent["nodeLoss"] /\ spent'["pvcLoss"] = spent["pvcLoss"]
<1>1. spent' = spent \/ (\E e \in Events \ {"nodeLoss", "pvcLoss"} : Spend(e))
  BY DEF Next, vars, PodStep, client, Hydrate, Work, TakeCheckpoint, Exit,
     ExitRetryable, PodGone, LosePod, DoomedPVCGone, SyncRun, SyncPods, SyncPVC, Crash,
     Ask, RequestAnnotation, Events, Annotations
<1>2. QED
  BY <1>1, SpendCounts DEF Events

\* ... and none comes to be owed for.
LEMMA OwedEnvironment ==
  ASSUME IInv, [Next]_vars, ~Operator, ~LoseNode, ~LosePVC
  PROVE  (DiskOwed' => DiskOwed) /\ (pvc' => pvc)
<1>1. /\ run'.phase = run.phase
      /\ RestoreRecorded(run)' <=> RestoreRecorded(run)
      /\ rec'.pc = "idle" \/ rec'.pc = rec.pc
  <2>1. /\ run'.phase = run.phase /\ run'.conds = run.conds
        /\ rec' = Idle \/ rec'.pc = rec.pc
    BY ObjectEnvironment
  <2>2. rec' = Idle => rec'.pc = "idle"
    BY DEF Idle
  <2>3. QED
    BY <2>1, <2>2 DEF RestoreRecorded
<1>2. Early => Early'
  BY <1>1 DEF Early, DiskSeen
<1>3. \/ pvc' = pvc /\ doomed' = doomed
      \/ doomed /\ ~pvc' /\ ~doomed'
  BY DEF Next, vars, PodStep, workspace, cluster, Hydrate, Work, TakeCheckpoint, Exit,
     ExitRetryable, PodGone, LosePod, DoomedPVCGone, RemovePVC, SyncRun, SyncPods, SyncPVC,
     Crash, Ask, RequestAnnotation
<1>4. QED
  BY <1>1, <1>2, <1>3 DEF DiskOwed

\* So does everything around the operator.
LEMMA BudgetEnvironment ==
  ASSUME ~StaleReads, IInv, SInv, BInv, [Next]_vars, ~Operator
  PROVE  BInv'
<1>1. /\ run'.phase = run.phase /\ run'.restarts = run.restarts
      /\ RestoreRecorded(run)' <=> RestoreRecorded(run)
      /\ rec'.pc = "idle" \/ rec'.pc = rec.pc
  <2>1. /\ run'.phase = run.phase /\ run'.restarts = run.restarts /\ run'.conds = run.conds
        /\ rec' = Idle \/ rec'.pc = rec.pc
    BY ObjectEnvironment
  <2>2. rec' = Idle => rec'.pc = "idle"
    BY DEF Idle
  <2>3. QED
    BY <2>1, <2>2 DEF RestoreRecorded
<1>t. run.restarts \in Nat /\ MaxRestarts \in Nat /\ DiskLosses \in Nat
  BY CounterTypes
<1>2. CASE LoseNode \/ LosePVC
  <2>1. DiskLosses' = DiskLosses + 1
    <3>1. \/ /\ spent'["nodeLoss"] = spent["nodeLoss"] + 1
             /\ spent'["pvcLoss"] = spent["pvcLoss"]
          \/ /\ spent'["pvcLoss"] = spent["pvcLoss"] + 1
             /\ spent'["nodeLoss"] = spent["nodeLoss"]
      BY <1>2, SpendCounts DEF LoseNode, LosePVC, Events
    <3>2. spent["nodeLoss"] \in Nat /\ spent["pvcLoss"] \in Nat
      BY CounterTypes DEF Events
    <3>3. QED
      BY <3>1, <3>2 DEF DiskLosses
  <2>2. pvc' => pvc
    BY <1>2 DEF LoseNode, LosePVC, RemovePVC
  <2>3. run'.restarts + 1 <= MaxRestarts + DiskLosses' /\ DiskLosses' >= 1
    BY <2>1, <1>1, <1>t DEF BInv
  <2>4. run'.restarts <= MaxRestarts + DiskLosses'
    BY <2>3, <1>1, <1>t, <2>1
  <2>5. QED
    BY <1>1, <2>2, <2>3, <2>4 DEF BInv
<1>3. CASE ~(LoseNode \/ LosePVC)
  <2>1. DiskLosses' = DiskLosses
    BY <1>3, QuietCounts DEF DiskLosses
  <2>3. (DiskOwed' => DiskOwed) /\ (pvc' => pvc)
    BY <1>3, OwedEnvironment
  <2>4. /\ rec'.pc = "failStatus" => rec.pc = "failStatus"
        /\ rec'.pc = "restoreStatus" => ~pvc'
    BY <1>1, <2>3 DEF BInv
  <2>5. QED
    BY <1>1, <2>1, <2>3, <2>4, BudgetFrame
<1>4. QED
  BY <1>2, <1>3

\* BInv holds in every reachable state.
THEOREM BudgetInvariance == ASSUME ~StaleReads PROVE Spec => []BInv
<1>1. Init => BInv
  <2> SUFFICES ASSUME Init PROVE BInv
    OBVIOUS
  <2>0. rec.pc = "idle" /\ doomed = FALSE
    BY DEF Init, Idle
  <2>1. run.phase \in FirstPhases /\ run.restarts = 0
    <3>1. PICK b \in Buckets : run = NewRun(b)
      BY DEF Init
    <3>2. run.phase = "" /\ run.restarts = 0
      BY <3>1 DEF NewRun
    <3>3. QED
      BY <3>2 DEF FirstPhases
  <2>2. DiskLosses = 0
    BY DEF Init, DiskLosses, Events
  <2>3. ~DiskOwed
    BY <2>0, <2>1 DEF DiskOwed, Early, DiskSeen
  <2>4. run.restarts <= MaxRestarts + DiskLosses
    BY <2>1, <2>2, OperatorConstants
  <2>5. QED
    BY <2>0, <2>1, <2>3, <2>4 DEF BInv
<1>2. IInv /\ SInv /\ BInv /\ [Next]_vars => BInv'
  BY BudgetMoves, BudgetEnvironment
<1>3. QED
  BY <1>1, <1>2, Invariance, SafetyInvariance, PTL DEF Spec

\* RetryBudgetRespected: for every budget and every sequence of losses, restarts
\* stop at maxRestarts plus the losses of the disk, which ensurePVC charges
\* without looking at the budget (handleMissingPod, handlePodFailure, ensurePVC).
THEOREM RetryBudget ==
  ASSUME ~StaleReads
  PROVE  Spec => []RetryBudgetRespected
<1>1. BInv => RetryBudgetRespected
  BY DEF BInv, RetryBudgetRespected
<1>2. QED
  BY <1>1, BudgetInvariance, PTL

-----------------------------------------------------------------------------
(* What a restart is charged for.                                          *)

\* The next attempt, of which nothing is recorded yet.
NextAttempt ==
  /\ Gen' = Gen + 1 /\ pods' = pods /\ rec'.pc = "idle" /\ run'.phase = "Interrupted"
  /\ SameRecords

\* What a pass does to the records of the run: its attempt, its pod, its
\* checkpoint and a request to cancel it.
LEMMA RecordMoves ==
  ASSUME ~StaleReads, IInv, SInv, Operator
  PROVE  /\ Gen' = Gen \/ NextAttempt
         /\ \/ run'.podName = run.podName
            \/ RecordPod /\ run'.podName = Gen /\ Gen' = Gen
            \/ RestoreStatus /\ run'.podName = None
         /\ \/ run'.lastCk = run.lastCk
            \/ rec.pc = "commitProof" /\ Wrote("idle") /\ run'.lastCk = rec.proof
            \/ /\ rec.pc \in {"ensurePod", "podRunning"} /\ ObserveRunning /\ Wrote("idle")
               /\ run'.lastCk = pods[Gen].ck /\ pods[Gen].ck > run.lastCk
         /\ "cancel" \in run.annots => "cancel" \in run'.annots
<1> DEFINE P == /\ Gen' = Gen \/ NextAttempt
                /\ \/ run'.podName = run.podName
                   \/ RecordPod /\ run'.podName = Gen /\ Gen' = Gen
                   \/ RestoreStatus /\ run'.podName = None
                /\ \/ run'.lastCk = run.lastCk
                   \/ rec.pc = "commitProof" /\ Wrote("idle") /\ run'.lastCk = rec.proof
                   \/ /\ rec.pc \in {"ensurePod", "podRunning"} /\ ObserveRunning /\ Wrote("idle")
                      /\ run'.lastCk = pods[Gen].ck /\ pods[Gen].ck > run.lastCk
                /\ "cancel" \in run.annots => "cancel" \in run'.annots
<1> SUFFICES P
  OBVIOUS
<1>s. Tracks /\ PausingHasBucket /\ PauseRequests
  BY DEF SInv
<1>0. ASSUME run' = run PROVE P
  BY <1>0 DEF Gen
<1>1. ASSUME Ended PROVE P
  BY <1>0, <1>1 DEF Ended
<1>2. ASSUME NEW p, NEW why, PhaseSet(p, why) PROVE P
  BY <1>2 DEF PhaseSet, SameAttempt, SameRecords, SameRequests
<1>3. ASSUME SameAttempt, SameRecords,
             SameRequests \/ (\E a \in {"pause", "resume"} : run'.annots = run.annots \ {a})
      PROVE  P
  BY <1>3 DEF SameAttempt, SameRecords, SameRequests
<1>4. ASSUME NextAttempt, SameRequests PROVE P
  BY <1>4 DEF NextAttempt, SameRecords, SameRequests
<1>5. ASSUME Admit \/ CancelStatus \/ EnterPausing \/ PausePodLost \/ PausedStatus \/ LostStatus
             \/ PodAdmissionForbidden \/ ObservePending \/ ObserveSucceeded
      PROVE  P
  BY <1>1, <1>2, <1>5, <1>s, AdmitMove, CancelStatusMove, EnterPausingMove, PausePodLostMove,
     PausedStatusMove, LostStatusMove, ForbiddenMove, PendingMove, SucceededMove
<1>6. ASSUME FailTerminally PROVE P
  BY <1>1, <1>2, <1>6, <1>s, FailTerminallyMove
<1>7. ASSUME ResumeClear \/ AbortClear \/ RemoveCheckpointedPod PROVE P
  BY <1>1, <1>3, <1>7, <1>s, ResumeClearMove, AbortClearMove, RemoveMove
<1>8. ASSUME RecordPosture \/ ClearRecoveryConditions \/ AbortStatus PROVE P
  BY <1>1, <1>3, <1>8, <1>s, PostureMove, ClearMove, AbortWrite
<1>9. ASSUME Reconcile \/ Cancel \/ Resume \/ Quiesce \/ Snapshot \/ Unquiesce
             \/ CreateWorkspacePVC \/ BeginRestore \/ WorkspaceLost \/ EnsureRunSpec
             \/ CreatePod \/ RetryFailedPod \/ ObserveNothing
      PROVE  P
  BY <1>0, <1>9 DEF Reconcile, Cancel, Resume, Quiesce, Snapshot, Unquiesce,
     CreateWorkspacePVC, BeginRestore, WorkspaceLost, EnsureRunSpec, CreatePod,
     RetryFailedPod, ObserveNothing
<1>10. ASSUME CommitProof PROVE P
  <2>1. rec.pc = "commitProof"
    BY <1>10 DEF CommitProof, At
  <2>2. QED
    BY <1>1, <1>10, <2>1, ProofWrite DEF SameAttempt, SameRequests
<1>11. ASSUME RecordPod PROVE P
  BY <1>1, <1>11, IdentityWrite DEF SameAttempt, SameRequests
<1>12. ASSUME ObserveRunning PROVE P
  <2>1. rec.pc \in {"ensurePod", "podRunning"} /\ CurrentGen = Gen
    BY <1>12, <1>s, RunningMove
  <2>2. QED
    BY <1>1, <1>12, <2>1, RunningWrite DEF SameAttempt, SameRequests
<1>13. ASSUME HandleMissingPod \/ FailStatus PROVE P
  <2>1. pods' = pods
    BY <1>13 DEF HandleMissingPod, FailStatus, cluster
  <2>2. \/ Ended \/ PhaseSet("Failed", "RetryBudgetExhausted")
        \/ NextAttempt /\ SameRequests
    BY <1>13, <1>s, <2>1, MissingPodMove, FailStatusMove DEF NextAttempt, Wrote
  <2>3. QED
    BY <1>1, <1>2, <1>4, <2>2
<1>14. ASSUME ResumeStatus PROVE P
  <2>1. pods' = pods
    BY <1>14 DEF ResumeStatus, cluster
  <2>2. Ended \/ (NextAttempt /\ SameRequests)
    BY <1>14, <2>1, ResumeWrite DEF NextAttempt, Wrote
  <2>3. QED
    BY <1>1, <1>4, <2>2
<1>15. ASSUME RestoreStatus PROVE P
  <2>1. pods' = pods
    BY <1>15 DEF RestoreStatus, cluster
  <2>2. \/ Ended
        \/ NextAttempt /\ SameRequests
        \/ /\ SameAttempt /\ run'.podName = None /\ run'.lastCk = run.lastCk /\ SameRequests
    BY <1>15, <2>1, RestoreWrite DEF NextAttempt, Wrote, SameRecords
  <2>3. QED
    BY <1>1, <1>4, <1>15, <2>2 DEF SameAttempt, SameRequests
<1> HIDE DEF P
<1>16. QED
  BY <1>5, <1>6, <1>7, <1>8, <1>9, <1>10, <1>11, <1>12, <1>13, <1>14, <1>15 DEF Operator

\* Which steps of a pass touch the current pod.
LEMMA PodMoves ==
  ASSUME ~StaleReads, IInv, SInv, Operator
  PROVE  \/ pods'[Gen].phase = pods[Gen].phase /\ pods'[Gen].del = pods[Gen].del
         \/ Cancel \/ Resume \/ BeginRestore \/ WorkspaceLost \/ RemoveCheckpointedPod
         \/ RetryFailedPod \/ CreatePod
<1>s. Tracks
  BY DEF SInv
<1>t. pods \in [Gens -> Pods] /\ Gen \in Gens
  BY GenType DEF IInv, WorldTypes, ObjectTypes, Gen
<1>1. CASE Quiesce \/ Unquiesce
  <2>1. pods' = pods \/ \E stop \in BOOLEAN : pods' = [pods EXCEPT ![Gen].stopped = stop]
    BY <1>1, <1>s, QuiesceMove, UnquiesceMove DEF Signalled
  <2>2. QED
    BY <1>t, <2>1 DEF Pods
<1>2. CASE ~(Quiesce \/ Unquiesce)
  <2>1. \/ pods' = pods
        \/ Cancel \/ Resume \/ BeginRestore \/ WorkspaceLost \/ RemoveCheckpointedPod
        \/ RetryFailedPod \/ CreatePod
    BY <1>2 DEF Operator, Reconcile, Admit, CancelStatus, ResumeClear,
       ResumeStatus, EnterPausing, PausePodLost, Snapshot, CommitProof, AbortClear, AbortStatus,
       PausedStatus, RecordPosture, CreateWorkspacePVC, RestoreStatus,
       LostStatus, EnsureRunSpec, PodAdmissionForbidden, RecordPod,
       HandleMissingPod, ObserveNothing, ObservePending, ClearRecoveryConditions,
       ObserveRunning, ObserveSucceeded, FailTerminally, FailStatus, cluster
  <2>2. QED
    BY <2>1
<1>3. QED
  BY <1>1, <1>2

\* The loss or failure of the current pod can still be charged.
Chargeable == /\ "cancel" \notin run.annots
              /\ run.phase \notin Terminal \cup {"Paused"}
              /\ ~(run.phase = "Pausing" /\ Proven(run))
PodLost ==
  \/ pods[Gen].phase = "Absent" /\ (run.podName = Gen \/ rec.pc = "recordPod")
  \/ pods[Gen].phase # "Absent" /\ (pods[Gen].del \/ pods[Gen].phase = "Retryable")
PodOwed == Chargeable /\ PodLost

\* What the steps that delete or charge for a pod count on.
ChargeFacts ==
  /\ RestoreRecorded(run) => run.bucket
  /\ rec.pc \in CancelSteps => "cancel" \in run.annots
  /\ rec.pc = "failStatus" => /\ run.podName = Gen
                              /\ pods[Gen].phase # "Absent" => pods[Gen].del
  /\ run.podName <= Gen

\* Every incident, and the loss of a node once more: it takes a pod and a disk.
Losses == Incidents + spent.nodeLoss

\* Restarts, and those still to be charged, are covered by losses.  A disk that
\* is gone stands for the loss of its pod as well, since the pass that finds it
\* gone deletes the pod itself, unless a pass is past that point.
CInv ==
  /\ run.restarts <= Losses
  /\ PodOwed \/ DiskOwed => run.restarts + 1 <= Losses
  /\ PodOwed /\ DiskOwed /\ (pvc \/ rec.pc \in DiskSeen) => run.restarts + 2 <= Losses

\* A pass begins by canceling, or not at all, and comes to count the failure of a
\* pod only by deleting it.
LEMMA StepMoves ==
  ASSUME ~StaleReads, IInv, SInv, Operator
  PROVE  /\ rec'.pc \in CancelSteps => Reconcile \/ Cancel
         /\ rec'.pc = "failStatus" => RetryFailedPod
         /\ rec'.pc = "recordPod" => CreatePod
<1> DEFINE P == rec'.pc \notin CancelSteps \cup {"failStatus", "recordPod"}
<1>s. Tracks /\ PausingHasBucket /\ PauseRequests
  BY DEF SInv
<1>1. ASSUME rec'.pc \in {"idle", "resumeClear", "resumeStatus", "abortStatus", "pausedStatus",
                          "prerequisites", "podRunning", "snapshot", "unquiesce", "abortClear",
                          "commitProof", "runSpec", "restoreStatus", "lostStatus", "ensurePod"}
      PROVE  P
  BY <1>1 DEF CancelSteps
<1>2. ASSUME Ended \/ Wrote("idle") PROVE P
  BY <1>1, <1>2, EndedIsIdle DEF Wrote
<1>3. ASSUME Admit \/ CancelStatus \/ EnterPausing \/ PausePodLost \/ PausedStatus \/ LostStatus
             \/ PodAdmissionForbidden \/ ObservePending \/ ObserveSucceeded \/ FailTerminally
      PROVE  P
  BY <1>2, <1>3, <1>s, AdmitMove, CancelStatusMove, EnterPausingMove, PausePodLostMove,
     PausedStatusMove, LostStatusMove, ForbiddenMove, PendingMove, SucceededMove,
     FailTerminallyMove DEF PhaseSet
<1>4. ASSUME ResumeStatus \/ CommitProof \/ AbortStatus \/ RestoreStatus \/ RecordPod
             \/ ObserveRunning \/ HandleMissingPod \/ FailStatus \/ ObserveNothing
      PROVE  P
  BY <1>2, <1>4, <1>s, ResumeWrite, ProofWrite, AbortWrite, RestoreWrite, IdentityWrite,
     RunningWrite, MissingPodMove, FailStatusMove, NothingMove DEF PhaseSet
<1>5. ASSUME ResumeClear \/ AbortClear \/ RemoveCheckpointedPod \/ RecordPosture
             \/ ClearRecoveryConditions
      PROVE  P
  BY <1>1, <1>2, <1>5, <1>s, ResumeClearMove, AbortClearMove, RemoveMove, PostureMove, ClearMove
     DEF Wrote
<1>6. ASSUME Resume \/ Quiesce \/ Snapshot \/ Unquiesce \/ WorkspaceLost
             \/ CreateWorkspacePVC \/ EnsureRunSpec \/ BeginRestore
      PROVE  P
  <2>1. ASSUME Resume \/ WorkspaceLost \/ CreateWorkspacePVC \/ EnsureRunSpec \/ BeginRestore
        PROVE  rec'.pc \in {"resumeClear", "lostStatus", "runSpec", "ensurePod", "restoreStatus"}
    BY <2>1, <1>s, ResumeMove, WorkspaceLostMove, CreateDiskMove, RunSpecMove,
       BeginRestoreMove DEF Goes
  <2>2. ASSUME Quiesce \/ Unquiesce
        PROVE  rec'.pc \in {"snapshot", "unquiesce", "abortClear"}
    BY <2>2, <1>s, QuiesceMove, UnquiesceMove DEF Goes, Signalled
  <2>3. ASSUME Snapshot PROVE rec'.pc \in {"commitProof", "unquiesce"}
    BY <2>3, <1>s, SnapshotMove DEF Goes
  <2>4. QED
    BY <1>1, <1>6, <2>1, <2>2, <2>3
<1>7. ASSUME Reconcile PROVE rec'.pc \notin {"failStatus", "recordPod"}
  BY <1>7, <1>s, ReconcileMove
<1>8. ASSUME Cancel PROVE rec'.pc = "cancelStatus"
  BY <1>8, <1>s, CancelMove DEF Goes
<1>9. ASSUME CreatePod PROVE rec'.pc = "recordPod"
  BY <1>9, <1>s, CreatePodMove DEF Goes
<1>10. ASSUME RetryFailedPod PROVE rec'.pc = "failStatus"
  BY <1>10, <1>s, RetryPodMove DEF Goes
<1>11. ASSUME P
       PROVE  /\ rec'.pc \in CancelSteps => Reconcile \/ Cancel
              /\ rec'.pc = "failStatus" => RetryFailedPod
              /\ rec'.pc = "recordPod" => CreatePod
  BY <1>11
<1> HIDE DEF P
<1>12. QED
  BY <1>3, <1>4, <1>5, <1>6, <1>7, <1>8, <1>9, <1>10, <1>11 DEF Operator, CancelSteps

\* A pass keeps ChargeFacts.
LEMMA FactsMoves ==
  ASSUME ~StaleReads, IInv, SInv, ChargeFacts, Operator
  PROVE  ChargeFacts'
<1>s. Tracks /\ PausingHasBucket /\ PauseRequests
  BY DEF SInv
<1>t. pods \in [Gens -> Pods] /\ Gen \in Gens /\ run.podName \in Gens \cup {None}
      /\ Gens \subseteq Nat
  <2>1. pods \in [Gens -> Pods] /\ Gen \in Gens
    BY GenType DEF IInv, WorldTypes, ObjectTypes, Gen
  <2>2. run.podName \in Gens \cup {None}
    BY DEF IInv, ObjectTypes, Runs
  <2>3. Gens \subseteq Nat
    BY OperatorConstants DEF Gens
  <2>4. QED
    BY <2>1, <2>2, <2>3
<1>1. RestoreRecorded(run)' => run'.bucket
  <2>1. run'.bucket = run.bucket
    BY ObjectMoves
  <2>2. CASE rec.pc = "restoreStatus"
    BY <2>1, <2>2, <1>s, PassKnows
  <2>3. CASE rec.pc # "restoreStatus"
    <3>1. "WorkspaceRestorePending" \in run'.conds => "WorkspaceRestorePending" \in run.conds
      BY <2>3, CondsMoves DEF Posture, Recovery
    <3>2. QED
      BY <2>1, <3>1 DEF ChargeFacts, RestoreRecorded
  <2>4. QED
    BY <2>2, <2>3
<1>2. rec'.pc \in CancelSteps => "cancel" \in run'.annots
  <2> SUFFICES ASSUME rec'.pc \in CancelSteps PROVE "cancel" \in run'.annots
    OBVIOUS
  <2>1. "cancel" \in run.annots => "cancel" \in run'.annots
    BY RecordMoves
  <2>2. CASE Reconcile
    BY <2>2 DEF Reconcile, SeenRun, RequestedTransition, ActiveTransition, PauseTransition,
       CancelSteps
  <2>3. CASE Cancel
    BY <2>1, <2>3 DEF Cancel, At, ChargeFacts, CancelSteps
  <2>4. CASE ~(Reconcile \/ Cancel)
    <3>1. rec'.pc \notin CancelSteps
      BY <2>4, StepMoves
    <3>2. QED
      BY <3>1
  <2>5. QED
    BY <2>2, <2>3, <2>4
<1>3. ASSUME rec'.pc = "failStatus"
      PROVE  run'.podName = Gen' /\ (pods'[Gen'].phase # "Absent" => pods'[Gen'].del)
  <2>1. RetryFailedPod
    BY <1>3, StepMoves
  <2>2. /\ run.podName = Gen /\ run' = run /\ pods[Gen].phase = "Retryable"
        /\ pods' = [pods EXCEPT ![Gen].del = TRUE]
    BY <2>1, <1>s, RetryPodMove DEF Goes
  <2>3. Gen' = Gen
    BY <2>2 DEF Gen
  <2>4. QED
    BY <2>2, <2>3, <1>t DEF Pods
<1>4. run'.podName <= Gen'
  <2>1. CASE run'.podName = run.podName
    <3>1. Gen' = Gen \/ Gen' = Gen + 1
      BY RecordMoves DEF NextAttempt
    <3>2. QED
      BY <2>1, <3>1, <1>t DEF ChargeFacts, None
  <2>2. CASE run'.podName = Gen /\ Gen' = Gen
    BY <2>2, <1>t
  <2>3. CASE run'.podName = None
    <3>1. Gen' = Gen \/ Gen' = Gen + 1
      BY RecordMoves DEF NextAttempt
    <3>2. QED
      BY <2>3, <3>1, <1>t DEF None
  <2>4. QED
    BY <2>1, <2>2, <2>3, RecordMoves
<1>5. QED
  BY <1>1, <1>2, <1>3, <1>4 DEF ChargeFacts

\* Only its own step works from the last point of a resume.
LEMMA StepOf ==
  ASSUME Operator, rec.pc = "resumeStatus"
  PROVE  ResumeStatus
BY DEF Operator, At, PodMissing, PodFound, MissingPVC, Reconcile, Admit, Cancel, CancelStatus,
   Resume, ResumeClear, EnterPausing, PausePodLost, Quiesce, Snapshot, CommitProof,
   Unquiesce, AbortClear, AbortStatus, RemoveCheckpointedPod, PausedStatus, RecordPosture,
   CreateWorkspacePVC, BeginRestore, RestoreStatus, WorkspaceLost, LostStatus, EnsureRunSpec,
   CreatePod, PodAdmissionForbidden, RecordPod, HandleMissingPod, ObserveNothing,
   ObservePending, ClearRecoveryConditions, ObserveRunning, ObserveSucceeded, FailTerminally,
   RetryFailedPod, FailStatus

\* What is chargeable after a step of a pass was so before, unless the step
\* began the next attempt.
LEMMA ChargeableMoves ==
  ASSUME ~StaleReads, IInv, SInv, Operator, Gen' = Gen, Chargeable'
  PROVE  Chargeable
<1>s. Tracks
  BY DEF SInv
<1>1. "cancel" \notin run.annots
  BY RecordMoves DEF Chargeable
<1>2. CASE run'.phase # run.phase
  <2>1. rec.run = run /\ Leads(rec.pc, run'.phase)
    BY <1>2, ObjectMoves
  <2>2. rec.pc \in {"admit", "enterPausing", "quiesce",
                    "lostStatus", "ensurePod", "resumeStatus", "restoreStatus", "failStatus",
                    "abortStatus", "podRunning"}
    BY <2>1 DEF Leads, Chargeable, Terminal
  <2>3. /\ rec.pc \in WorkSteps => run.phase \notin Terminal \cup {"", "Paused", "Pausing"}
        /\ rec.pc \in ProofSteps \cup AbortSteps => run.phase = "Pausing" /\ ~Proven(run)
        /\ rec.pc = "enterPausing" => run.phase \notin Terminal \cup {"Paused", "Pausing"}
        /\ rec.pc = "admit" => run.phase = ""
    BY <2>2, <1>s, PassKnows
  <2>4. rec.pc # "resumeStatus"
    <3> SUFFICES ASSUME rec.pc = "resumeStatus" PROVE FALSE
      OBVIOUS
    <3>1. ResumeStatus
      BY StepOf
    <3>2. Gen' = Gen + 1
      BY <1>2, <3>1, ResumeWrite DEF Ended
    <3>3. Gen \in Nat
      BY GenType, OperatorConstants DEF Gen, IInv, ObjectTypes, Gens
    <3>4. QED
      BY <3>2, <3>3
  <2>5. QED
    BY <1>1, <2>2, <2>3, <2>4 DEF Chargeable, WorkSteps, ProofSteps, AbortSteps, Terminal
<1>3. CASE run'.phase = run.phase
  <2>1. run.phase \notin Terminal \cup {"Paused"}
    BY <1>3 DEF Chargeable
  <2>2. CASE run.phase # "Pausing"
    BY <1>1, <2>1, <2>2 DEF Chargeable
  <2>3. CASE run.phase = "Pausing" /\ Proven(run)
    <3>1. rec.pc \notin WorkSteps \cup ProofSteps \cup AbortSteps
      BY <2>3, <1>s, PassKnows DEF WorkSteps, ProofSteps, AbortSteps
    <3>2. run'.lastCk = run.lastCk
      BY <3>1, RecordMoves DEF WorkSteps, ProofSteps
    <3>3. "PauseCheckpointReady" \in run'.conds
      BY <2>3, <3>1, CondsMoves DEF Proven, AbortSteps, Recovery
    <3>4. QED
      BY <1>3, <2>3, <3>2, <3>3 DEF Chargeable, Proven
  <2>4. QED
    BY <1>1, <2>1, <2>2, <2>3 DEF Chargeable
<1>4. QED
  BY <1>2, <1>3

\* Nothing is owed for the pod of a new attempt.
LEMMA NewAttemptOwes ==
  ASSUME ~StaleReads, IInv, SInv, ChargeFacts, Operator, Gen' = Gen + 1
  PROVE  ~PodOwed'
<1>t. Gen \in Gens /\ Gen \in Nat
  BY GenType, OperatorConstants DEF IInv, ObjectTypes, Gen, Gens
<1>1. NextAttempt
  BY <1>t, RecordMoves
<1>2. Gen' \in Gens /\ pods' = pods /\ rec'.pc = "idle"
  BY <1>1, InvStep, GenType DEF NextAttempt, IInv, ObjectTypes, Gen, Next
<1>3. pods[Gen'].phase = "Absent"
  BY <1>t, <1>2 DEF IInv, NoFuturePods, Gen
<1>4. run'.podName # Gen'
  <2>1. run'.podName = run.podName /\ run.podName <= Gen
    BY <1>1 DEF NextAttempt, SameRecords, ChargeFacts
  <2>2. run.podName \in Int
    BY OperatorConstants DEF IInv, ObjectTypes, Runs, Gens, None
  <2>3. QED
    BY <1>t, <2>1, <2>2
<1>5. QED
  BY <1>2, <1>3, <1>4 DEF PodOwed, PodLost

\* A pass owes for a pod only what it owed before, but for the pod it deletes
\* because the disk is gone.
LEMMA PodOwedMoves ==
  ASSUME ~StaleReads, IInv, SInv, ChargeFacts, Operator, ~BeginRestore, ~WorkspaceLost, PodOwed'
  PROVE  PodOwed
<1>s. Tracks
  BY DEF SInv
<1>t. pods \in [Gens -> Pods] /\ Gen \in Gens /\ Gen \in Nat
  BY GenType, OperatorConstants DEF IInv, WorldTypes, ObjectTypes, Gen, Gens
<1>1. Gen' = Gen
  BY <1>t, RecordMoves, NewAttemptOwes DEF NextAttempt
<1>2. Chargeable
  BY <1>1, ChargeableMoves DEF PodOwed
<1>3. PodLost
  <2>1. ~Cancel
    BY <1>2 DEF Cancel, At, ChargeFacts, CancelSteps, Chargeable
  <2>2. ~Resume
    BY <1>2, <1>s, ResumeKnows DEF Resume, At, ResumeSteps, Halted, Chargeable, Terminal
  <2>3. ~RemoveCheckpointedPod
    BY <1>2, <1>s, PassKnows DEF RemoveCheckpointedPod, At, RemovalSteps, Chargeable
  <2>4. CASE RetryFailedPod
    BY <2>4, <1>s, RetryPodMove DEF PodLost
  <2>5. ~CreatePod
    <3> SUFFICES ASSUME CreatePod PROVE FALSE
      OBVIOUS
    <3>1. pods' = [pods EXCEPT ![Gen] = FreshPod]
      BY <1>s, CreatePodMove
    <3>2. pods'[Gen'] = FreshPod
      BY <1>1, <1>t, <3>1
    <3>3. QED
      BY <3>2 DEF PodOwed, PodLost, FreshPod, NoPod
  <2>6. CASE pods'[Gen].phase = pods[Gen].phase /\ pods'[Gen].del = pods[Gen].del
    <3>1. rec'.pc # "recordPod"
      BY <2>5, StepMoves
    <3>2. CASE run'.podName = run.podName
      BY <1>1, <2>6, <3>1, <3>2 DEF PodOwed, PodLost
    <3>3. CASE RecordPod
      BY <1>1, <1>s, <2>6, <3>1, <3>3, RecordPodMove DEF PodOwed, PodLost
    <3>4. CASE run'.podName = None
      <4>1. run'.podName # Gen'
        BY <1>1, <1>t, <3>4 DEF None
      <4>2. QED
        BY <1>1, <2>6, <3>1, <4>1 DEF PodOwed, PodLost
    <3>5. QED
      BY <3>2, <3>3, <3>4, RecordMoves
  <2>7. QED
    BY <2>1, <2>2, <2>3, <2>4, <2>5, <2>6, PodMoves
<1>4. QED
  BY <1>2, <1>3 DEF PodOwed

\* The losses are numbers.
LEMMA LossTypes ==
  ASSUME IInv
  PROVE  Losses \in Nat /\ run.restarts \in Nat
<1>1. \A e \in Events : spent[e] \in Nat
  BY CounterTypes
<1>2. Losses \in Nat
  BY <1>1 DEF Losses, Incidents, DiskLosses, Events
<1>3. QED
  BY <1>2, CounterTypes

\* CInv survives a step that neither charges nor loses anything.
LEMMA ChargeFrame ==
  ASSUME IInv, CInv, Losses' = Losses,
         run'.restarts = run.restarts \/ run'.restarts = 0,
         PodOwed' => PodOwed, DiskOwed' => DiskOwed,
         DiskOwed' /\ (pvc' \/ rec'.pc \in DiskSeen) => pvc \/ rec.pc \in DiskSeen
  PROVE  CInv'
<1>t. Losses \in Nat /\ run.restarts \in Nat
  BY LossTypes
<1>1. run'.restarts <= Losses'
  BY <1>t DEF CInv
<1>2. PodOwed' \/ DiskOwed' => run'.restarts + 1 <= Losses'
  BY <1>t DEF CInv
<1>3. PodOwed' /\ DiskOwed' /\ (pvc' \/ rec'.pc \in DiskSeen) => run'.restarts + 2 <= Losses'
  BY <1>t DEF CInv
<1>4. QED
  BY <1>1, <1>2, <1>3 DEF CInv

\* CInv survives a charge for a pod that is owed for.
LEMMA ChargePod ==
  ASSUME IInv, CInv, Losses' = Losses, run'.restarts = run.restarts + 1,
         PodOwed, ~PodOwed', DiskOwed' => DiskOwed, rec.pc \in DiskSeen
  PROVE  CInv'
<1>t. Losses \in Nat /\ run.restarts \in Nat
  BY LossTypes
<1>1. run'.restarts <= Losses'
  BY <1>t DEF CInv
<1>2. DiskOwed' => run'.restarts + 1 <= Losses'
  BY <1>t DEF CInv
<1>3. QED
  BY <1>1, <1>2 DEF CInv

\* CInv survives one more loss.
LEMMA ChargeLoss ==
  ASSUME IInv, CInv, Losses' = Losses + 1, run'.restarts = run.restarts,
         PodOwed' /\ DiskOwed' => PodOwed \/ DiskOwed
  PROVE  CInv'
<1>t. Losses \in Nat /\ run.restarts \in Nat
  BY LossTypes
<1>1. run'.restarts + 1 <= Losses'
  BY <1>t DEF CInv
<1>2. PodOwed' /\ DiskOwed' => run'.restarts + 2 <= Losses'
  BY <1>t DEF CInv
<1>3. run'.restarts <= Losses'
  BY <1>1, <1>t
<1>4. QED
  BY <1>1, <1>2, <1>3 DEF CInv

\* Every step of a pass is covered by the losses.
LEMMA ChargeMoves ==
  ASSUME ~StaleReads, IInv, SInv, BInv, ChargeFacts, CInv, Operator
  PROVE  CInv'
<1>s. Tracks
  BY DEF SInv
<1>t. Losses \in Nat /\ run.restarts \in Nat
  BY LossTypes
<1>1. Losses' = Losses
  BY CountMoves DEF Losses, Incidents, DiskLosses, Events
<1>2. DiskOwed' => DiskOwed
  BY OwedMoves
<1>3. DiskOwed' /\ (pvc' \/ rec'.pc \in DiskSeen) => pvc \/ rec.pc \in DiskSeen
  <2>1. CASE pvc'
    BY <2>1, DiskMoves DEF DiskOwed, SInv, Mounted
  <2>2. CASE ~pvc'
    BY <2>2, PcMoves
  <2>3. QED
    BY <2>1, <2>2
<1>4. CASE BeginRestore \/ WorkspaceLost
  <2>1. /\ rec.pc = "prerequisites" /\ ~pvc /\ run.phase # "Pending" /\ ~RestoreRecorded(run)
    BY <1>4, <1>s, BeginRestoreMove, WorkspaceLostMove DEF ChargeFacts
  <2>2. DiskOwed
    BY <2>1, <1>s, PassKnows DEF DiskOwed, Early, FirstPhases, WorkSteps, Terminal
  <2>3. run' = run /\ rec'.pc \in {"restoreStatus", "lostStatus"} /\ pvc' = pvc
    BY <1>4, <1>s, BeginRestoreMove, WorkspaceLostMove DEF Goes, workspace
  <2>4. run'.restarts + 1 <= Losses'
    BY <1>1, <2>2, <2>3 DEF CInv
  <2>5. run'.restarts <= Losses'
    BY <1>1, <2>3 DEF CInv
  <2>6. ~(pvc' \/ rec'.pc \in DiskSeen)
    BY <2>1, <2>3 DEF DiskSeen
  <2>7. QED
    BY <2>4, <2>5, <2>6 DEF CInv
<1>5. CASE ~(BeginRestore \/ WorkspaceLost)
  <2>1. PodOwed' => PodOwed
    BY <1>5, PodOwedMoves
  <2>2. CASE run'.restarts = run.restarts
    BY <1>1, <1>2, <1>3, <2>1, <2>2, ChargeFrame
  <2>3. CASE ResumeStatus /\ run'.restarts # run.restarts
    <3>1. run'.restarts = 0
      BY <2>3, ResumeWrite DEF Ended
    <3>2. QED
      BY <1>1, <1>2, <1>3, <2>1, <3>1, ChargeFrame
  <2>4. CASE (HandleMissingPod \/ FailStatus) /\ run'.restarts # run.restarts
    <3>1. /\ run'.restarts = run.restarts + 1 /\ rec.run = run
          /\ rec.pc \in {"ensurePod", "failStatus"}
          /\ rec.pc = "ensurePod" => pods[Gen].phase = "Absent" /\ run.podName = Gen
          /\ Gen' = Gen + 1
      BY <2>4, <1>s, MissingPodMove, FailStatusMove DEF Ended, Wrote, PhaseSet, SameAttempt
    <3>2. PodLost
      BY <3>1 DEF PodLost, ChargeFacts
    <3>3. Chargeable
      <4>1. "cancel" \notin run.annots
        BY <3>1, <1>s DEF Tracks, Knows, CancelSteps, ResumeSteps
      <4>2. run.phase \notin Terminal \cup {"Paused", "Pausing"}
        BY <3>1, <1>s, PassKnows DEF WorkSteps
      <4>3. QED
        BY <4>1, <4>2 DEF Chargeable
    <3>4. ~PodOwed'
      BY <3>1, NewAttemptOwes
    <3>5. QED
      BY <1>1, <1>2, <3>1, <3>2, <3>3, <3>4, ChargePod DEF PodOwed, DiskSeen
  <2>5. CASE RestoreStatus /\ run'.restarts # run.restarts
    <3>1. /\ rec.pc = "restoreStatus"
          /\ run'.restarts = run.restarts + 1 /\ Gen' = Gen + 1
          /\ RestoreRecorded(run)'
      BY <2>5, RestoreWrite, RestoreStatusMove DEF Ended, Wrote, SameAttempt, RestoreRecorded
    <3>2. ~RestoreRecorded(run) /\ run.phase # "Canceled" /\ run.phase \notin FirstPhases
      BY <3>1, <1>s, PassKnows DEF WorkSteps, Terminal, FirstPhases
    <3>3. DiskOwed
      BY <3>1, <3>2 DEF DiskOwed, Early, BInv
    <3>4. run'.restarts <= Losses'
      BY <1>1, <3>1, <3>3 DEF CInv
    <3>5. ~DiskOwed' /\ ~PodOwed'
      BY <3>1, NewAttemptOwes DEF DiskOwed, RestoreRecorded
    <3>6. QED
      BY <3>4, <3>5 DEF CInv
  <2>6. QED
    BY <2>2, <2>3, <2>4, <2>5, CountMoves
<1>6. QED
  BY <1>4, <1>5

\* A pod that the environment neither loses nor fails: it stays what it is to
\* the operator, or a terminating one goes.
Fades(p, q) ==
  \/ q.phase = "Absent" /\ (p.phase = "Absent" \/ p.del)
  \/ /\ q.phase = "Absent" <=> p.phase = "Absent"
     /\ q.del = p.del
     /\ q.phase = "Retryable" => p.phase = "Retryable"

\* What the environment does to pods.
LEMMA PodsEnvironment ==
  ASSUME IInv, [Next]_vars, ~Operator
  PROVE  /\ \A g \in Gens : pods'[g].phase # "Absent" =>
              pods[g].phase # "Absent" /\ (pods[g].del => pods'[g].del)
         /\ \/ \A g \in Gens : Fades(pods[g], pods'[g])
            \/ LoseNode
            \/ \E g \in Gens : LosePod(g) \/ ExitRetryable(g)
<1> DEFINE P == /\ \A g \in Gens : pods'[g].phase # "Absent" =>
                     pods[g].phase # "Absent" /\ (pods[g].del => pods'[g].del)
                /\ \/ \A g \in Gens : Fades(pods[g], pods'[g])
                   \/ LoseNode
                   \/ \E g \in Gens : LosePod(g) \/ ExitRetryable(g)
<1> SUFFICES P
  OBVIOUS
<1>t. pods \in [Gens -> Pods]
  BY DEF IInv, WorldTypes
<1>p. NoPod.phase = "Absent" /\ NoPod.del = FALSE
  BY DEF NoPod
<1>1. ASSUME pods' = pods PROVE P
  BY <1>1 DEF Fades
<1>2. ASSUME NEW g \in Gens, NEW p, pods' = [pods EXCEPT ![g] = p],
             Fades(pods[g], p)
      PROVE  P
  <2>1. \A h \in Gens : Fades(pods[h], pods'[h])
    <3>1. ASSUME NEW h \in Gens, h # g PROVE Fades(pods[h], pods'[h])
      BY <1>2, <1>t, <3>1 DEF Fades
    <3>2. pods'[g] = p
      BY <1>2, <1>t
    <3>3. QED
      BY <1>2, <3>1, <3>2
  <2>2. QED
    BY <2>1 DEF Fades
<1>3. ASSUME NEW g \in Gens, Hydrate(g) \/ Exit(g) PROVE P
  <2>1. \E phase \in {"Fatal", "Running", "Succeeded"} : SetPodPhase(g, phase)
    BY <1>3 DEF Hydrate, Exit
  <2>2. PICK phase \in {"Fatal", "Running", "Succeeded"} : SetPodPhase(g, phase)
    BY <2>1
  <2> DEFINE p == [pods[g] EXCEPT !.phase = phase]
  <2>3. pods[g].phase # "Absent"
    BY <1>3 DEF Hydrate, Exit, Live
  <2>4. p.phase = phase /\ p.del = pods[g].del
    BY <1>t DEF Pods
  <2>5. Fades(pods[g], p)
    BY <2>2, <2>3, <2>4 DEF Fades
  <2>6. QED
    BY <1>2, <2>2, <2>5 DEF SetPodPhase
<1>4. ASSUME NEW g \in Gens, TakeCheckpoint(g) PROVE P
  <2> DEFINE p == [pods[g] EXCEPT !.ck = disk]
  <2>1. p.phase = pods[g].phase /\ p.del = pods[g].del
    BY <1>t DEF Pods
  <2>2. Fades(pods[g], p)
    BY <2>1 DEF Fades
  <2>3. QED
    BY <1>2, <1>4, <2>2 DEF TakeCheckpoint
<1>5. ASSUME NEW g \in Gens, PodGone(g) PROVE P
  BY <1>2, <1>5, <1>p DEF PodGone, Fades
<1>6. ASSUME NEW g \in Gens, ExitRetryable(g) PROVE P
  <2>1. \A h \in Gens : pods'[h].phase # "Absent" =>
              pods[h].phase # "Absent" /\ (pods[h].del => pods'[h].del)
    BY <1>6, <1>t DEF ExitRetryable, SetPodPhase, Live, Pods
  <2>2. QED
    BY <1>6, <2>1
<1>7. ASSUME NEW g \in Gens, LosePod(g) PROVE P
  <2>1. \A h \in Gens : pods'[h].phase # "Absent" =>
              pods[h].phase # "Absent" /\ (pods[h].del => pods'[h].del)
    BY <1>7, <1>p, <1>t DEF LosePod, Pods
  <2>2. QED
    BY <1>7, <2>1
<1>8. ASSUME LoseNode PROVE P
  BY <1>8, <1>p DEF LoseNode
<1>9. ASSUME \/ \E g \in Gens : Work(g)
             \/ DoomedPVCGone \/ LosePVC \/ SyncRun \/ SyncPods \/ SyncPVC \/ Crash
             \/ \E a \in Annotations : Ask(a) \/ RequestAnnotation(a)
             \/ UNCHANGED vars
      PROVE  P
  BY <1>1, <1>9 DEF Work, DoomedPVCGone, LosePVC, SyncRun, SyncPods, SyncPVC, Crash, Ask,
     RequestAnnotation, cluster, vars
<1> HIDE DEF P
<1>10. QED
  BY <1>3, <1>4, <1>5, <1>6, <1>7, <1>8, <1>9 DEF Next, PodStep

\* The environment keeps ChargeFacts.
LEMMA FactsEnvironment ==
  ASSUME ~StaleReads, IInv, SInv, ChargeFacts, [Next]_vars, ~Operator
  PROVE  ChargeFacts'
<1>g. Gen \in Gens
  BY GenType DEF Gen, IInv, ObjectTypes
<1>1. /\ run'.bucket = run.bucket /\ run'.podName = run.podName /\ Gen' = Gen
      /\ run'.conds = run.conds /\ run.annots \subseteq run'.annots
      /\ rec'.pc = "idle" \/ rec'.pc = rec.pc
  <2>1. rec' = Idle => rec'.pc = "idle"
    BY DEF Idle
  <2>2. QED
    BY <2>1, ObjectEnvironment
<1>2. pods'[Gen].phase # "Absent" => pods[Gen].phase # "Absent" /\ (pods[Gen].del => pods'[Gen].del)
  BY <1>g, PodsEnvironment
<1>3. RestoreRecorded(run)' => run'.bucket
  BY <1>1 DEF ChargeFacts, RestoreRecorded
<1>4. rec'.pc \in CancelSteps => "cancel" \in run'.annots
  BY <1>1 DEF ChargeFacts, CancelSteps
<1>5. rec'.pc = "failStatus" =>
        run'.podName = Gen' /\ (pods'[Gen'].phase # "Absent" => pods'[Gen'].del)
  BY <1>1, <1>2 DEF ChargeFacts
<1>6. run'.podName <= Gen'
  BY <1>1 DEF ChargeFacts
<1>7. QED
  BY <1>3, <1>4, <1>5, <1>6 DEF ChargeFacts

\* The environment counts what it takes.
LEMMA ChargeEnvironment ==
  ASSUME ~StaleReads, IInv, SInv, CInv, [Next]_vars, ~Operator
  PROVE  CInv'
<1>t. Losses \in Nat /\ run.restarts \in Nat /\ \A e \in Events : spent[e] \in Nat
  BY LossTypes, CounterTypes
<1>g. Gen \in Gens
  BY GenType DEF Gen, IInv, ObjectTypes
<1>1. /\ run'.phase = run.phase /\ run'.podName = run.podName /\ Gen' = Gen
      /\ run'.conds = run.conds /\ run.annots \subseteq run'.annots
      /\ run'.lastCk = run.lastCk /\ run'.restarts = run.restarts
      /\ rec'.pc = "idle" \/ rec'.pc = rec.pc
  <2>1. rec' = Idle => rec'.pc = "idle"
    BY DEF Idle
  <2>2. QED
    BY <2>1, ObjectEnvironment
<1>2. Chargeable' => Chargeable
  BY <1>1 DEF Chargeable, Proven
<1>3. CASE LoseNode
  <2>1. /\ spent'["nodeLoss"] = spent["nodeLoss"] + 1
        /\ spent'["pvcLoss"] = spent["pvcLoss"]
        /\ spent'["podLoss"] = spent["podLoss"] /\ spent'["exit"] = spent["exit"]
    BY <1>3, SpendCounts DEF LoseNode, Events
  <2>2. Losses' = Losses + 2
    BY <1>t, <2>1 DEF Losses, Incidents, DiskLosses, Events
  <2>3. run'.restarts + 2 <= Losses' /\ run'.restarts + 1 <= Losses' /\ run'.restarts <= Losses'
    BY <1>1, <1>t, <2>2 DEF CInv
  <2>4. QED
    BY <2>3 DEF CInv
<1>4. CASE LosePVC
  <2>1. /\ spent'["nodeLoss"] = spent["nodeLoss"]
        /\ spent'["pvcLoss"] = spent["pvcLoss"] + 1
        /\ spent'["podLoss"] = spent["podLoss"] /\ spent'["exit"] = spent["exit"]
    BY <1>4, SpendCounts DEF LosePVC, Events
  <2>2. Losses' = Losses + 1
    BY <1>t, <2>1 DEF Losses, Incidents, DiskLosses, Events
  <2>3. pods' = pods /\ rec' = rec
    BY <1>4 DEF LosePVC
  <2>4. PodOwed' => PodOwed
    BY <1>1, <1>2, <2>3 DEF PodOwed, PodLost
  <2>5. QED
    BY <1>1, <2>2, <2>4, ChargeLoss
<1>5. CASE \E g \in Gens : LosePod(g) \/ ExitRetryable(g)
  <2>1. /\ spent'["nodeLoss"] = spent["nodeLoss"]
        /\ spent'["pvcLoss"] = spent["pvcLoss"]
        /\ \/ spent'["podLoss"] = spent["podLoss"] + 1 /\ spent'["exit"] = spent["exit"]
           \/ spent'["podLoss"] = spent["podLoss"] /\ spent'["exit"] = spent["exit"] + 1
    BY <1>5, SpendCounts DEF LosePod, ExitRetryable, Events
  <2>2. Losses' = Losses + 1
    BY <1>t, <2>1 DEF Losses, Incidents, DiskLosses, Events
  <2>3. DiskOwed' => DiskOwed
    <3>1. run' = run /\ rec' = rec /\ pvc' = pvc /\ doomed' = doomed
      BY <1>5 DEF LosePod, ExitRetryable, workspace
    <3>2. QED
      BY <3>1 DEF DiskOwed, RestoreRecorded, Early
  <2>4. QED
    BY <1>1, <2>2, <2>3, ChargeLoss
<1>6. CASE /\ ~LoseNode /\ ~LosePVC
           /\ ~(\E g \in Gens : LosePod(g) \/ ExitRetryable(g))
  <2>1. Losses' = Losses
    <3>1. spent' = spent \/ (\E e \in {"crash", "pause", "resume", "cancel"} : Spend(e))
      BY <1>6 DEF Next, vars, PodStep, client, Hydrate, Work, TakeCheckpoint, Exit,
         PodGone, DoomedPVCGone, SyncRun, SyncPods, SyncPVC, Crash,
         Ask, RequestAnnotation, Annotations
    <3>2. \A e \in {"podLoss", "exit", "nodeLoss", "pvcLoss"} : spent'[e] = spent[e]
      BY <3>1, SpendCounts DEF Events
    <3>3. QED
      BY <3>2 DEF Losses, Incidents, DiskLosses
  <2>2. (DiskOwed' => DiskOwed) /\ (pvc' => pvc)
    BY <1>6, OwedEnvironment
  <2>3. Fades(pods[Gen], pods'[Gen])
    BY <1>6, <1>g, PodsEnvironment
  <2>4. PodLost' => PodLost
    BY <1>1, <2>3 DEF PodLost, Fades
  <2>5. rec'.pc \in DiskSeen => rec.pc \in DiskSeen
    BY <1>1 DEF DiskSeen
  <2>6. QED
    BY <1>1, <1>2, <2>1, <2>2, <2>4, <2>5, ChargeFrame DEF PodOwed
<1>7. QED
  BY <1>3, <1>4, <1>5, <1>6

\* ChargedPerLoss: a restart is charged for a loss, at most one for each pod
\* that is lost or fails and for each lost disk, and so at most two for a lost
\* node, however losses, passes and crashes interleave (ensurePVC,
\* handleMissingPod, handlePodFailure).
THEOREM ChargesAreCovered ==
  ASSUME ~StaleReads
  PROVE  Spec => []ChargedPerLoss
<1>1. Init => ChargeFacts /\ CInv
  <2> SUFFICES ASSUME Init PROVE ChargeFacts /\ CInv
    OBVIOUS
  <2>0. rec.pc = "idle" /\ doomed = FALSE
    BY DEF Init, Idle
  <2>1. PICK b \in Buckets : run = NewRun(b)
    BY DEF Init
  <2>2. run.phase \in FirstPhases /\ ~RestoreRecorded(run)
    <3>1. run.phase = "" /\ run.conds = {}
      BY <2>1 DEF NewRun
    <3>2. QED
      BY <3>1 DEF FirstPhases, RestoreRecorded
  <2>3. run.restarts = 0 /\ run.podName = -1
    BY <2>1 DEF NewRun, None
  <2>4. Gen = 0
    BY <2>1, NewRunType, OperatorConstants DEF Gen
  <2>5. ~DiskOwed
    BY <2>0, <2>2 DEF DiskOwed, Early, DiskSeen
  <2>6. ~PodOwed
    <3>1. pods[Gen].phase = "Absent"
      <4>1. 0 \in Gens
        BY OperatorConstants DEF Gens
      <4>2. QED
        BY <2>4, <4>1 DEF Init, NoPod
    <3>2. run.podName # Gen
      BY <2>3, <2>4
    <3>3. QED
      BY <2>0, <3>1, <3>2 DEF PodOwed, PodLost
  <2>7. ChargeFacts
    <3>1. run.podName <= Gen
      BY <2>3, <2>4
    <3>2. QED
      BY <2>0, <2>2, <3>1 DEF ChargeFacts, CancelSteps
  <2>8. CInv
    <3>1. Losses = 0
      BY DEF Init, Losses, Incidents, DiskLosses, Events
    <3>2. run.restarts <= Losses
      BY <2>3, <3>1
    <3>3. QED
      BY <2>5, <2>6, <3>2 DEF CInv
  <2>9. QED
    BY <2>7, <2>8
<1>2. IInv /\ SInv /\ BInv /\ ChargeFacts /\ CInv /\ [Next]_vars => ChargeFacts' /\ CInv'
  BY FactsMoves, FactsEnvironment, ChargeMoves, ChargeEnvironment
<1>3. CInv => ChargedPerLoss
  BY DEF CInv, ChargedPerLoss, Losses
<1>4. QED
  BY <1>1, <1>2, <1>3, BudgetInvariance, SafetyInvariance, PTL DEF Spec

=============================================================================
