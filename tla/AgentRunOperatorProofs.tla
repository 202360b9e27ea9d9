----------------------- MODULE AgentRunOperatorProofs -----------------------
(***************************************************************************)
(* What holds of the operator for every retry budget, every mix of         *)
(* environment events and every bound, with fresh and with cached reads:   *)
(* types, three promises about the order of attempts, and that readers of  *)
(* the status see the steps of AgentRunLifecycle.                          *)
(*                                                                         *)
(* The promises are not inductive by themselves.  They rest on what the    *)
(* copies of the run (the one a reconcile works on, the one in the         *)
(* informer cache) have to do with the object on the API server: a copy    *)
(* that still carries the current resourceVersion equals it, and any copy  *)
(* is of the current or an earlier attempt.                                *)
(***************************************************************************)
EXTENDS AgentRunOperator, TLAPS

ObjectTypes ==
  /\ run \in Runs
  /\ rec \in [pc: Steps, run: Runs, fresh: BOOLEAN, proof: Versions \cup {None}]
  /\ cache \in [run: Runs, fresh: BOOLEAN, pods: [Gens -> Pods], pvc: BOOLEAN]

WorldTypes ==
  /\ pods \in [Gens -> Pods]
  /\ pvc \in BOOLEAN /\ doomed \in BOOLEAN
  /\ disk \in Versions /\ work \in Versions
  /\ latest \in Versions \cup {None}
  /\ runSpec \in RunSpecs
  /\ asked \in SUBSET Annotations
  /\ spent \in [Events -> Nat]

\* A copy with the current resourceVersion is the object.
FreshCopies == /\ rec.fresh => rec.run = run
               /\ cache.fresh => cache.run = run

\* Copies are never ahead of what they were copied from.
OldCopies == /\ AttemptGeneration(rec.run) <= AttemptGeneration(run)
             /\ AttemptGeneration(cache.run) <= AttemptGeneration(run)
             /\ StaleReads => AttemptGeneration(rec.run) <= AttemptGeneration(cache.run)

ResumeSteps == {"resume", "resumeClear", "resumeStatus"}

\* The phase a step of the reconcile may find in its copy.
Fits(step, phase) ==
  IF step \in ResumeSteps THEN phase \in {"Paused", "Failed"}
  ELSE step # "idle" => phase \notin Terminal

\* The reconcile is where its copy's phase allows it to be.
StepFits == Fits(rec.pc, rec.run.phase)

\* A RunSpec in resume mode was written for an attempt after the first, and
\* nobody works on the first attempt any more.
ResumeIsKnown ==
  runSpec.mode = "resume" =>
    /\ AttemptGeneration(SeenRun) > 0
    /\ rec.pc # "idle" => AttemptGeneration(rec.run) > 0

Copies == FreshCopies /\ OldCopies /\ StepFits /\ ResumeIsKnown

\* No pod of an attempt still to come.
NoFuturePods == \A g \in Gens : pods[g].phase # "Absent" => g <= AttemptGeneration(run)

IInv == ObjectTypes /\ WorldTypes /\ Copies /\ NoFuturePods

\* What a step may do to the attempt, and to a finished run.
Advances == AttemptGeneration(run') >= AttemptGeneration(run)
Finished ==
  /\ run.phase \in {"Succeeded", "Canceled"} => run'.phase = run.phase
  /\ run.phase = "Failed" /\ run'.phase # "Failed" =>
       /\ run'.phase = "Interrupted"
       /\ pods[AttemptGeneration(run')].phase = "Absent"


\* What every step keeps of the run and its copies.
Kept == ObjectTypes' /\ Copies' /\ Advances /\ Finished

Recs == [pc: Steps, run: Runs, fresh: BOOLEAN, proof: Versions \cup {None}]

\* What every step keeps of the pods.
PodsKept ==
  /\ pods' \in [Gens -> Pods]
  /\ \A g \in Gens : pods'[g].phase # "Absent" =>
       pods[g].phase # "Absent" \/ g <= AttemptGeneration(run)

-----------------------------------------------------------------------------
(* Runs, attempts and copies.                                              *)

\* Attempt generations stay within the bound (attemptGeneration).
LEMMA GenType == \A r \in Runs : AttemptGeneration(r) \in Gens
BY OperatorConstants DEF AttemptGeneration, Runs, Gens

\* The next attempt is one further (advanceAttempt).
LEMMA AdvanceType ==
  ASSUME NEW r \in Runs, AttemptGeneration(r) < MaxGen
  PROVE  /\ AdvanceAttempt(r) \in Runs
         /\ AdvanceAttempt(r).attempt = AttemptGeneration(r) + 1
         /\ AdvanceAttempt(r).restarts = r.restarts
         /\ AdvanceAttempt(r).phase = r.phase
         /\ AttemptGeneration(AdvanceAttempt(r)) = AttemptGeneration(r) + 1
BY OperatorConstants DEF AttemptGeneration, AdvanceAttempt, Runs, Gens

\* A retry is the next attempt and costs one restart (handleMissingPod).
LEMMA ChargedType ==
  ASSUME NEW r \in Runs, AttemptGeneration(r) < MaxGen
  PROVE  /\ Charged(r) \in Runs
         /\ Charged(r).phase = r.phase
         /\ AttemptGeneration(Charged(r)) = AttemptGeneration(r) + 1
<1> DEFINE a == AdvanceAttempt(r)
<1>1. /\ a \in Runs /\ a.phase = r.phase /\ a.restarts = r.restarts
      /\ a.attempt = AttemptGeneration(r) + 1
  BY AdvanceType
<1>2. Charged(r) = [a EXCEPT !.restarts = a.restarts + 1]
  BY DEF Charged
<1>3. r.restarts \in Nat /\ r.restarts <= AttemptGeneration(r) /\ AttemptGeneration(r) \in Nat
  BY OperatorConstants DEF AttemptGeneration, Runs, Gens
<1> HIDE DEF a
<1>4. /\ Charged(r) \in Runs /\ Charged(r).phase = r.phase
      /\ Charged(r).restarts = r.restarts + 1
      /\ Charged(r).attempt = AttemptGeneration(r) + 1
  BY <1>1, <1>2, <1>3, OperatorConstants DEF Runs, Gens
<1>5. QED
  BY <1>3, <1>4 DEF AttemptGeneration

\* A new run is on its first attempt.
LEMMA NewRunType ==
  \A b \in BOOLEAN : NewRun(b) \in Runs /\ AttemptGeneration(NewRun(b)) = 0
                     /\ NewRun(b).phase = ""
BY OperatorConstants DEF NewRun, Runs, AttemptGeneration, Phases, Terminal, Reasons, Gens,
   Versions, None, Annotations, Conditions

\* A pass that ends forgets its copy.
LEMMA IdleType ==
  /\ Idle \in [pc: Steps, run: Runs, fresh: BOOLEAN, proof: Versions \cup {None}]
  /\ Idle.pc = "idle" /\ Idle.fresh = FALSE
  /\ AttemptGeneration(Idle.run) = 0
BY NewRunType DEF Idle, Steps, None

\* A step that writes the run under optimistic concurrency.
LEMMA Persisted ==
  ASSUME IInv, NEW new \in Runs, NEW step \in Steps, Persist(new, step),
         runSpec' = runSpec,
         AttemptGeneration(new) >= AttemptGeneration(rec.run),
         step # "idle" => /\ AttemptGeneration(new) = AttemptGeneration(rec.run)
                          /\ new.phase = rec.run.phase
                          /\ Fits(step, new.phase),
         rec.pc # "idle",
         rec.run.phase \in Terminal /\ new.phase # rec.run.phase =>
           /\ rec.run.phase = "Failed" /\ new.phase = "Interrupted"
           /\ AttemptGeneration(new) = AttemptGeneration(rec.run) + 1
  PROVE  Kept
<1> USE DEF IInv
<1>1. CASE rec.fresh
  <2>1. run = rec.run
    BY <1>1 DEF Copies, FreshCopies
  <2>2. /\ run' = new
        /\ rec' = IF step = "idle" THEN Idle ELSE [rec EXCEPT !.pc = step, !.run = new]
        /\ cache' = [cache EXCEPT !.fresh = @ /\ new = run]
    BY <1>1 DEF Persist
  <2>3. ObjectTypes'
    BY <2>2, IdleType DEF ObjectTypes
  <2>4. cache'.run = cache.run /\ (cache'.fresh => cache.fresh /\ new = run)
    BY <2>2 DEF ObjectTypes
  <2>5. FreshCopies'
    BY <2>2, <2>4, IdleType DEF ObjectTypes, Copies, FreshCopies
  <2>6. AttemptGeneration(run) \in Nat /\ AttemptGeneration(new) \in Nat
        /\ AttemptGeneration(cache.run) \in Nat
    BY GenType, OperatorConstants DEF ObjectTypes, Gens
  <2>7. \/ step = "idle" /\ rec' = Idle
        \/ step # "idle" /\ rec'.run = new /\ rec'.pc = step
    BY <2>2 DEF ObjectTypes
  <2>8. OldCopies'
    BY <2>1, <2>2, <2>4, <2>6, <2>7, IdleType DEF Copies, OldCopies
  <2>9. StepFits'
    BY <2>2, <2>7, IdleType DEF StepFits, Fits, ResumeSteps
  <2>10. ResumeIsKnown'
    BY <2>1, <2>2, <2>4, <2>6, <2>7, IdleType DEF Copies, ResumeIsKnown, SeenRun
  <2>11. Advances
    BY <2>1, <2>2 DEF Advances
  <2>12. Finished
    BY <2>1, <2>2, <2>6, GenType DEF Finished, Terminal, NoFuturePods
  <2>13. QED
    BY <2>3, <2>5, <2>8, <2>9, <2>10, <2>11, <2>12 DEF Copies, Kept
<1>2. CASE ~rec.fresh
  <2>1. rec' = Idle /\ run' = run /\ cache' = cache
    BY <1>2 DEF Persist, Return
  <2>2. AttemptGeneration(run) \in Nat /\ AttemptGeneration(cache.run) \in Nat
    BY GenType, OperatorConstants DEF ObjectTypes, Gens
  <2>3. ObjectTypes'
    BY <2>1, IdleType DEF ObjectTypes
  <2>4. FreshCopies' /\ OldCopies'
    BY <2>1, <2>2, IdleType DEF Copies, FreshCopies, OldCopies
  <2>5. StepFits' /\ ResumeIsKnown'
    BY <2>1, IdleType DEF Copies, StepFits, Fits, ResumeSteps, ResumeIsKnown, SeenRun
  <2>6. Advances /\ Finished
    BY <2>1, <2>2 DEF Advances, Finished, Terminal
  <2>7. QED
    BY <2>3, <2>4, <2>5, <2>6 DEF Copies, Kept
<1>3. QED
  BY <1>1, <1>2 DEF ObjectTypes

\* A step that goes on with the same copy.
LEMMA Continued ==
  ASSUME IInv, NEW step \in Steps, rec' \in Recs, rec'.pc = step, rec'.run = rec.run,
         rec'.fresh = rec.fresh, run' = run, cache' = cache, runSpec' = runSpec,
         Fits(step, rec.run.phase), rec.pc # "idle"
  PROVE  Kept
<1> USE DEF IInv
<1>1. AttemptGeneration(run) \in Nat
  BY GenType, OperatorConstants DEF ObjectTypes, Gens
<1>2. ObjectTypes'
  BY DEF ObjectTypes, Recs
<1>3. FreshCopies' /\ OldCopies'
  BY DEF Copies, FreshCopies, OldCopies
<1>4. StepFits' /\ ResumeIsKnown'
  BY DEF Copies, StepFits, ResumeIsKnown, SeenRun
<1>5. Advances /\ Finished
  BY <1>1 DEF Advances, Finished
<1>6. QED
  BY <1>2, <1>3, <1>4, <1>5 DEF Copies, Kept

\* A step that ends the pass without a write.
LEMMA Returned ==
  ASSUME IInv, rec' = Idle, run' = run, cache' = cache, runSpec' = runSpec
  PROVE  Kept
<1> USE DEF IInv
<1>1. AttemptGeneration(run) \in Nat /\ AttemptGeneration(cache.run) \in Nat
  BY GenType, OperatorConstants DEF ObjectTypes, Gens
<1>2. ObjectTypes'
  BY IdleType DEF ObjectTypes
<1>3. FreshCopies' /\ OldCopies'
  BY <1>1, IdleType DEF Copies, FreshCopies, OldCopies
<1>4. StepFits' /\ ResumeIsKnown'
  BY IdleType DEF Copies, StepFits, Fits, ResumeSteps, ResumeIsKnown, SeenRun
<1>5. Advances /\ Finished
  BY <1>1 DEF Advances, Finished
<1>6. QED
  BY <1>2, <1>3, <1>4, <1>5 DEF Copies, Kept

\* A step that concerns neither the run nor its copies.
LEMMA Untouched ==
  ASSUME IInv, UNCHANGED <<run, rec, cache, runSpec>>
  PROVE  Kept
<1> USE DEF IInv
<1>1. AttemptGeneration(run) \in Nat
  BY GenType, OperatorConstants DEF ObjectTypes, Gens
<1>2. ObjectTypes'
  BY DEF ObjectTypes
<1>3. FreshCopies' /\ OldCopies'
  BY DEF Copies, FreshCopies, OldCopies
<1>4. StepFits' /\ ResumeIsKnown'
  BY DEF Copies, StepFits, ResumeIsKnown, SeenRun
<1>5. Advances /\ Finished
  BY <1>1 DEF Advances, Finished
<1>6. QED
  BY <1>2, <1>3, <1>4, <1>5 DEF Copies, Kept

\* A write of the phase alone, by a step that is not resuming (setPhase).
LEMMA PhaseWritten ==
  ASSUME IInv, NEW phase \in Phases, NEW reason \in Reasons, SetPhase(phase, reason),
         runSpec' = runSpec, rec.pc \notin ResumeSteps, rec.pc # "idle"
  PROVE  Kept
<1> DEFINE new == [rec.run EXCEPT !.phase = phase, !.reason = reason]
<1>1. new \in Runs /\ new.attempt = rec.run.attempt /\ new.restarts = rec.run.restarts
  BY DEF IInv, ObjectTypes, Runs
<1>2. Persist(new, "idle")
  BY DEF SetPhase
<1>3. rec.run.phase \notin Terminal
  BY DEF IInv, Copies, StepFits, Fits
<1> HIDE DEF new
<1>4. AttemptGeneration(new) = AttemptGeneration(rec.run)
  BY <1>1 DEF AttemptGeneration
<1>5. "idle" \in Steps /\ AttemptGeneration(rec.run) \in Nat
  BY GenType, OperatorConstants DEF Steps, IInv, ObjectTypes, Gens
<1>6. QED
  BY <1>1, <1>2, <1>3, <1>4, <1>5, Persisted

\* The path of a pass fits the phase it was chosen for
\* (handleRequestedTransition).
LEMMA TransitionFits ==
  ASSUME NEW r \in Runs
  PROVE  /\ RequestedTransition(r) \in Steps
         /\ Fits(RequestedTransition(r), r.phase)
<1>1. PauseTransition(r) \in {"abortClear", "enterPausing", "removePod", "quiesce"}
  BY DEF PauseTransition
<1>2. ActiveTransition(r) \in {"cancel", "admit", "prerequisites", "abortClear",
                               "enterPausing", "removePod", "quiesce"}
  BY <1>1 DEF ActiveTransition
<1>3. CASE r.phase = "Paused"
  BY <1>3 DEF RequestedTransition, Fits, ResumeSteps, Steps, Terminal
<1>4. CASE r.phase \in Terminal
  BY <1>4 DEF RequestedTransition, Fits, ResumeSteps, Steps, Terminal
<1>5. CASE r.phase # "Paused" /\ r.phase \notin Terminal
  <2>1. RequestedTransition(r) = ActiveTransition(r)
    BY <1>5 DEF RequestedTransition
  <2>2. QED
    BY <1>2, <1>5, <2>1 DEF Fits, ResumeSteps, Steps
<1>6. QED
  BY <1>3, <1>4, <1>5

-----------------------------------------------------------------------------
(* What the steps do to the run and its copies.                            *)

\* The steps of cancel, resume and pause.
LEMMA TransitionSteps ==
  ASSUME IInv,
         Reconcile \/ Admit \/ Cancel \/ CancelStatus \/ Resume \/ ResumeClear
           \/ ResumeStatus \/ EnterPausing \/ PausePodLost \/ Quiesce \/ Snapshot
           \/ CommitProof \/ Unquiesce \/ AbortClear \/ AbortStatus
           \/ RemoveCheckpointedPod \/ PausedStatus
  PROVE  Kept
<1>g. AttemptGeneration(rec.run) \in Nat
  BY GenType, OperatorConstants DEF IInv, ObjectTypes, Gens
<1>1. ASSUME Reconcile PROVE Kept
  <2>t. run \in Runs /\ cache.run \in Runs /\ cache.fresh \in BOOLEAN /\ StaleReads \in BOOLEAN
    BY OperatorConstants DEF IInv, ObjectTypes
  <2>1. SeenRun \in Runs
    BY <2>t DEF SeenRun
  <2>2. RequestedTransition(SeenRun) \in Steps
        /\ Fits(RequestedTransition(SeenRun), SeenRun.phase)
    BY <2>1, TransitionFits
  <2>3. /\ rec' = [pc |-> RequestedTransition(SeenRun), run |-> SeenRun,
                   fresh |-> ~StaleReads \/ cache.fresh, proof |-> None]
        /\ run' = run /\ cache' = cache /\ runSpec' = runSpec
    BY <1>1 DEF Reconcile, cluster
  <2>4. /\ rec'.pc = RequestedTransition(SeenRun) /\ rec'.run = SeenRun
        /\ rec'.fresh = (~StaleReads \/ cache.fresh)
    BY <2>3
  <2>5. ObjectTypes'
    BY <2>1, <2>2, <2>3 DEF IInv, ObjectTypes
  <2>6. AttemptGeneration(run) \in Nat /\ AttemptGeneration(cache.run) \in Nat
    BY <2>t, GenType, OperatorConstants DEF Gens
  <2>7. FreshCopies'
    BY <2>3, <2>4 DEF IInv, Copies, FreshCopies, SeenRun
  <2>8. OldCopies'
    BY <2>3, <2>4, <2>6 DEF IInv, Copies, OldCopies, SeenRun
  <2>9. StepFits'
    BY <2>2, <2>4 DEF StepFits
  <2>10. ResumeIsKnown'
    BY <2>3, <2>4 DEF IInv, Copies, ResumeIsKnown, SeenRun
  <2>11. Advances /\ Finished
    BY <2>3, <2>6 DEF Advances, Finished
  <2>12. QED
    BY <2>5, <2>7, <2>8, <2>9, <2>10, <2>11 DEF Copies, Kept
<1>2. ASSUME Admit PROVE Kept
  <2>1. rec.pc # "idle" /\ rec.pc \notin ResumeSteps /\ SetPhase("Pending", "Admitted")
    BY <1>2 DEF Admit, At, ResumeSteps
  <2>2. QED
    BY <1>2, <2>1, PhaseWritten DEF Admit, cluster, Phases, Terminal, Reasons
<1>3. ASSUME Cancel PROVE Kept
  <2>1. rec' \in Recs /\ rec'.pc = "cancelStatus" /\ rec'.run = rec.run /\ rec'.fresh = rec.fresh
    BY <1>3 DEF Cancel, Continue, Recs, IInv, ObjectTypes, Steps
  <2>2. rec.pc # "idle" /\ Fits("cancelStatus", rec.run.phase)
    BY <1>3 DEF Cancel, At, IInv, Copies, StepFits, Fits, ResumeSteps
  <2>3. QED
    BY <1>3, <2>1, <2>2, Continued DEF Cancel, Steps, cluster
<1>4. ASSUME CancelStatus PROVE Kept
  <2>1. rec.pc # "idle" /\ rec.pc \notin ResumeSteps /\ SetPhase("Canceled", "Canceled")
    BY <1>4 DEF CancelStatus, At, ResumeSteps
  <2>2. QED
    BY <1>4, <2>1, PhaseWritten DEF CancelStatus, cluster, Phases, Terminal, Reasons
<1>5. ASSUME Resume PROVE Kept
  <2>1. rec' \in Recs /\ rec'.pc = "resumeClear" /\ rec'.run = rec.run /\ rec'.fresh = rec.fresh
    BY <1>5 DEF Resume, Continue, Recs, IInv, ObjectTypes, Steps
  <2>2. rec.pc # "idle" /\ Fits("resumeClear", rec.run.phase)
    BY <1>5 DEF Resume, At, IInv, Copies, StepFits, Fits, ResumeSteps
  <2>3. QED
    BY <1>5, <2>1, <2>2, Continued DEF Resume, Steps, cluster
<1>6. ASSUME ResumeClear PROVE Kept
  <2> DEFINE new == [rec.run EXCEPT !.annots = @ \ {"resume"}]
  <2>1. /\ new \in Runs /\ new.attempt = rec.run.attempt /\ new.restarts = rec.run.restarts
        /\ new.phase = rec.run.phase
    BY DEF IInv, ObjectTypes, Runs, Conditions, Posture, Recovery, Annotations
  <2>2. Persist(new, "resumeStatus")
    BY <1>6 DEF ResumeClear
  <2>3. rec.pc # "idle" /\ Fits("resumeStatus", rec.run.phase) /\ runSpec' = runSpec
    BY <1>6 DEF ResumeClear, At, cluster, IInv, Copies, StepFits, Fits, ResumeSteps
  <2> HIDE DEF new
  <2>4. AttemptGeneration(new) = AttemptGeneration(rec.run)
    BY <2>1 DEF AttemptGeneration
  <2>5. QED
    BY <1>g, <2>1, <2>2, <2>3, <2>4, Persisted DEF Steps
<1>7. ASSUME ResumeStatus PROVE Kept
  <2> DEFINE a == AdvanceAttempt(rec.run)
             new == Resumed(rec.run)
  <2>1. rec.run \in Runs /\ AttemptGeneration(rec.run) < MaxGen
    BY <1>7 DEF ResumeStatus, CurrentGen, IInv, ObjectTypes
  <2>2. /\ a \in Runs /\ a.attempt = AttemptGeneration(rec.run) + 1
        /\ a.restarts = rec.run.restarts
    BY <2>1, AdvanceType
  <2>3. PICK n \in {0, rec.run.restarts}, C \in SUBSET Conditions :
          new = [a EXCEPT !.restarts = n, !.phase = "Interrupted", !.conds = C]
    <3>1. a.conds \in SUBSET Conditions
      BY <2>2 DEF Runs
    <3> DEFINE paused == rec.run.phase = "Paused"
               C == a.conds \cup {"Resuming"}
                            \cup (IF paused THEN {"PauseResumePending"} ELSE {})
               n == IF paused THEN a.restarts ELSE 0
    <3>2. C \in SUBSET Conditions
      BY <3>1 DEF Conditions, Recovery
    <3>3. n \in {0, rec.run.restarts}
      BY <2>2
    <3>4. new = [a EXCEPT !.restarts = n, !.phase = "Interrupted", !.conds = C]
      BY DEF Resumed
    <3> HIDE DEF C, n, a, new
    <3>5. QED
      BY <3>2, <3>3, <3>4
  <2>4. /\ new \in Runs /\ new.phase = "Interrupted"
        /\ new.attempt = AttemptGeneration(rec.run) + 1 /\ new.restarts = n
    <3>1. n \in Gens
      BY <2>1, <2>3, OperatorConstants DEF Runs, Gens
    <3>2. "Interrupted" \in Phases
      BY DEF Phases
    <3> HIDE DEF a, new
    <3>3. new \in Runs
      BY <2>2, <2>3, <3>1, <3>2 DEF Runs
    <3>4. QED
      BY <2>2, <2>3, <3>3 DEF Runs
  <2>5. rec.run.restarts \in Nat /\ rec.run.restarts <= AttemptGeneration(rec.run)
    BY <2>1, OperatorConstants DEF Runs, Gens, AttemptGeneration
  <2>6. /\ Persist(new, "idle") /\ runSpec' = runSpec
        /\ rec.pc = "resumeStatus"
    BY <1>7 DEF ResumeStatus, cluster, At
  <2>7. rec.run.phase \in {"Paused", "Failed"}
    BY <2>6 DEF IInv, Copies, StepFits, Fits, ResumeSteps
  <2> HIDE DEF new
  <2>8. AttemptGeneration(new) = AttemptGeneration(rec.run) + 1
    BY <1>g, <2>4, <2>5 DEF AttemptGeneration
  <2>9. QED
    BY <1>g, <2>4, <2>6, <2>7, <2>8, Persisted DEF Steps, Terminal
<1>8. ASSUME EnterPausing PROVE Kept
  <2>1. rec.pc # "idle" /\ rec.pc \notin ResumeSteps /\ SetPhase("Pausing", "Pausing")
    BY <1>8 DEF EnterPausing, At, ResumeSteps
  <2>2. QED
    BY <1>8, <2>1, PhaseWritten DEF EnterPausing, cluster, Phases, Terminal, Reasons
<1>9. ASSUME PausePodLost PROVE Kept
  <2>1. rec.pc # "idle" /\ rec.pc \notin ResumeSteps /\ SetPhase("Failed", "PausePodLost")
    BY <1>9 DEF PausePodLost, At, ResumeSteps
  <2>2. QED
    BY <1>9, <2>1, PhaseWritten DEF PausePodLost, cluster, Phases, Terminal, Reasons
<1>10. ASSUME Quiesce \/ Unquiesce PROVE Kept
  <2>1. PICK step \in {"snapshot", "unquiesce", "abortClear"} : rec' = [rec EXCEPT !.pc = step]
    BY <1>10 DEF Quiesce, Unquiesce, SignalHarness, Continue
  <2>2. rec' \in Recs /\ rec'.pc = step /\ rec'.run = rec.run /\ rec'.fresh = rec.fresh
    BY <2>1 DEF Recs, IInv, ObjectTypes, Steps
  <2>3. rec.pc # "idle" /\ Fits(step, rec.run.phase)
    BY <1>10 DEF Quiesce, Unquiesce, At, IInv, Copies, StepFits, Fits, ResumeSteps
  <2>4. run' = run /\ cache' = cache /\ runSpec' = runSpec
    BY <1>10 DEF Quiesce, Unquiesce
  <2>5. QED
    BY <2>2, <2>3, <2>4, Continued DEF Steps
<1>11. ASSUME Snapshot PROVE Kept
  <2>t. disk \in Versions
    BY DEF IInv, WorldTypes
  <2>1. \/ rec' = [rec EXCEPT !.pc = "commitProof", !.proof = disk]
        \/ rec' = [rec EXCEPT !.pc = "unquiesce"]
    BY <1>11 DEF Snapshot, Continue
  <2>2. /\ rec' \in Recs /\ rec'.pc \in {"commitProof", "unquiesce"}
        /\ rec'.run = rec.run /\ rec'.fresh = rec.fresh
    BY <2>t, <2>1 DEF Recs, IInv, ObjectTypes, Steps
  <2>3. rec.pc # "idle" /\ Fits(rec'.pc, rec.run.phase)
    BY <1>11, <2>2 DEF Snapshot, At, IInv, Copies, StepFits, Fits, ResumeSteps
  <2>4. run' = run /\ cache' = cache /\ runSpec' = runSpec
    BY <1>11 DEF Snapshot
  <2>5. QED
    BY <2>2, <2>3, <2>4, Continued DEF Steps
<1>12. ASSUME CommitProof PROVE Kept
  <2> DEFINE new == [rec.run EXCEPT !.lastCk = rec.proof, !.conds = @ \cup {"PauseCheckpointReady"}]
  <2>1. /\ new \in Runs /\ new.attempt = rec.run.attempt /\ new.restarts = rec.run.restarts
        /\ new.phase = rec.run.phase
    BY DEF IInv, ObjectTypes, Runs, Conditions, Posture, Recovery, Annotations
  <2>2. Persist(new, "idle")
    BY <1>12 DEF CommitProof
  <2>3. rec.pc # "idle" /\ Fits("idle", rec.run.phase) /\ runSpec' = runSpec
    BY <1>12 DEF CommitProof, At, cluster, IInv, Copies, StepFits, Fits, ResumeSteps
  <2> HIDE DEF new
  <2>4. AttemptGeneration(new) = AttemptGeneration(rec.run)
    BY <2>1 DEF AttemptGeneration
  <2>5. QED
    BY <1>g, <2>1, <2>2, <2>3, <2>4, Persisted DEF Steps
<1>13. ASSUME AbortClear PROVE Kept
  <2> DEFINE new == [rec.run EXCEPT !.annots = @ \ {"pause"}]
  <2>1. /\ new \in Runs /\ new.attempt = rec.run.attempt /\ new.restarts = rec.run.restarts
        /\ new.phase = rec.run.phase
    BY DEF IInv, ObjectTypes, Runs, Conditions, Posture, Recovery, Annotations
  <2>2. Persist(new, "abortStatus")
    BY <1>13 DEF AbortClear
  <2>3. rec.pc # "idle" /\ Fits("abortStatus", rec.run.phase) /\ runSpec' = runSpec
    BY <1>13 DEF AbortClear, At, cluster, IInv, Copies, StepFits, Fits, ResumeSteps
  <2> HIDE DEF new
  <2>4. AttemptGeneration(new) = AttemptGeneration(rec.run)
    BY <2>1 DEF AttemptGeneration
  <2>5. QED
    BY <1>g, <2>1, <2>2, <2>3, <2>4, Persisted DEF Steps
<1>14. ASSUME AbortStatus PROVE Kept
  <2> DEFINE new == [rec.run EXCEPT !.phase = "Running", !.reason = "PauseAborted",
                                    !.conds = @ \ {"PauseCheckpointReady"}]
  <2>1. /\ new \in Runs /\ new.attempt = rec.run.attempt /\ new.restarts = rec.run.restarts
    BY DEF IInv, ObjectTypes, Runs, Phases, Reasons
  <2>2. Persist(new, "idle")
    BY <1>14 DEF AbortStatus
  <2>3. rec.pc # "idle" /\ rec.run.phase \notin Terminal /\ runSpec' = runSpec
    BY <1>14 DEF AbortStatus, At, cluster, IInv, Copies, StepFits, Fits, ResumeSteps
  <2> HIDE DEF new
  <2>4. AttemptGeneration(new) = AttemptGeneration(rec.run)
    BY <2>1 DEF AttemptGeneration
  <2>5. QED
    BY <1>g, <2>1, <2>2, <2>3, <2>4, Persisted DEF Steps
<1>15. ASSUME RemoveCheckpointedPod PROVE Kept
  <2> DEFINE new == [rec.run EXCEPT !.annots = @ \ {"pause"}]
  <2>1. /\ new \in Runs /\ new.attempt = rec.run.attempt /\ new.restarts = rec.run.restarts
        /\ new.phase = rec.run.phase
    BY DEF IInv, ObjectTypes, Runs
  <2>2. rec.pc # "idle" /\ Fits("pausedStatus", rec.run.phase) /\ runSpec' = runSpec
    BY <1>15 DEF RemoveCheckpointedPod, At, IInv, Copies, StepFits, Fits, ResumeSteps
  <2>3. CASE SeenPod.phase # "Absent"
    BY <1>15, <2>2, <2>3, Returned DEF RemoveCheckpointedPod, Return
  <2>4. CASE SeenPod.phase = "Absent"
    <3>1. Persist(new, "pausedStatus")
      BY <1>15, <2>4 DEF RemoveCheckpointedPod
    <3> HIDE DEF new
    <3>2. AttemptGeneration(new) = AttemptGeneration(rec.run)
      BY <2>1 DEF AttemptGeneration
    <3>3. QED
      BY <1>g, <2>1, <2>2, <3>1, <3>2, Persisted DEF Steps
  <2>5. QED
    BY <2>3, <2>4
<1>16. ASSUME PausedStatus PROVE Kept
  <2>1. rec.pc # "idle" /\ rec.pc \notin ResumeSteps /\ SetPhase("Paused", "Paused")
    BY <1>16 DEF PausedStatus, At, ResumeSteps
  <2>2. QED
    BY <1>16, <2>1, PhaseWritten DEF PausedStatus, cluster, Phases, Terminal, Reasons
<1>17. QED
  BY <1>1, <1>2, <1>3, <1>4, <1>5, <1>6, <1>7, <1>8, <1>9, <1>10, <1>11, <1>12, <1>13,
     <1>14, <1>15, <1>16

\* A charged retry moves an active run to its next attempt (handleMissingPod,
\* handlePodFailure).
LEMMA InterruptedType ==
  ASSUME NEW r \in Runs, AttemptGeneration(r) < MaxGen
  PROVE  /\ Interrupted(r) \in Runs
         /\ AttemptGeneration(Interrupted(r)) = AttemptGeneration(r) + 1
<1> DEFINE c == Charged(r)
<1>1. c \in Runs /\ AttemptGeneration(c) = AttemptGeneration(r) + 1
  BY ChargedType
<1>2. Interrupted(r) = [c EXCEPT !.phase = "Interrupted", !.conds = c.conds \cup {"Resuming"}]
  BY DEF Interrupted
<1> HIDE DEF c
<1>3. /\ Interrupted(r) \in Runs /\ Interrupted(r).attempt = c.attempt
      /\ Interrupted(r).restarts = c.restarts
  BY <1>1, <1>2 DEF Runs, Phases, Conditions, Recovery
<1>4. QED
  BY <1>1, <1>3 DEF AttemptGeneration

\* A disk loss moves the run to its next attempt unless one is already on its
\* way (ensurePVC).
LEMMA RestoringType ==
  ASSUME NEW r \in Runs, AttemptGeneration(r) < MaxGen
  PROVE  /\ Restoring(r) \in Runs
         /\ AttemptGeneration(Restoring(r)) >= AttemptGeneration(r)
<1> DEFINE c == IF "Resuming" \in r.conds THEN [r EXCEPT !.podName = None] ELSE Charged(r)
<1>g. AttemptGeneration(r) \in Nat
  BY GenType, OperatorConstants DEF Gens
<1>1. c \in Runs /\ AttemptGeneration(c) >= AttemptGeneration(r)
  <2>1. CASE "Resuming" \in r.conds
    <3>1. c \in Runs /\ c.attempt = r.attempt /\ c.restarts = r.restarts
      BY <2>1 DEF Runs
    <3>2. QED
      BY <1>g, <3>1 DEF AttemptGeneration
  <2>2. CASE "Resuming" \notin r.conds
    BY <1>g, <2>2, ChargedType
  <2>3. QED
    BY <2>1, <2>2
<1>2. Restoring(r) = [c EXCEPT !.phase = "Interrupted",
                               !.conds = c.conds \cup {"WorkspaceRestorePending"}]
  BY DEF Restoring
<1> HIDE DEF c
<1>3. /\ Restoring(r) \in Runs /\ Restoring(r).attempt = c.attempt
      /\ Restoring(r).restarts = c.restarts
  BY <1>1, <1>2 DEF Runs, Phases, Conditions, Recovery
<1>4. QED
  BY <1>1, <1>3 DEF AttemptGeneration

\* The steps of ensurePrerequisites.
LEMMA PrerequisiteSteps ==
  ASSUME IInv,
         RecordPosture \/ CreateWorkspacePVC \/ BeginRestore \/ RestoreStatus
           \/ WorkspaceLost \/ LostStatus \/ EnsureRunSpec
  PROVE  Kept
<1>g. CurrentGen \in Nat /\ CurrentGen \in Gens /\ CurrentGen = AttemptGeneration(rec.run)
  BY GenType, OperatorConstants DEF IInv, ObjectTypes, Gens, CurrentGen
<1>1. ASSUME RecordPosture PROVE Kept
  <2>1. PICK c \in Posture : Persist([rec.run EXCEPT !.conds = @ \cup {c}], "prerequisites")
    BY <1>1 DEF RecordPosture, Posture
  <2> DEFINE new == [rec.run EXCEPT !.conds = @ \cup {c}]
  <2>2. /\ new \in Runs /\ new.attempt = rec.run.attempt /\ new.restarts = rec.run.restarts
        /\ new.phase = rec.run.phase
    BY DEF IInv, ObjectTypes, Runs, Conditions
  <2>3. rec.pc # "idle" /\ Fits("prerequisites", rec.run.phase) /\ runSpec' = runSpec
    BY <1>1 DEF RecordPosture, At, cluster, IInv, Copies, StepFits, Fits, ResumeSteps
  <2>4. Persist(new, "prerequisites")
    BY <2>1
  <2> HIDE DEF new
  <2>5. AttemptGeneration(new) = AttemptGeneration(rec.run)
    BY <2>2 DEF AttemptGeneration
  <2>6. QED
    BY <1>g, <2>2, <2>3, <2>4, <2>5, Persisted DEF Steps
<1>2. ASSUME CreateWorkspacePVC PROVE Kept
  <2>1. rec.pc # "idle" /\ Fits("runSpec", rec.run.phase)
    BY <1>2 DEF CreateWorkspacePVC, MissingPVC, At, IInv, Copies, StepFits, Fits, ResumeSteps
  <2>2. run' = run /\ cache' = cache /\ runSpec' = runSpec
    BY <1>2 DEF CreateWorkspacePVC
  <2>3. CASE rec' = Idle
    BY <2>2, <2>3, Returned
  <2>4. CASE rec' = [rec EXCEPT !.pc = "runSpec"]
    <3>1. rec' \in Recs /\ rec'.pc = "runSpec" /\ rec'.run = rec.run /\ rec'.fresh = rec.fresh
      BY <2>4 DEF Recs, IInv, ObjectTypes, Steps
    <3>2. QED
      BY <2>1, <2>2, <3>1, Continued DEF Steps
  <2>5. QED
    BY <1>2, <2>3, <2>4 DEF CreateWorkspacePVC, Return, Continue
<1>3. ASSUME BeginRestore PROVE Kept
  <2>1. rec' \in Recs /\ rec'.pc = "restoreStatus" /\ rec'.run = rec.run /\ rec'.fresh = rec.fresh
    BY <1>3 DEF BeginRestore, Continue, Recs, IInv, ObjectTypes, Steps
  <2>2. rec.pc # "idle" /\ Fits("restoreStatus", rec.run.phase)
    BY <1>3 DEF BeginRestore, At, MissingPVC, IInv, Copies, StepFits, Fits, ResumeSteps
  <2>3. QED
    BY <1>3, <2>1, <2>2, Continued DEF BeginRestore, Steps, cluster
<1>4. ASSUME RestoreStatus PROVE Kept
  <2>1. /\ Persist(Restoring(rec.run), "idle") /\ runSpec' = runSpec
        /\ rec.pc # "idle" /\ rec.pc \notin ResumeSteps /\ CurrentGen < MaxGen
    BY <1>4 DEF RestoreStatus, At, cluster, ResumeSteps
  <2>2. rec.run.phase \notin Terminal /\ rec.run \in Runs
    BY <2>1 DEF IInv, ObjectTypes, Copies, StepFits, Fits
  <2>3. QED
    BY <1>g, <2>1, <2>2, RestoringType, Persisted DEF Steps
<1>5. ASSUME WorkspaceLost PROVE Kept
  <2>1. rec' \in Recs /\ rec'.pc = "lostStatus" /\ rec'.run = rec.run /\ rec'.fresh = rec.fresh
    BY <1>5 DEF WorkspaceLost, Continue, Recs, IInv, ObjectTypes, Steps
  <2>2. rec.pc # "idle" /\ Fits("lostStatus", rec.run.phase)
    BY <1>5 DEF WorkspaceLost, At, MissingPVC, IInv, Copies, StepFits, Fits, ResumeSteps
  <2>3. QED
    BY <1>5, <2>1, <2>2, Continued DEF WorkspaceLost, Steps, cluster
<1>6. ASSUME LostStatus PROVE Kept
  <2>1. rec.pc # "idle" /\ rec.pc \notin ResumeSteps /\ SetPhase("Failed", "WorkspaceLost")
    BY <1>6 DEF LostStatus, At, ResumeSteps
  <2>2. QED
    BY <1>6, <2>1, PhaseWritten DEF LostStatus, cluster, Phases, Terminal, Reasons
<1>7. ASSUME EnsureRunSpec PROVE Kept
  <2>1. /\ run' = run /\ cache' = cache /\ rec' = [rec EXCEPT !.pc = "ensurePod"]
        /\ runSpec' = BuildRunSpec(rec.run)
    BY <1>7 DEF EnsureRunSpec, Continue
  <2>2. rec' \in Recs /\ rec'.pc = "ensurePod" /\ rec'.run = rec.run /\ rec'.fresh = rec.fresh
    BY <2>1 DEF Recs, IInv, ObjectTypes, Steps
  <2>3. rec.pc # "idle" /\ Fits("ensurePod", rec.run.phase)
    BY <1>7 DEF EnsureRunSpec, At, IInv, Copies, StepFits, Fits, ResumeSteps
  <2>4. ObjectTypes'
    BY <2>1, <2>2 DEF IInv, ObjectTypes, Recs
  <2>5. FreshCopies' /\ OldCopies' /\ StepFits'
    BY <2>1, <2>2, <2>3 DEF IInv, Copies, FreshCopies, OldCopies, StepFits
  <2>6. runSpec'.mode = "resume" => AttemptGeneration(rec.run) > 0
    BY <2>1 DEF BuildRunSpec
  <2>7. AttemptGeneration(run) \in Nat /\ AttemptGeneration(cache.run) \in Nat
    BY GenType, OperatorConstants DEF IInv, ObjectTypes, Gens
  <2>8. AttemptGeneration(SeenRun') >= AttemptGeneration(rec.run)
    BY <1>g, <2>1, <2>7 DEF SeenRun, IInv, Copies, OldCopies
  <2>9. SeenRun' = IF StaleReads THEN cache.run ELSE run
    BY <2>1 DEF SeenRun
  <2>10. ResumeIsKnown'
    BY <1>g, <2>1, <2>2, <2>6, <2>7, <2>8, <2>9 DEF ResumeIsKnown
  <2>11. Advances /\ Finished
    BY <2>1, <2>7 DEF Advances, Finished
  <2>12. QED
    BY <2>4, <2>5, <2>10, <2>11 DEF Copies, Kept
<1>8. QED
  BY <1>1, <1>2, <1>3, <1>4, <1>5, <1>6, <1>7

\* The steps of ensurePod and reconcilePodState.
LEMMA PodReconcileSteps ==
  ASSUME IInv,
         CreatePod \/ PodAdmissionForbidden \/ RecordPod \/ HandleMissingPod
           \/ ObserveNothing \/ ObservePending \/ ClearRecoveryConditions
           \/ ObserveRunning \/ ObserveSucceeded \/ FailTerminally
           \/ RetryFailedPod \/ FailStatus
  PROVE  Kept
<1>g. CurrentGen \in Nat /\ CurrentGen \in Gens /\ CurrentGen = AttemptGeneration(rec.run)
  BY GenType, OperatorConstants DEF IInv, ObjectTypes, Gens, CurrentGen
<1>1. ASSUME CreatePod PROVE Kept
  <2>1. rec.pc # "idle" /\ Fits("recordPod", rec.run.phase)
    BY <1>1 DEF CreatePod, PodMissing, At, IInv, Copies, StepFits, Fits, ResumeSteps
  <2>2. run' = run /\ cache' = cache /\ runSpec' = runSpec
    BY <1>1 DEF CreatePod
  <2>3. CASE rec' = Idle
    BY <2>2, <2>3, Returned
  <2>4. CASE rec' = [rec EXCEPT !.pc = "recordPod"]
    <3>1. rec' \in Recs /\ rec'.pc = "recordPod" /\ rec'.run = rec.run /\ rec'.fresh = rec.fresh
      BY <2>4 DEF Recs, IInv, ObjectTypes, Steps
    <3>2. QED
      BY <2>1, <2>2, <3>1, Continued DEF Steps
  <2>5. QED
    BY <1>1, <2>3, <2>4 DEF CreatePod, Return, Continue
<1>2. ASSUME PodAdmissionForbidden PROVE Kept
  <2>1. rec.pc # "idle" /\ rec.pc \notin ResumeSteps /\ SetPhase("Failed", "PodAdmissionForbidden")
    BY <1>2 DEF PodAdmissionForbidden, At, PodMissing, ResumeSteps
  <2>2. QED
    BY <1>2, <2>1, PhaseWritten DEF PodAdmissionForbidden, cluster, Phases, Terminal, Reasons
<1>3. ASSUME RecordPod PROVE Kept
  <2> DEFINE new == [rec.run EXCEPT !.podName = CurrentGen]
  <2>1. /\ new \in Runs /\ new.attempt = rec.run.attempt /\ new.restarts = rec.run.restarts
        /\ new.phase = rec.run.phase
    BY <1>g DEF IInv, ObjectTypes, Runs, Conditions, Posture, Recovery
  <2>2. Persist(new, "idle")
    BY <1>3 DEF RecordPod
  <2>3. rec.pc # "idle" /\ Fits("idle", rec.run.phase) /\ runSpec' = runSpec
    BY <1>3 DEF RecordPod, At, cluster, IInv, Copies, StepFits, Fits, ResumeSteps
  <2> HIDE DEF new
  <2>4. AttemptGeneration(new) = AttemptGeneration(rec.run)
    BY <2>1 DEF AttemptGeneration
  <2>5. QED
    BY <1>g, <2>1, <2>2, <2>3, <2>4, Persisted DEF Steps
<1>4. ASSUME HandleMissingPod PROVE Kept
  <2>1. runSpec' = runSpec /\ rec.pc # "idle" /\ rec.pc \notin ResumeSteps
    BY <1>4 DEF HandleMissingPod, PodMissing, At, cluster, ResumeSteps
  <2>2. rec.run.phase \notin Terminal /\ rec.run \in Runs
    BY <2>1 DEF IInv, ObjectTypes, Copies, StepFits, Fits
  <2>3. CASE SetPhase("Failed", "RetryBudgetExhausted")
    BY <2>1, <2>3, PhaseWritten DEF Phases, Terminal, Reasons
  <2>4. CASE CurrentGen < MaxGen /\ Persist(Interrupted(rec.run), "idle")
    BY <1>g, <2>1, <2>2, <2>4, InterruptedType, Persisted DEF Steps
  <2>5. QED
    BY <1>4, <2>3, <2>4 DEF HandleMissingPod
<1>5. ASSUME ObserveNothing PROVE Kept
  BY <1>5, Returned DEF ObserveNothing, Return, cluster
<1>6. ASSUME ObservePending PROVE Kept
  <2>1. rec.pc # "idle" /\ rec.pc \notin ResumeSteps /\ SetPhase("Provisioning", "PodPending")
    BY <1>6 DEF ObservePending, At, PodFound, ResumeSteps
  <2>2. QED
    BY <1>6, <2>1, PhaseWritten DEF ObservePending, cluster, Phases, Terminal, Reasons
<1>7. ASSUME ClearRecoveryConditions PROVE Kept
  <2> DEFINE new == [rec.run EXCEPT !.conds = @ \ Recovery]
  <2>1. /\ new \in Runs /\ new.attempt = rec.run.attempt /\ new.restarts = rec.run.restarts
        /\ new.phase = rec.run.phase
    BY <1>g DEF IInv, ObjectTypes, Runs, Conditions, Posture, Recovery
  <2>2. Persist(new, "podRunning")
    BY <1>7 DEF ClearRecoveryConditions, PodFound
  <2>3. rec.pc # "idle" /\ Fits("podRunning", rec.run.phase) /\ runSpec' = runSpec
    BY <1>7 DEF ClearRecoveryConditions, At, PodFound, cluster, IInv, Copies, StepFits, Fits, ResumeSteps
  <2> HIDE DEF new
  <2>4. AttemptGeneration(new) = AttemptGeneration(rec.run)
    BY <2>1 DEF AttemptGeneration
  <2>5. QED
    BY <1>g, <2>1, <2>2, <2>3, <2>4, Persisted DEF Steps
<1>8. ASSUME ObserveRunning PROVE Kept
  <2>1. runSpec' = runSpec /\ rec.pc # "idle" /\ rec.pc \notin ResumeSteps
    BY <1>8 DEF ObserveRunning, PodFound, At, cluster, ResumeSteps
  <2>2. rec.run.phase \notin Terminal /\ rec.run \in Runs
    BY <2>1 DEF IInv, ObjectTypes, Copies, StepFits, Fits
  <2>3. Scraped \subseteq Versions \cup {None}
    BY <1>g, <2>2 DEF Scraped, IInv, WorldTypes, Pods, Runs
  <2>4. PICK ck \in Scraped, why \in Reasons :
          LET seen == [rec.run EXCEPT !.lastCk = ck, !.phase = "Running", !.reason = why]
          IN \/ rec' = Idle /\ run' = run /\ cache' = cache
             \/ Persist(seen, "idle")
    <3>1. rec.run.reason \in Reasons /\ "PodRunning" \in Reasons
      BY <2>2 DEF Runs, Reasons
    <3>2. QED
      BY <1>8, <3>1 DEF ObserveRunning, Return
  <2> DEFINE new == [rec.run EXCEPT !.lastCk = ck, !.phase = "Running", !.reason = why]
  <2>5. /\ new \in Runs /\ new.attempt = rec.run.attempt /\ new.restarts = rec.run.restarts
    <3>1. ck \in Versions \cup {None} /\ "Running" \in Phases
      BY <2>3 DEF Phases
    <3>2. QED
      BY <2>2, <3>1 DEF Runs
  <2>6. (rec' = Idle /\ run' = run /\ cache' = cache) \/ Persist(new, "idle")
    BY <2>4
  <2> HIDE DEF new
  <2>7. AttemptGeneration(new) = AttemptGeneration(rec.run)
    BY <2>5 DEF AttemptGeneration
  <2>8. CASE rec' = Idle /\ run' = run /\ cache' = cache
    BY <2>1, <2>8, Returned
  <2>9. CASE Persist(new, "idle")
    BY <1>g, <2>1, <2>2, <2>5, <2>7, <2>9, Persisted DEF Steps
  <2>10. QED
    BY <2>6, <2>8, <2>9
<1>9. ASSUME ObserveSucceeded PROVE Kept
  <2>1. rec.pc # "idle" /\ rec.pc \notin ResumeSteps /\ SetPhase("Succeeded", "HarnessCompleted")
    BY <1>9 DEF ObserveSucceeded, At, PodFound, ResumeSteps
  <2>2. QED
    BY <1>9, <2>1, PhaseWritten DEF ObserveSucceeded, cluster, Phases, Terminal, Reasons
<1>10. ASSUME FailTerminally PROVE Kept
  <2>1. runSpec' = runSpec /\ rec.pc # "idle" /\ rec.pc \notin ResumeSteps
    BY <1>10 DEF FailTerminally, PodFound, At, cluster, ResumeSteps
  <2>2. \E reason \in {"HarnessError", "RetryBudgetExhausted"} : SetPhase("Failed", reason)
    BY <1>10 DEF FailTerminally
  <2>3. QED
    BY <2>1, <2>2, PhaseWritten DEF Phases, Terminal, Reasons
<1>11. ASSUME RetryFailedPod PROVE Kept
  <2>1. rec' \in Recs /\ rec'.pc = "failStatus" /\ rec'.run = rec.run /\ rec'.fresh = rec.fresh
    BY <1>11 DEF RetryFailedPod, Continue, Recs, IInv, ObjectTypes, Steps
  <2>2. rec.pc # "idle" /\ Fits("failStatus", rec.run.phase)
    BY <1>11 DEF RetryFailedPod, At, PodFound, IInv, Copies, StepFits, Fits, ResumeSteps
  <2>3. QED
    BY <1>11, <2>1, <2>2, Continued DEF RetryFailedPod, Steps, cluster
<1>12. ASSUME FailStatus PROVE Kept
  <2>1. /\ Persist(Interrupted(rec.run), "idle") /\ runSpec' = runSpec
        /\ rec.pc # "idle" /\ rec.pc \notin ResumeSteps /\ CurrentGen < MaxGen
    BY <1>12 DEF FailStatus, At, cluster, ResumeSteps
  <2>2. rec.run.phase \notin Terminal /\ rec.run \in Runs
    BY <2>1 DEF IInv, ObjectTypes, Copies, StepFits, Fits
  <2>3. QED
    BY <1>g, <2>1, <2>2, InterruptedType, Persisted DEF Steps
<1>13. QED
  BY <1>1, <1>2, <1>3, <1>4, <1>5, <1>6, <1>7, <1>8, <1>9, <1>10, <1>11, <1>12

\* Users, informers, a crash, pods and losses.
LEMMA EnvironmentSteps ==
  ASSUME IInv,
         \/ \E g \in Gens : PodStep(g)
         \/ LoseNode \/ DoomedPVCGone \/ LosePVC \/ SyncRun \/ SyncPods \/ SyncPVC \/ Crash
         \/ \E a \in Annotations : Ask(a) \/ RequestAnnotation(a)
         \/ UNCHANGED vars
  PROVE  Kept
<1>g. /\ AttemptGeneration(run) \in Nat /\ AttemptGeneration(rec.run) \in Nat
      /\ AttemptGeneration(cache.run) \in Nat
  BY GenType, OperatorConstants DEF IInv, ObjectTypes, Gens
<1>1. ASSUME NEW g \in Gens, PodStep(g) PROVE Kept
  BY <1>1, Untouched DEF PodStep, Hydrate, Work, TakeCheckpoint, Exit, ExitRetryable, PodGone,
     LosePod
<1>2. ASSUME LoseNode \/ DoomedPVCGone \/ LosePVC PROVE Kept
  BY <1>2, Untouched DEF LoseNode, DoomedPVCGone, LosePVC
<1>3. ASSUME SyncPods \/ SyncPVC PROVE Kept
  <2>1. run' = run /\ rec' = rec /\ runSpec' = runSpec
    BY <1>3 DEF SyncPods, SyncPVC, cluster
  <2>2. cache'.run = cache.run /\ cache'.fresh = cache.fresh
    BY <1>3 DEF SyncPods, SyncPVC, IInv, ObjectTypes
  <2>3. ObjectTypes'
    BY <1>3, <2>1 DEF SyncPods, SyncPVC, IInv, ObjectTypes, WorldTypes
  <2>4. FreshCopies' /\ OldCopies'
    BY <2>1, <2>2 DEF IInv, Copies, FreshCopies, OldCopies
  <2>5. StepFits' /\ ResumeIsKnown'
    BY <2>1, <2>2 DEF IInv, Copies, StepFits, ResumeIsKnown, SeenRun
  <2>6. Advances /\ Finished
    BY <1>g, <2>1 DEF Advances, Finished
  <2>7. QED
    BY <2>3, <2>4, <2>5, <2>6 DEF Copies, Kept
<1>4. ASSUME SyncRun PROVE Kept
  <2>1. run' = run /\ rec' = rec /\ runSpec' = runSpec
    BY <1>4 DEF SyncRun, cluster
  <2>2. cache'.run = run /\ StaleReads
    BY <1>4 DEF SyncRun, IInv, ObjectTypes
  <2>3. ObjectTypes'
    BY <1>4, <2>1 DEF SyncRun, IInv, ObjectTypes
  <2>4. FreshCopies' /\ OldCopies'
    BY <1>g, <2>1, <2>2 DEF IInv, Copies, FreshCopies, OldCopies
  <2>5. StepFits' /\ ResumeIsKnown'
    BY <1>g, <2>1, <2>2 DEF IInv, Copies, OldCopies, StepFits, ResumeIsKnown, SeenRun
  <2>6. Advances /\ Finished
    BY <1>g, <2>1 DEF Advances, Finished
  <2>7. QED
    BY <2>3, <2>4, <2>5, <2>6 DEF Copies, Kept
<1>5. ASSUME Crash PROVE Kept
  BY <1>5, Returned DEF Crash, Return, cluster
<1>6. ASSUME NEW a \in Annotations, Ask(a) PROVE Kept
  BY <1>6, Untouched DEF Ask, cluster
<1>7. ASSUME NEW a \in Annotations, RequestAnnotation(a) PROVE Kept
  <2> DEFINE new == [run EXCEPT !.annots = @ \cup {a}]
  <2>1. /\ new \in Runs /\ new.attempt = run.attempt /\ new.restarts = run.restarts
        /\ new.phase = run.phase
    BY DEF IInv, ObjectTypes, Runs
  <2>2. /\ run' = new /\ runSpec' = runSpec
        /\ rec' = [rec EXCEPT !.fresh = @ /\ new = run]
        /\ cache' = [cache EXCEPT !.fresh = @ /\ new = run]
    BY <1>7 DEF RequestAnnotation, Supersede, cluster
  <2> HIDE DEF new
  <2>3. AttemptGeneration(new) = AttemptGeneration(run)
    BY <2>1 DEF AttemptGeneration
  <2>4. ObjectTypes'
    BY <2>1, <2>2 DEF IInv, ObjectTypes
  <2>5. /\ rec'.pc = rec.pc /\ rec'.run = rec.run /\ cache'.run = cache.run
        /\ rec'.fresh => rec.fresh /\ new = run
        /\ cache'.fresh => cache.fresh /\ new = run
    BY <2>2 DEF IInv, ObjectTypes
  <2>6. FreshCopies'
    BY <2>2, <2>5 DEF IInv, Copies, FreshCopies
  <2>7. OldCopies'
    BY <2>2, <2>3, <2>5 DEF IInv, Copies, OldCopies
  <2>8. StepFits'
    BY <2>5 DEF IInv, Copies, StepFits
  <2>9. ResumeIsKnown'
    BY <2>2, <2>3, <2>5 DEF IInv, Copies, ResumeIsKnown, SeenRun
  <2>10. Advances
    BY <1>g, <2>2, <2>3 DEF Advances
  <2>11. Finished
    BY <2>1, <2>2 DEF Finished
  <2>12. QED
    BY <2>4, <2>6, <2>7, <2>8, <2>9, <2>10, <2>11 DEF Copies, Kept
<1>8. ASSUME UNCHANGED vars PROVE Kept
  BY <1>8, Untouched DEF vars
<1>9. QED
  BY <1>1, <1>2, <1>3, <1>4, <1>5, <1>6, <1>7, <1>8

\* Every step keeps the run and its copies in order.
LEMMA ObjectStep == IInv /\ [Next]_vars => Kept
BY TransitionSteps, PrerequisiteSteps, PodReconcileSteps, EnvironmentSteps DEF Next, Operator

-----------------------------------------------------------------------------
(* What the steps do to pods and workspace.                                *)

\* One pod is replaced by another version of itself, or removed.
LEMMA PodChanged ==
  ASSUME IInv, NEW g \in Gens, NEW p \in Pods, pods' = [pods EXCEPT ![g] = p],
         p.phase # "Absent" => pods[g].phase # "Absent" \/ g <= AttemptGeneration(run)
  PROVE  PodsKept
BY DEF PodsKept, IInv, WorldTypes

\* A step that does nothing to pods.
LEMMA PodsUntouched == ASSUME IInv, pods' = pods PROVE PodsKept
BY DEF PodsKept, IInv, WorldTypes

\* Deleting a pod gracefully (deleteCurrentPod, handlePodFailure).
LEMMA PodTerminated == ASSUME IInv, NEW g \in Gens, Terminate(g) PROVE PodsKept
<1>1. CASE pods[g].phase = "Absent"
  BY <1>1, PodsUntouched DEF Terminate
<1>2. CASE pods[g].phase # "Absent"
  <2>1. [pods[g] EXCEPT !.del = TRUE] \in Pods
    BY DEF IInv, WorldTypes, Pods
  <2>2. pods' = [pods EXCEPT ![g] = [pods[g] EXCEPT !.del = TRUE]]
    BY <1>2 DEF Terminate
  <2>3. QED
    BY <1>2, <2>1, <2>2, PodChanged
<1>3. QED
  BY <1>1, <1>2

\* No step creates a pod for an attempt still to come.
LEMMA PodsStep == IInv /\ [Next]_vars => PodsKept
<1> SUFFICES ASSUME IInv, [Next]_vars PROVE PodsKept
  OBVIOUS
<1>g. CurrentGen \in Gens /\ CurrentGen <= AttemptGeneration(run)
  BY GenType DEF IInv, ObjectTypes, Copies, OldCopies, CurrentGen
<1>p. NoPod \in Pods /\ NoPod.phase = "Absent" /\ FreshPod \in Pods
  BY DEF NoPod, FreshPod, Pods, PodPhases, None
<1>t. pods \in [Gens -> Pods]
  BY DEF IInv, WorldTypes
<1>1. ASSUME pods' = pods PROVE PodsKept
  BY <1>1, PodsUntouched
<1>2. ASSUME DeleteCurrentPod PROVE PodsKept
  BY <1>2, <1>g, PodsUntouched, PodTerminated DEF DeleteCurrentPod
<1>3. ASSUME Quiesce \/ Unquiesce PROVE PodsKept
  <2>1. \/ pods' = pods
        \/ \E stop \in BOOLEAN : pods' = [pods EXCEPT ![CurrentGen].stopped = stop]
    BY <1>3 DEF Quiesce, Unquiesce, SignalHarness
  <2>2. ASSUME NEW stop \in BOOLEAN, pods' = [pods EXCEPT ![CurrentGen].stopped = stop]
        PROVE  PodsKept
    <3>1. [pods[CurrentGen] EXCEPT !.stopped = stop] \in Pods
      BY <1>g, <1>t DEF Pods
    <3>2. QED
      BY <1>g, <2>2, <3>1, PodChanged
  <2>3. QED
    BY <1>1, <2>1, <2>2
<1>4. ASSUME RemoveCheckpointedPod PROVE PodsKept
  BY <1>1, <1>4, <1>g, <1>p, PodChanged DEF RemoveCheckpointedPod
<1>5. ASSUME CreatePod PROVE PodsKept
  BY <1>1, <1>5, <1>g, <1>p, PodChanged DEF CreatePod
<1>6. ASSUME RetryFailedPod PROVE PodsKept
  BY <1>6, <1>g, PodTerminated DEF RetryFailedPod
<1>7. ASSUME NEW g \in Gens, NEW phase \in PodPhases, SetPodPhase(g, phase),
             pods[g].phase # "Absent"
      PROVE  PodsKept
  <2>1. [pods[g] EXCEPT !.phase = phase] \in Pods
    BY <1>t DEF Pods
  <2>2. pods' = [pods EXCEPT ![g] = [pods[g] EXCEPT !.phase = phase]]
    BY <1>7 DEF SetPodPhase
  <2>3. QED
    BY <1>7, <2>1, <2>2, PodChanged
<1>8. ASSUME NEW g \in Gens, Hydrate(g) PROVE PodsKept
  <2>1. \E phase \in PodPhases : SetPodPhase(g, phase)
    BY <1>8 DEF Hydrate, PodPhases
  <2>2. QED
    BY <1>7, <1>8, <2>1 DEF Hydrate
<1>9. ASSUME NEW g \in Gens, Work(g) PROVE PodsKept
  BY <1>1, <1>9 DEF Work
<1>10. ASSUME NEW g \in Gens, TakeCheckpoint(g) PROVE PodsKept
  <2>1. [pods[g] EXCEPT !.ck = disk] \in Pods
    BY <1>t DEF Pods, IInv, WorldTypes
  <2>2. pods' = [pods EXCEPT ![g] = [pods[g] EXCEPT !.ck = disk]]
    BY <1>10 DEF TakeCheckpoint
  <2>3. QED
    BY <1>10, <2>1, <2>2, PodChanged DEF TakeCheckpoint, Live
<1>11. ASSUME NEW g \in Gens, Exit(g) \/ ExitRetryable(g) PROVE PodsKept
  <2>1. \E phase \in PodPhases : SetPodPhase(g, phase)
    BY <1>11 DEF Exit, ExitRetryable, PodPhases
  <2>2. QED
    BY <1>7, <1>11, <2>1 DEF Exit, ExitRetryable, Live
<1>12. ASSUME NEW g \in Gens, PodGone(g) PROVE PodsKept
  BY <1>12, <1>p, PodChanged DEF PodGone
<1>13. ASSUME NEW g \in Gens, LosePod(g) PROVE PodsKept
  <2>1. [pods[g] EXCEPT !.del = TRUE] \in Pods
    BY <1>t DEF Pods
  <2>2. \/ pods' = [pods EXCEPT ![g] = [pods[g] EXCEPT !.del = TRUE]]
        \/ pods' = [pods EXCEPT ![g] = NoPod]
    BY <1>13 DEF LosePod
  <2>3. pods[g].phase # "Absent"
    BY <1>13 DEF LosePod
  <2>4. QED
    BY <1>p, <2>1, <2>2, <2>3, PodChanged
<1>14. ASSUME LoseNode PROVE PodsKept
  BY <1>14, <1>p DEF LoseNode, PodsKept
<1>15. CASE Operator
  <2>1. \/ pods' = pods \/ DeleteCurrentPod \/ Quiesce \/ Unquiesce
        \/ RemoveCheckpointedPod \/ CreatePod \/ RetryFailedPod
    BY <1>15 DEF Operator, Reconcile, Admit, Cancel, CancelStatus, Resume, ResumeClear,
       ResumeStatus, EnterPausing, PausePodLost, Snapshot, CommitProof, AbortClear, AbortStatus,
       PausedStatus, RecordPosture, CreateWorkspacePVC, BeginRestore, RestoreStatus,
       WorkspaceLost, LostStatus, EnsureRunSpec, PodAdmissionForbidden, RecordPod,
       HandleMissingPod, ObserveNothing, ObservePending, ClearRecoveryConditions,
       ObserveRunning, ObserveSucceeded, FailTerminally, FailStatus, cluster
  <2>2. QED
    BY <1>1, <1>2, <1>3, <1>4, <1>5, <1>6, <2>1
<1>16. CASE \E g \in Gens : PodStep(g)
  BY <1>16, <1>8, <1>9, <1>10, <1>11, <1>12, <1>13 DEF PodStep
<1>17. CASE \/ DoomedPVCGone \/ LosePVC \/ SyncRun \/ SyncPods \/ SyncPVC \/ Crash
            \/ \E a \in Annotations : Ask(a) \/ RequestAnnotation(a)
            \/ UNCHANGED vars
  BY <1>1, <1>17 DEF DoomedPVCGone, LosePVC, SyncRun, SyncPods, SyncPVC, Crash, Ask,
     RequestAnnotation, cluster, vars
<1>18. QED
  BY <1>14, <1>15, <1>16, <1>17 DEF Next

\* An event counts once more.
LEMMA Spent ==
  ASSUME WorldTypes, NEW e \in Events, spent' = spent \/ Spend(e)
  PROVE  spent' \in [Events -> Nat]
BY DEF WorldTypes, Spend

\* The empty disk is a version.
LEMMA ZeroVersion == 0 \in Versions
BY OperatorConstants DEF Versions

\* The RunSpec is well formed (buildRunSpec).
LEMMA RunSpecType == \A r \in Runs : BuildRunSpec(r) \in RunSpecs
BY DEF BuildRunSpec, RunSpecs, Runs, Versions, None

\* Every step keeps the types of workspace, RunSpec and requests.
LEMMA WorldStep == IInv /\ [Next]_vars => WorldTypes'
<1> SUFFICES ASSUME IInv, [Next]_vars PROVE WorldTypes'
  OBVIOUS
<1>t. WorldTypes /\ rec.run \in Runs
  BY DEF IInv, ObjectTypes
<1>p. pods' \in [Gens -> Pods]
  BY PodsStep DEF PodsKept
<1>1. ASSUME UNCHANGED <<workspace, runSpec, client>> PROVE WorldTypes'
  BY <1>1, <1>t, <1>p DEF WorldTypes, workspace, client
<1>2. ASSUME UNCHANGED <<workspace, runSpec, asked>>, NEW e \in Events,
             spent' = spent \/ Spend(e)
      PROVE  WorldTypes'
  BY <1>2, <1>t, <1>p, Spent DEF WorldTypes, workspace
<1>3. ASSUME Snapshot PROVE WorldTypes'
  <2>1. spent' = spent \/ Spend("exec")
    BY <1>3 DEF Snapshot
  <2>2. latest' \in {latest, disk}
    BY <1>3 DEF Snapshot
  <2>3. QED
    BY <1>3, <1>t, <1>p, <2>1, <2>2, Spent DEF Snapshot, WorldTypes, Events
<1>4. ASSUME CreateWorkspacePVC PROVE WorldTypes'
  <2>1. pvc' \in BOOLEAN /\ disk' \in Versions
    BY <1>4, <1>t, ZeroVersion DEF CreateWorkspacePVC, WorldTypes
  <2>2. QED
    BY <1>4, <1>t, <1>p, <2>1 DEF CreateWorkspacePVC, WorldTypes, client
<1>5. ASSUME EnsureRunSpec PROVE WorldTypes'
  <2>1. runSpec' \in RunSpecs
    BY <1>5, <1>t, RunSpecType DEF EnsureRunSpec
  <2>2. QED
    BY <1>5, <1>t, <1>p, <2>1 DEF EnsureRunSpec, WorldTypes, workspace, client
<1>6. ASSUME Quiesce \/ Unquiesce PROVE WorldTypes'
  <2>1. spent' = spent \/ Spend("exec")
    BY <1>6 DEF Quiesce, Unquiesce, SignalHarness
  <2>2. UNCHANGED <<workspace, runSpec, asked>> /\ "exec" \in Events
    BY <1>6 DEF Quiesce, Unquiesce, Events
  <2>3. QED
    BY <1>2, <2>1, <2>2
<1>7. ASSUME PodAdmissionForbidden \/ Crash PROVE WorldTypes'
  <2>1. \E e \in Events : Spend(e)
    BY <1>7 DEF PodAdmissionForbidden, Crash, Events
  <2>2. UNCHANGED <<workspace, runSpec, asked>>
    BY <1>7 DEF PodAdmissionForbidden, Crash, cluster
  <2>3. QED
    BY <1>2, <2>1, <2>2
<1>8. CASE Operator
  <2>1. \/ UNCHANGED <<workspace, runSpec, client>>
        \/ Snapshot \/ CreateWorkspacePVC \/ EnsureRunSpec \/ Quiesce \/ Unquiesce
        \/ PodAdmissionForbidden
    BY <1>8 DEF Operator, Reconcile, Admit, Cancel, CancelStatus, Resume, ResumeClear,
       ResumeStatus, EnterPausing, PausePodLost, CommitProof, AbortClear, AbortStatus,
       RemoveCheckpointedPod, PausedStatus, RecordPosture, BeginRestore, RestoreStatus,
       WorkspaceLost, LostStatus, CreatePod, RecordPod, HandleMissingPod, ObserveNothing,
       ObservePending, ClearRecoveryConditions, ObserveRunning, ObserveSucceeded,
       FailTerminally, RetryFailedPod, FailStatus, cluster
  <2>2. QED
    BY <1>1, <1>3, <1>4, <1>5, <1>6, <1>7, <2>1
<1>9. ASSUME NEW g \in Gens, Hydrate(g) PROVE WorldTypes'
  <2>1. Hydrated(runSpec) = None \/ Hydrated(runSpec) \in Versions
    BY <1>t, OperatorConstants DEF Hydrated, WorldTypes, RunSpecs, Versions
  <2>2. disk' \in Versions /\ work' \in Versions
    BY <1>9, <1>t, <2>1 DEF Hydrate, WorldTypes
  <2>3. QED
    BY <1>9, <1>t, <1>p, <2>2 DEF Hydrate, WorldTypes, client
<1>10. ASSUME NEW g \in Gens, Work(g) PROVE WorldTypes'
  <2>1. work + 1 \in Versions
    BY <1>10, <1>t, OperatorConstants DEF Work, WorldTypes, Versions
  <2>2. QED
    BY <1>10, <1>t, <1>p, <2>1 DEF Work, WorldTypes, client
<1>11. ASSUME NEW g \in Gens, TakeCheckpoint(g) PROVE WorldTypes'
  BY <1>11, <1>t, <1>p DEF TakeCheckpoint, WorldTypes, client
<1>12. ASSUME NEW g \in Gens, Exit(g) \/ PodGone(g) PROVE WorldTypes'
  BY <1>1, <1>12 DEF Exit, PodGone
<1>13. ASSUME NEW g \in Gens, ExitRetryable(g) \/ LosePod(g) PROVE WorldTypes'
  <2>1. \E e \in Events : Spend(e)
    BY <1>13 DEF ExitRetryable, LosePod, Events
  <2>2. UNCHANGED <<workspace, runSpec, asked>>
    BY <1>13 DEF ExitRetryable, LosePod
  <2>3. QED
    BY <1>2, <2>1, <2>2
<1>14. CASE \E g \in Gens : PodStep(g)
  BY <1>9, <1>10, <1>11, <1>12, <1>13, <1>14 DEF PodStep
<1>15. ASSUME LoseNode \/ LosePVC PROVE WorldTypes'
  <2>1. \E e \in Events : Spend(e)
    BY <1>15 DEF LoseNode, LosePVC, Events
  <2>2. spent' \in [Events -> Nat]
    BY <1>t, <2>1, Spent
  <2>3. QED
    BY <1>15, <1>t, <1>p, <2>2, ZeroVersion DEF LoseNode, LosePVC, RemovePVC, WorldTypes
<1>16. ASSUME DoomedPVCGone PROVE WorldTypes'
  BY <1>16, <1>t, <1>p, ZeroVersion DEF DoomedPVCGone, RemovePVC, WorldTypes, client
<1>17. ASSUME NEW a \in Annotations, Ask(a) PROVE WorldTypes'
  <2>1. a \in Events
    BY DEF Annotations, Events
  <2>2. spent' \in [Events -> Nat]
    BY <1>17, <1>t, <2>1, Spent DEF Ask
  <2>3. QED
    BY <1>17, <1>t, <1>p, <2>2 DEF Ask, WorldTypes, cluster, workspace
<1>18. ASSUME NEW a \in Annotations, RequestAnnotation(a) PROVE WorldTypes'
  BY <1>18, <1>t, <1>p DEF RequestAnnotation, WorldTypes, cluster, workspace
<1>19. CASE SyncRun \/ SyncPods \/ SyncPVC \/ UNCHANGED vars
  BY <1>1, <1>19 DEF SyncRun, SyncPods, SyncPVC, vars, cluster, workspace, client
<1>20. QED
  BY <1>7, <1>8, <1>14, <1>15, <1>16, <1>17, <1>18, <1>19 DEF Next

-----------------------------------------------------------------------------
(* The theorems.                                                           *)

\* The invariant holds of a run nobody has reconciled yet.
LEMMA InitEstablishes == Init => IInv
<1> SUFFICES ASSUME Init PROVE IInv
  OBVIOUS
<1>1. PICK b \in BOOLEAN : run = NewRun(b)
  BY OperatorConstants DEF Init
<1>2. run \in Runs /\ AttemptGeneration(run) = 0
  BY <1>1, NewRunType
<1>3. NoPod \in Pods /\ NoPod.phase = "Absent"
  BY DEF NoPod, Pods, PodPhases, None
<1>4. pods \in [Gens -> Pods] /\ \A g \in Gens : pods[g].phase = "Absent"
  BY <1>3 DEF Init
<1>5. /\ cache = [run |-> run, fresh |-> TRUE, pods |-> pods, pvc |-> FALSE]
      /\ rec = Idle
  BY DEF Init
<1>6. ObjectTypes
  BY <1>2, <1>4, <1>5, IdleType DEF ObjectTypes
<1>7. WorldTypes
  <2>1. runSpec \in RunSpecs
    BY DEF Init, RunSpecs
  <2>2. spent \in [Events -> Nat]
    BY DEF Init
  <2>3. QED
    BY <1>4, <2>1, <2>2, ZeroVersion DEF Init, WorldTypes
<1>8. runSpec.mode = "start"
  BY DEF Init
<1>9. FreshCopies /\ OldCopies
  BY <1>2, <1>5, IdleType DEF FreshCopies, OldCopies
<1>10. StepFits /\ ResumeIsKnown
  BY <1>5, <1>8, IdleType DEF StepFits, Fits, ResumeSteps, ResumeIsKnown
<1>11. NoFuturePods
  BY <1>4 DEF NoFuturePods
<1>12. QED
  BY <1>6, <1>7, <1>9, <1>10, <1>11 DEF IInv, Copies

\* The invariant is inductive.
LEMMA InvStep == IInv /\ [Next]_vars => IInv'
<1> SUFFICES ASSUME IInv, [Next]_vars PROVE IInv'
  OBVIOUS
<1>1. ObjectTypes' /\ Copies' /\ Advances
  BY ObjectStep DEF Kept
<1>2. AttemptGeneration(run) \in Nat /\ AttemptGeneration(run') \in Nat
  BY <1>1, GenType, OperatorConstants DEF IInv, ObjectTypes, Gens
<1>3. \A g \in Gens : pods'[g].phase # "Absent" => g <= AttemptGeneration(run)
  BY PodsStep DEF PodsKept, IInv, NoFuturePods
<1>4. NoFuturePods'
  BY <1>1, <1>2, <1>3, OperatorConstants DEF Advances, NoFuturePods, Gens
<1>5. QED
  BY <1>1, <1>4, WorldStep DEF IInv

\* IInv holds in every reachable state.
THEOREM Invariance == Spec => []IInv
BY InitEstablishes, InvStep, PTL DEF Spec

\* The object, the reconcile in flight, the caches, the pods and the workspace
\* keep their types: attempt and restart counters stay within MaxGen, and no
\* checkpoint or disk holds a version that was never produced.
THEOREM TypeCorrect == Spec => []TypeOK
<1>1. IInv => TypeOK
  BY DEF IInv, ObjectTypes, WorldTypes, TypeOK
<1>2. QED
  BY <1>1, Invariance, PTL

\* Attempts never go back, although resume resets the counter they used to be
\* derived from, and although passes work from outdated copies.
THEOREM AttemptsAdvance == Spec => AttemptsOnlyAdvance
<1>1. IInv /\ [Next]_vars => [AttemptGeneration(run') >= AttemptGeneration(run)]_vars
  BY ObjectStep DEF Kept, Advances
<1>2. QED
  BY <1>1, Invariance, PTL DEF Spec, AttemptsOnlyAdvance

\* A finished run stays finished; a failed one is left only for an attempt no
\* pod exists for, whatever copies the operator reconciles from.
THEOREM FinishedStaysFinished == Spec => TerminalIsFinal
<1> DEFINE Final ==
      /\ run.phase \in {"Succeeded", "Canceled"} => run'.phase = run.phase
      /\ run.phase = "Failed" /\ run'.phase # "Failed" =>
           /\ run'.phase = "Interrupted"
           /\ pods[AttemptGeneration(run')].phase = "Absent"
<1>1. IInv /\ [Next]_vars => [Final]_vars
  BY ObjectStep DEF Kept, Finished
<1>2. QED
  BY <1>1, Invariance, PTL DEF Spec, TerminalIsFinal

\* Once a pod was told to resume no later pod is told to start afresh, even by
\* a pass that works from an outdated copy.
THEOREM NoFreshStart == Spec => NoFreshStartAfterResume
<1>1. ASSUME IInv, EnsureRunSpec, runSpec.mode = "resume" PROVE runSpec'.mode = "resume"
  <2>1. rec.pc # "idle"
    BY <1>1 DEF EnsureRunSpec, At
  <2>2. AttemptGeneration(rec.run) > 0
    BY <1>1, <2>1 DEF IInv, Copies, ResumeIsKnown
  <2>3. QED
    BY <1>1, <2>2 DEF EnsureRunSpec, BuildRunSpec
<1>2. ASSUME [Next]_vars, ~EnsureRunSpec PROVE runSpec' = runSpec
  <2>1. CASE Operator
    BY <1>2, <2>1 DEF Operator, Reconcile, Admit, Cancel, CancelStatus, Resume, ResumeClear,
       ResumeStatus, EnterPausing, PausePodLost, Quiesce, Snapshot, CommitProof, Unquiesce,
       AbortClear, AbortStatus, RemoveCheckpointedPod, PausedStatus, RecordPosture,
       CreateWorkspacePVC, BeginRestore, RestoreStatus, WorkspaceLost, LostStatus, CreatePod,
       PodAdmissionForbidden, RecordPod, HandleMissingPod, ObserveNothing, ObservePending,
       ClearRecoveryConditions, ObserveRunning, ObserveSucceeded, FailTerminally,
       RetryFailedPod, FailStatus, cluster
  <2>2. CASE \E g \in Gens : PodStep(g)
    BY <2>2 DEF PodStep, Hydrate, Work, TakeCheckpoint, Exit, ExitRetryable, PodGone, LosePod
  <2>3. CASE \/ LoseNode \/ DoomedPVCGone \/ LosePVC \/ SyncRun \/ SyncPods \/ SyncPVC \/ Crash
             \/ \E a \in Annotations : Ask(a) \/ RequestAnnotation(a)
    BY <2>3 DEF LoseNode, DoomedPVCGone, LosePVC, SyncRun, SyncPods, SyncPVC, Crash, Ask,
       RequestAnnotation, cluster
  <2>4. QED
    BY <1>2, <2>1, <2>2, <2>3 DEF Next, vars
<1>3. IInv /\ [Next]_vars => [runSpec.mode = "resume" => runSpec'.mode = "resume"]_vars
  BY <1>1, <1>2
<1>4. QED
  BY <1>3, Invariance, PTL DEF Spec, NoFreshStartAfterResume

-----------------------------------------------------------------------------
(* The status implements AgentRunLifecycle.  A write that succeeds is made *)
(* from a copy equal to the object, so it is a step from what is visible;  *)
(* that it is the right step follows from what the copy must have said for *)
(* the pass to have come as far.                                           *)

Granted == At("resumeStatus") /\ rec.fresh

CancelSteps == {"cancel", "cancelStatus"}
PauseSteps == {"quiesce", "snapshot", "commitProof", "unquiesce", "removePod",
               "pausedStatus"}
\* Steps of a pass that found nothing requested.
WorkSteps == {"prerequisites", "lostStatus", "restoreStatus", "runSpec", "ensurePod",
              "recordPod", "podRunning", "failStatus"}

\* What the copy says when a pass has come as far as a step.
Fitted(step, r) ==
  /\ step \in CancelSteps => "cancel" \in r.annots
  /\ step \notin CancelSteps \cup ResumeSteps \cup {"idle"} => "cancel" \notin r.annots
  /\ step \in WorkSteps => r.phase \in Visible!Working
  /\ step = "admit" => r.phase = ""
  /\ step \in WorkSteps \cup {"admit", "abortStatus", "pausedStatus"} =>
       "pause" \notin r.annots
  /\ step = "enterPausing" => "pause" \in r.annots /\ r.phase # "Pausing"
  /\ step \in {"enterPausing", "abortClear", "abortStatus"} => r.phase \in Visible!Active
  /\ step \in PauseSteps => r.phase = "Pausing"
  /\ step \in {"removePod", "pausedStatus"} => "PauseCheckpointReady" \in r.conds
  /\ step \in ResumeSteps /\ r.phase = "Paused" => "cancel" \notin r.annots
  /\ step \in {"resume", "resumeClear"} => "resume" \in r.annots
  /\ step = "failStatus" => r.restarts < MaxRestarts

PassFits == Fitted(rec.pc, rec.run)

\* What readers see of a step.
SeenStep == Visible!Next \/ UNCHANGED Visible!vars

\* Nothing is known of a pass that has not begun.
LEMMA FittedIdle == \A r : Fitted("idle", r)
BY DEF Fitted, CancelSteps, ResumeSteps, PauseSteps, WorkSteps

\* A step that leaves the object alone is not seen.
LEMMA Unseen ==
  ASSUME run' = run, Granted' <=> Granted PROVE UNCHANGED Visible!vars
BY DEF Visible!vars, Granted, At, AttemptGeneration

\* The path of a pass fits what it was chosen for (handleRequestedTransition).
LEMMA TransitionFitted ==
  ASSUME NEW r \in Runs
  PROVE  Fitted(RequestedTransition(r), r) /\ RequestedTransition(r) # "resumeStatus"
<1>p. r.phase \in Phases
  BY DEF Runs
<1>1. CASE r.phase = "Paused"
  BY <1>1, FittedIdle DEF RequestedTransition, Fitted, CancelSteps, ResumeSteps, PauseSteps,
     WorkSteps, Terminal
<1>2. CASE r.phase \in Terminal
  BY <1>2, FittedIdle DEF RequestedTransition, Fitted, CancelSteps, ResumeSteps, PauseSteps,
     WorkSteps, Terminal
<1>3. CASE r.phase # "Paused" /\ r.phase \notin Terminal
  <2>1. RequestedTransition(r) = ActiveTransition(r)
    BY <1>3 DEF RequestedTransition
  <2>2. r.phase \in Visible!Active
    BY <1>3, <1>p DEF Phases, Terminal, Visible!Active, Visible!Working
  <2>3. CASE "cancel" \in r.annots
    BY <2>1, <2>3 DEF ActiveTransition, Fitted, CancelSteps, ResumeSteps, PauseSteps,
       WorkSteps
  <2>4. CASE "cancel" \notin r.annots /\ (r.phase = "Pausing" \/ "pause" \in r.annots)
    <3>1. RequestedTransition(r) = PauseTransition(r)
      BY <2>1, <2>4 DEF ActiveTransition
    <3>2. CASE ~CheckpointMountEnabled(r)
      BY <2>2, <2>4, <3>1, <3>2 DEF PauseTransition, Fitted, CancelSteps, ResumeSteps,
         PauseSteps, WorkSteps
    <3>3. CASE CheckpointMountEnabled(r) /\ r.phase # "Pausing"
      BY <2>2, <2>4, <3>1, <3>3 DEF PauseTransition, Fitted, CancelSteps, ResumeSteps,
         PauseSteps, WorkSteps
    <3>4. CASE CheckpointMountEnabled(r) /\ r.phase = "Pausing"
      BY <2>2, <2>4, <3>1, <3>4 DEF PauseTransition, Fitted, CancelSteps, ResumeSteps,
         PauseSteps, WorkSteps
    <3>5. QED
      BY <3>2, <3>3, <3>4
  <2>5. CASE "cancel" \notin r.annots /\ r.phase # "Pausing" /\ "pause" \notin r.annots
    <3>1. RequestedTransition(r) = IF r.phase = "" THEN "admit" ELSE "prerequisites"
      BY <2>1, <2>5 DEF ActiveTransition
    <3>2. r.phase # "" => r.phase \in Visible!Working
      BY <2>2, <2>5 DEF Visible!Active
    <3>3. QED
      BY <2>5, <3>1, <3>2 DEF Fitted, CancelSteps, ResumeSteps, PauseSteps, WorkSteps
  <2>6. QED
    BY <2>3, <2>4, <2>5
<1>4. QED
  BY <1>1, <1>2, <1>3

\* A write under optimistic concurrency starts from what is visible, or does nothing.
LEMMA VisibleWrite ==
  ASSUME IInv, NEW new, NEW step, Persist(new, step),
         rec.pc \notin {"idle", "resumeStatus"}, step # "resumeStatus", Fitted(step, new)
  PROVE  /\ PassFits' /\ ~Granted /\ ~Granted'
         /\ run' = run \/ (run = rec.run /\ run' = new)
<1>1. rec.fresh \in BOOLEAN /\ rec \in Recs
  BY DEF IInv, ObjectTypes, Recs
<1>2. CASE rec.fresh
  <2>1. /\ run' = new /\ run = rec.run
        /\ rec' = IF step = "idle" THEN Idle ELSE [rec EXCEPT !.pc = step, !.run = new]
    BY <1>2 DEF Persist, IInv, Copies, FreshCopies
  <2>2. CASE step = "idle"
    BY <2>1, <2>2, FittedIdle, IdleType DEF PassFits, Granted, At
  <2>3. CASE step # "idle"
    <3>1. rec'.pc = step /\ rec'.run = new
      BY <1>1, <2>1, <2>3 DEF Recs
    <3>2. QED
      BY <2>1, <3>1 DEF PassFits, Granted, At
  <2>4. QED
    BY <2>2, <2>3
<1>3. CASE ~rec.fresh
  <2>1. rec' = Idle /\ run' = run
    BY <1>3 DEF Persist, Return
  <2>2. QED
    BY <1>3, <2>1, FittedIdle, IdleType DEF PassFits, Granted, At
<1>4. QED
  BY <1>1, <1>2, <1>3

\* A step that goes on with its copy, or ends the pass, is not seen.
LEMMA UnseenPass ==
  ASSUME IInv, run' = run, rec.pc # "resumeStatus",
         \/ rec' = Idle
         \/ /\ rec'.run = rec.run /\ rec'.pc # "resumeStatus"
            /\ Fitted(rec'.pc, rec.run)
  PROVE  PassFits' /\ SeenStep
<1>1. PassFits' /\ ~Granted /\ ~Granted'
  BY FittedIdle, IdleType DEF PassFits, Granted, At
<1>2. QED
  BY <1>1, Unseen DEF SeenStep

\* What is seen of a write that moves the phase.
MovesTo(p) ==
  /\ run = rec.run
  /\ run'.phase = p /\ run'.annots = run.annots /\ run'.conds = run.conds
  /\ run'.restarts = run.restarts
  /\ AttemptGeneration(run') = AttemptGeneration(run)
  /\ ~Granted /\ ~Granted'

\* A pass that moves the phase ends with it; a conflict is not seen (setPhase).
LEMMA PhaseMoved ==
  ASSUME IInv, NEW p \in Phases, NEW reason \in Reasons, SetPhase(p, reason),
         rec.pc \notin {"idle", "resumeStatus"}
  PROVE  PassFits' /\ (MovesTo(p) \/ UNCHANGED Visible!vars)
<1> DEFINE new == [rec.run EXCEPT !.phase = p, !.reason = reason]
<1>1. /\ new.phase = p /\ new.annots = rec.run.annots /\ new.conds = rec.run.conds
      /\ new.restarts = rec.run.restarts /\ new.attempt = rec.run.attempt
  BY DEF IInv, ObjectTypes, Runs
<1>2. Persist(new, "idle")
  BY DEF SetPhase
<1> HIDE DEF new
<1>3. /\ PassFits' /\ ~Granted /\ ~Granted'
      /\ run' = run \/ (run = rec.run /\ run' = new)
  BY <1>2, FittedIdle, VisibleWrite
<1>4. AttemptGeneration(new) = AttemptGeneration(rec.run)
  BY <1>1 DEF AttemptGeneration
<1>5. CASE run' = run
  BY <1>3, <1>5, Unseen
<1>6. CASE run = rec.run /\ run' = new
  BY <1>1, <1>3, <1>4, <1>6 DEF MovesTo
<1>7. QED
  BY <1>3, <1>5, <1>6

\* Which step of the lifecycle a write of the phase is seen as.
LEMMA MoveSeen ==
  ASSUME NEW p, MovesTo(p)
  PROVE  /\ /\ rec.run.phase = "" /\ "cancel" \notin rec.run.annots
            /\ "pause" \notin rec.run.annots /\ p = "Pending"
            => Visible!Admit
         /\ /\ rec.run.phase \in Visible!Working /\ "cancel" \notin rec.run.annots
            /\ "pause" \notin rec.run.annots
            => /\ p \in {"Provisioning", "Running"} => Visible!Observe
               /\ p = "Succeeded" => Visible!Succeed
               /\ p = "Failed" => Visible!Fail
         /\ /\ rec.run.phase = "Pausing" /\ "cancel" \notin rec.run.annots
            => /\ p = "Failed" => Visible!Fail
               /\ /\ p = "Paused" /\ "pause" \notin rec.run.annots
                  /\ "PauseCheckpointReady" \in rec.run.conds
                  => Visible!Pause
         /\ /\ rec.run.phase \notin Terminal /\ "cancel" \in rec.run.annots
            /\ p = "Canceled"
            => Visible!Cancel
         /\ /\ rec.run.phase \in Visible!Active \ {"Pausing"}
            /\ "pause" \in rec.run.annots /\ "cancel" \notin rec.run.annots /\ p = "Pausing"
            => Visible!StartPause
<1>1. /\ run = rec.run /\ Visible!Become(p) /\ UNCHANGED Visible!status
      /\ UNCHANGED <<"PauseCheckpointReady" \in run.conds, At("resumeStatus") /\ rec.fresh>>
  BY DEF MovesTo, Visible!Become, Visible!status, Granted, At
<1>2. QED
  BY <1>1 DEF Visible!Admit, Visible!Observe, Visible!Succeed, Visible!Fail, Visible!Pause,
     Visible!Cancel, Visible!StartPause, Visible!Proceeds, Visible!Uncanceled,
     Visible!Terminal, Terminal

\* Every step of the lifecycle is one of its next-state relation.
LEMMA SeenSteps ==
  ASSUME \/ \E a \in Annotations : Visible!Request(a)
         \/ Visible!Admit \/ Visible!Observe \/ Visible!Recover \/ Visible!Retry
         \/ Visible!Restore \/ Visible!Succeed \/ Visible!Fail \/ Visible!Cancel
         \/ Visible!StartPause \/ Visible!TakeSnapshot \/ Visible!WithdrawPause
         \/ Visible!Pause \/ Visible!AbortPause \/ Visible!WithdrawResume
         \/ Visible!Resume \/ Visible!LoseResume \/ UNCHANGED Visible!vars
  PROVE  SeenStep
BY DEF SeenStep, Visible!Next, Annotations

\* The steps of a pass that move the phase and nothing else.
LEMMA SeenPhaseSteps ==
  ASSUME IInv, PassFits,
         Admit \/ CancelStatus \/ EnterPausing \/ PausePodLost \/ PausedStatus \/ LostStatus
           \/ PodAdmissionForbidden \/ ObservePending \/ ObserveSucceeded \/ FailTerminally
  PROVE  PassFits' /\ SeenStep
<1> USE DEF At, PassFits, Fitted, CancelSteps, PauseSteps, ResumeSteps, WorkSteps
<1>1. CASE Admit
  <2>1. /\ rec.pc = "admit" /\ SetPhase("Pending", "Admitted")
        /\ rec.run.phase = "" /\ "cancel" \notin rec.run.annots /\ "pause" \notin rec.run.annots
    BY <1>1 DEF Admit
  <2>2. PassFits' /\ (MovesTo("Pending") \/ UNCHANGED Visible!vars)
    BY <2>1, PhaseMoved DEF Phases, Reasons
  <2>3. QED
    BY <2>1, <2>2, MoveSeen, SeenSteps
<1>2. CASE CancelStatus
  <2>1. /\ rec.pc = "cancelStatus" /\ SetPhase("Canceled", "Canceled")
        /\ rec.run.phase \notin Terminal /\ "cancel" \in rec.run.annots
    BY <1>2 DEF CancelStatus, IInv, Copies, StepFits, Fits
  <2>2. PassFits' /\ (MovesTo("Canceled") \/ UNCHANGED Visible!vars)
    BY <2>1, PhaseMoved DEF Phases, Terminal, Reasons
  <2>3. QED
    BY <2>1, <2>2, MoveSeen, SeenSteps
<1>3. CASE EnterPausing
  <2>1. /\ rec.pc = "enterPausing" /\ SetPhase("Pausing", "Pausing")
        /\ rec.run.phase \in Visible!Active \ {"Pausing"}
        /\ "pause" \in rec.run.annots /\ "cancel" \notin rec.run.annots
    BY <1>3 DEF EnterPausing
  <2>2. PassFits' /\ (MovesTo("Pausing") \/ UNCHANGED Visible!vars)
    BY <2>1, PhaseMoved DEF Phases, Reasons
  <2>3. QED
    BY <2>1, <2>2, MoveSeen, SeenSteps
<1>4. CASE PausePodLost
  <2>1. /\ rec.pc = "quiesce" /\ SetPhase("Failed", "PausePodLost")
        /\ rec.run.phase = "Pausing" /\ "cancel" \notin rec.run.annots
    BY <1>4 DEF PausePodLost
  <2>2. PassFits' /\ (MovesTo("Failed") \/ UNCHANGED Visible!vars)
    BY <2>1, PhaseMoved DEF Phases, Terminal, Reasons
  <2>3. QED
    BY <2>1, <2>2, MoveSeen, SeenSteps
<1>5. CASE PausedStatus
  <2>1. /\ rec.pc = "pausedStatus" /\ SetPhase("Paused", "Paused")
        /\ rec.run.phase = "Pausing" /\ "cancel" \notin rec.run.annots
        /\ "pause" \notin rec.run.annots /\ "PauseCheckpointReady" \in rec.run.conds
    BY <1>5 DEF PausedStatus
  <2>2. PassFits' /\ (MovesTo("Paused") \/ UNCHANGED Visible!vars)
    BY <2>1, PhaseMoved DEF Phases, Reasons
  <2>3. QED
    BY <2>1, <2>2, MoveSeen, SeenSteps
<1>6. CASE LostStatus \/ PodAdmissionForbidden \/ FailTerminally
  <2>1. PICK reason \in Reasons : SetPhase("Failed", reason)
    BY <1>6 DEF LostStatus, PodAdmissionForbidden, FailTerminally, Reasons
  <2>2. /\ rec.pc \in {"lostStatus", "ensurePod"} /\ rec.run.phase \in Visible!Working
        /\ "cancel" \notin rec.run.annots /\ "pause" \notin rec.run.annots
    BY <1>6 DEF LostStatus, PodAdmissionForbidden, FailTerminally, PodMissing, PodFound
  <2>3. PassFits' /\ (MovesTo("Failed") \/ UNCHANGED Visible!vars)
    BY <2>1, <2>2, PhaseMoved DEF Phases, Terminal
  <2>4. QED
    BY <2>2, <2>3, MoveSeen, SeenSteps
<1>7. CASE ObservePending \/ ObserveSucceeded
  <2>1. PICK p \in {"Provisioning", "Succeeded"}, reason \in Reasons : SetPhase(p, reason)
    BY <1>7 DEF ObservePending, ObserveSucceeded, Reasons
  <2>2. /\ rec.pc = "ensurePod" /\ rec.run.phase \in Visible!Working
        /\ "cancel" \notin rec.run.annots /\ "pause" \notin rec.run.annots
    BY <1>7 DEF ObservePending, ObserveSucceeded, PodFound
  <2>3. PassFits' /\ (MovesTo(p) \/ UNCHANGED Visible!vars)
    BY <2>1, <2>2, PhaseMoved DEF Phases, Terminal
  <2>4. QED
    BY <2>2, <2>3, MoveSeen, SeenSteps
<1>8. QED
  BY <1>1, <1>2, <1>3, <1>4, <1>5, <1>6, <1>7

\* The steps of a pass that do not write the run: deletions, exec calls, the PVC,
\* the RunSpec and the pod.
LEMMA UnseenSteps ==
  ASSUME IInv, PassFits,
         \/ Cancel \/ Resume \/ Quiesce \/ Snapshot \/ Unquiesce
         \/ CreateWorkspacePVC \/ BeginRestore \/ WorkspaceLost \/ EnsureRunSpec
         \/ CreatePod \/ ObserveNothing \/ RetryFailedPod
  PROVE  PassFits' /\ SeenStep
<1> USE DEF At, Continue, Return
<1>t. rec \in Recs
  BY DEF IInv, ObjectTypes, Recs
<1>1. CASE Cancel
  <2>1. rec.pc = "cancel" /\ run' = run /\ rec'.run = rec.run /\ rec'.pc = "cancelStatus"
    BY <1>1, <1>t DEF Cancel, Recs
  <2>2. Fitted("cancelStatus", rec.run)
    BY <2>1 DEF PassFits, Fitted, CancelSteps, PauseSteps, ResumeSteps, WorkSteps
  <2>3. QED
    BY <2>1, <2>2, UnseenPass
<1>2. CASE Resume
  <2>1. rec.pc = "resume" /\ run' = run /\ rec'.run = rec.run /\ rec'.pc = "resumeClear"
    BY <1>2, <1>t DEF Resume, Recs
  <2>2. Fitted("resumeClear", rec.run)
    BY <2>1 DEF PassFits, Fitted, CancelSteps, PauseSteps, ResumeSteps, WorkSteps
  <2>3. QED
    BY <2>1, <2>2, UnseenPass
<1>3. CASE Quiesce \/ Snapshot \/ Unquiesce
  <2>1. /\ rec.pc \in {"quiesce", "snapshot", "unquiesce"} /\ run' = run /\ rec'.run = rec.run
        /\ rec'.pc \in {"snapshot", "unquiesce", "commitProof", "abortClear"}
    BY <1>3, <1>t DEF Quiesce, Snapshot, Unquiesce, SignalHarness, Recs
  <2>2. rec.run.phase = "Pausing" /\ "cancel" \notin rec.run.annots
    BY <2>1 DEF PassFits, Fitted, CancelSteps, PauseSteps, ResumeSteps
  <2>3. Fitted(rec'.pc, rec.run)
    BY <2>1, <2>2 DEF Fitted, CancelSteps, PauseSteps, ResumeSteps, WorkSteps,
       Visible!Active, Visible!Working
  <2>4. QED
    BY <2>1, <2>3, UnseenPass
<1>4. CASE \/ CreateWorkspacePVC \/ BeginRestore \/ WorkspaceLost \/ EnsureRunSpec
           \/ CreatePod \/ ObserveNothing
  <2>1. /\ rec.pc \in {"prerequisites", "runSpec", "ensurePod"} /\ run' = run
        /\ \/ rec' = Idle
           \/ /\ rec'.run = rec.run
              /\ rec'.pc \in {"runSpec", "restoreStatus", "lostStatus", "ensurePod", "recordPod"}
    BY <1>4, <1>t DEF CreateWorkspacePVC, BeginRestore, WorkspaceLost, EnsureRunSpec,
       CreatePod, ObserveNothing, MissingPVC, PodMissing, Recs
  <2>2. /\ rec.run.phase \in Visible!Working
        /\ "cancel" \notin rec.run.annots /\ "pause" \notin rec.run.annots
    BY <2>1 DEF PassFits, Fitted, CancelSteps, ResumeSteps, WorkSteps
  <2>3. rec' = Idle \/ Fitted(rec'.pc, rec.run)
    BY <2>1, <2>2 DEF Fitted, CancelSteps, PauseSteps, ResumeSteps, WorkSteps
  <2>4. QED
    BY <2>1, <2>3, UnseenPass
<1>5. CASE RetryFailedPod
  <2>1. rec.pc = "ensurePod" /\ run' = run /\ rec'.run = rec.run /\ rec'.pc = "failStatus"
    BY <1>5, <1>t DEF RetryFailedPod, PodFound, Recs
  <2>2. rec.run.restarts < MaxRestarts
    BY <1>5, OperatorConstants DEF RetryFailedPod, BudgetExhausted, IInv, ObjectTypes, Runs, Gens
  <2>3. /\ rec.run.phase \in Visible!Working
        /\ "cancel" \notin rec.run.annots /\ "pause" \notin rec.run.annots
    BY <2>1 DEF PassFits, Fitted, CancelSteps, ResumeSteps, WorkSteps
  <2>4. Fitted("failStatus", rec.run)
    BY <2>2, <2>3 DEF Fitted, CancelSteps, PauseSteps, ResumeSteps, WorkSteps
  <2>5. QED
    BY <2>1, <2>4, UnseenPass
<1>6. QED
  BY <1>1, <1>2, <1>3, <1>4, <1>5

\* What is seen of a retry (handleMissingPod, handlePodFailure).
LEMMA InterruptedSeen ==
  ASSUME NEW r \in Runs, AttemptGeneration(r) < MaxGen
  PROVE  /\ Interrupted(r).phase = "Interrupted" /\ Interrupted(r).annots = r.annots
         /\ Interrupted(r).restarts = r.restarts + 1
         /\ Interrupted(r).conds = r.conds \cup {"Resuming"}
         /\ AttemptGeneration(Interrupted(r)) = AttemptGeneration(r) + 1
<1>1. AttemptGeneration(Interrupted(r)) = AttemptGeneration(r) + 1
  BY InterruptedType
<1>2. QED
  BY <1>1 DEF Interrupted, Charged, AdvanceAttempt, Runs

\* What is seen of a lost disk (ensurePVC).
LEMMA RestoringSeen ==
  ASSUME NEW r \in Runs, AttemptGeneration(r) < MaxGen
  PROVE  /\ Restoring(r).phase = "Interrupted" /\ Restoring(r).annots = r.annots
         /\ Restoring(r).conds = r.conds \cup {"WorkspaceRestorePending"}
         /\ IF "Resuming" \in r.conds
            THEN /\ Restoring(r).restarts = r.restarts
                 /\ AttemptGeneration(Restoring(r)) = AttemptGeneration(r)
            ELSE /\ Restoring(r).restarts = r.restarts + 1
                 /\ AttemptGeneration(Restoring(r)) = AttemptGeneration(r) + 1
<1>1. CASE "Resuming" \in r.conds
  <2>1. /\ Restoring(r).phase = "Interrupted" /\ Restoring(r).annots = r.annots
        /\ Restoring(r).conds = r.conds \cup {"WorkspaceRestorePending"}
        /\ Restoring(r).restarts = r.restarts /\ Restoring(r).attempt = r.attempt
    BY <1>1 DEF Restoring, Runs
  <2>2. QED
    BY <1>1, <2>1 DEF AttemptGeneration
<1>2. CASE "Resuming" \notin r.conds
  <2> DEFINE c == Charged(r)
  <2>1. c \in Runs /\ AttemptGeneration(c) = AttemptGeneration(r) + 1
    BY ChargedType
  <2>2. c.annots = r.annots /\ c.conds = r.conds /\ c.restarts = r.restarts + 1
    BY DEF Charged, AdvanceAttempt, Runs
  <2>3. Restoring(r) = [c EXCEPT !.phase = "Interrupted",
                                 !.conds = c.conds \cup {"WorkspaceRestorePending"}]
    BY <1>2 DEF Restoring
  <2> HIDE DEF c
  <2>4. /\ Restoring(r).phase = "Interrupted" /\ Restoring(r).annots = r.annots
        /\ Restoring(r).conds = r.conds \cup {"WorkspaceRestorePending"}
        /\ Restoring(r).restarts = r.restarts + 1 /\ Restoring(r).attempt = c.attempt
    BY <2>1, <2>2, <2>3 DEF Runs
  <2>5. AttemptGeneration(Restoring(r)) = AttemptGeneration(c)
    BY <2>2, <2>4 DEF AttemptGeneration
  <2>6. QED
    BY <1>2, <2>1, <2>4, <2>5
<1>3. QED
  BY <1>1, <1>2

\* What is seen of a resume: a new budget for a failed run (resume).
LEMMA ResumedSeen ==
  ASSUME NEW r \in Runs, AttemptGeneration(r) < MaxGen
  PROVE  /\ Resumed(r).phase = "Interrupted" /\ Resumed(r).annots = r.annots
         /\ Resumed(r).restarts = (IF r.phase = "Paused" THEN r.restarts ELSE 0)
         /\ "Resuming" \in Resumed(r).conds
         /\ "PauseCheckpointReady" \in Resumed(r).conds <=> "PauseCheckpointReady" \in r.conds
         /\ AttemptGeneration(Resumed(r)) = AttemptGeneration(r) + 1
<1> DEFINE a == AdvanceAttempt(r)
<1>1. /\ a \in Runs /\ a.restarts = r.restarts
      /\ a.attempt = AttemptGeneration(r) + 1
  BY AdvanceType
<1>2. a.annots = r.annots /\ a.conds = r.conds
  BY DEF AdvanceAttempt, Runs
<1>3. Resumed(r) = [a EXCEPT !.restarts = IF r.phase = "Paused" THEN a.restarts ELSE 0,
                             !.phase = "Interrupted",
                             !.conds = a.conds \cup {"Resuming"}
                               \cup (IF r.phase = "Paused" THEN {"PauseResumePending"} ELSE {})]
  BY DEF Resumed
<1>4. r.restarts \in Nat /\ r.restarts <= AttemptGeneration(r) /\ AttemptGeneration(r) \in Nat
  BY OperatorConstants DEF AttemptGeneration, Runs, Gens
<1> HIDE DEF a
<1>5. /\ Resumed(r).phase = "Interrupted" /\ Resumed(r).annots = r.annots
      /\ Resumed(r).restarts = (IF r.phase = "Paused" THEN r.restarts ELSE 0)
      /\ Resumed(r).attempt = AttemptGeneration(r) + 1
      /\ Resumed(r).conds = r.conds \cup {"Resuming"}
                            \cup (IF r.phase = "Paused" THEN {"PauseResumePending"} ELSE {})
  BY <1>1, <1>2, <1>3 DEF Runs
<1>6. /\ "Resuming" \in Resumed(r).conds
      /\ "PauseCheckpointReady" \in Resumed(r).conds <=> "PauseCheckpointReady" \in r.conds
  BY <1>5
<1>7. AttemptGeneration(Resumed(r)) = AttemptGeneration(r) + 1
  BY <1>4, <1>5 DEF AttemptGeneration
<1>8. QED
  BY <1>5, <1>6, <1>7

\* The steps of a pass that replace the attempt.
LEMMA SeenAttemptSteps ==
  ASSUME IInv, PassFits, RestoreStatus \/ HandleMissingPod \/ FailStatus
  PROVE  PassFits' /\ SeenStep
<1> USE DEF At
<1>t. rec.run \in Runs /\ CurrentGen = AttemptGeneration(rec.run)
  BY DEF IInv, ObjectTypes, CurrentGen
<1>p. /\ rec.pc \in {"restoreStatus", "ensurePod", "failStatus"}
      /\ rec.run.phase \in Visible!Working
      /\ "cancel" \notin rec.run.annots /\ "pause" \notin rec.run.annots
      /\ rec.pc = "failStatus" => rec.run.restarts < MaxRestarts
  BY DEF PassFits, Fitted, CancelSteps, ResumeSteps, WorkSteps, RestoreStatus,
     HandleMissingPod, FailStatus, PodMissing
<1>1. CASE RestoreStatus
  <2> DEFINE new == Restoring(rec.run)
  <2>1. Persist(new, "idle") /\ AttemptGeneration(rec.run) < MaxGen
    BY <1>1, <1>t DEF RestoreStatus
  <2>2. /\ new.phase = "Interrupted" /\ new.annots = rec.run.annots
        /\ new.conds = rec.run.conds \cup {"WorkspaceRestorePending"}
        /\ IF "Resuming" \in rec.run.conds
           THEN /\ new.restarts = rec.run.restarts
                /\ AttemptGeneration(new) = AttemptGeneration(rec.run)
           ELSE /\ new.restarts = rec.run.restarts + 1
                /\ AttemptGeneration(new) = AttemptGeneration(rec.run) + 1
    BY <1>t, <2>1, RestoringSeen
  <2> HIDE DEF new
  <2>3. /\ PassFits' /\ ~Granted /\ ~Granted'
        /\ run' = run \/ (run = rec.run /\ run' = new)
    BY <1>p, <2>1, FittedIdle, VisibleWrite
  <2>4. CASE run' = run
    BY <2>3, <2>4, Unseen, SeenSteps
  <2>5. CASE run = rec.run /\ run' = new
    <3>1. Visible!Restore
      BY <1>p, <2>2, <2>3, <2>5 DEF Visible!Restore, Visible!Proceeds, Visible!Uncanceled,
         Visible!Become, Visible!NextAttempt, Granted
    <3>2. QED
      BY <2>3, <3>1, SeenSteps
  <2>6. QED
    BY <2>3, <2>4, <2>5
<1>2. CASE HandleMissingPod /\ BudgetExhausted(rec.run)
  <2>1. SetPhase("Failed", "RetryBudgetExhausted")
    BY <1>2 DEF HandleMissingPod
  <2>2. PassFits' /\ (MovesTo("Failed") \/ UNCHANGED Visible!vars)
    BY <1>p, <2>1, PhaseMoved DEF Phases, Terminal, Reasons
  <2>3. QED
    BY <1>p, <2>2, MoveSeen, SeenSteps
<1>3. CASE FailStatus \/ (HandleMissingPod /\ ~BudgetExhausted(rec.run))
  <2> DEFINE new == Interrupted(rec.run)
  <2>1. Persist(new, "idle") /\ AttemptGeneration(rec.run) < MaxGen
    BY <1>3, <1>t DEF FailStatus, HandleMissingPod
  <2>2. rec.run.restarts < MaxRestarts
    BY <1>3, <1>t, <1>p, OperatorConstants DEF FailStatus, BudgetExhausted, Runs, Gens
  <2>3. /\ new.phase = "Interrupted" /\ new.annots = rec.run.annots
        /\ new.restarts = rec.run.restarts + 1
        /\ new.conds = rec.run.conds \cup {"Resuming"}
        /\ AttemptGeneration(new) = AttemptGeneration(rec.run) + 1
    BY <1>t, <2>1, InterruptedSeen
  <2> HIDE DEF new
  <2>4. /\ PassFits' /\ ~Granted /\ ~Granted'
        /\ run' = run \/ (run = rec.run /\ run' = new)
    BY <1>p, <2>1, FittedIdle, VisibleWrite
  <2>5. CASE run' = run
    BY <2>4, <2>5, Unseen, SeenSteps
  <2>6. CASE run = rec.run /\ run' = new
    <3>1. Visible!Retry
      BY <1>p, <2>2, <2>3, <2>4, <2>6 DEF Visible!Retry, Visible!Proceeds, Visible!Uncanceled,
         Visible!Become, Visible!NextAttempt, Granted
    <3>2. QED
      BY <2>4, <3>1, SeenSteps
  <2>7. QED
    BY <2>4, <2>5, <2>6
<1>4. QED
  BY <1>1, <1>2, <1>3

\* The steps of a pass that record something else: a proof, a withdrawn pause, the
\* posture, the pod, the end of a recovery.
LEMMA SeenRecordSteps ==
  ASSUME IInv, PassFits,
         \/ CommitProof \/ AbortClear \/ AbortStatus \/ RemoveCheckpointedPod
         \/ RecordPosture \/ RecordPod \/ ClearRecoveryConditions
  PROVE  PassFits' /\ SeenStep
<1> USE DEF At
<1>t. rec.run \in Runs
  BY DEF IInv, ObjectTypes
<1>1. CASE CommitProof
  <2> DEFINE new == [rec.run EXCEPT !.lastCk = rec.proof,
                                    !.conds = @ \cup {"PauseCheckpointReady"}]
  <2>1. Persist(new, "idle") /\ rec.pc = "commitProof"
    BY <1>1 DEF CommitProof
  <2>2. rec.run.phase = "Pausing" /\ "cancel" \notin rec.run.annots
    BY <2>1 DEF PassFits, Fitted, CancelSteps, ResumeSteps, PauseSteps
  <2>3. /\ new.phase = rec.run.phase /\ new.annots = rec.run.annots
        /\ new.restarts = rec.run.restarts /\ new.attempt = rec.run.attempt
        /\ new.conds = rec.run.conds \cup {"PauseCheckpointReady"}
    BY <1>t DEF Runs
  <2> HIDE DEF new
  <2>4. /\ PassFits' /\ ~Granted /\ ~Granted'
        /\ run' = run \/ (run = rec.run /\ run' = new)
    BY <2>1, FittedIdle, VisibleWrite
  <2>5. CASE run' = run
    BY <2>4, <2>5, Unseen, SeenSteps
  <2>6. CASE run = rec.run /\ run' = new
    <3>1. AttemptGeneration(run') = AttemptGeneration(run)
      BY <2>3, <2>6 DEF AttemptGeneration
    <3>2. Visible!TakeSnapshot
      BY <2>2, <2>3, <2>4, <2>6, <3>1 DEF Visible!TakeSnapshot, Visible!Uncanceled,
         Visible!status, Granted
    <3>3. QED
      BY <2>4, <3>2, SeenSteps
  <2>7. QED
    BY <2>4, <2>5, <2>6
<1>2. CASE AbortClear \/ (RemoveCheckpointedPod /\ SeenPod.phase = "Absent")
  <2> DEFINE new == [rec.run EXCEPT !.annots = @ \ {"pause"}]
  <2>1. PICK step \in {"abortStatus", "pausedStatus"} :
          /\ Persist(new, step)
          /\ \/ step = "abortStatus" /\ rec.pc = "abortClear"
             \/ step = "pausedStatus" /\ rec.pc = "removePod"
    BY <1>2 DEF AbortClear, RemoveCheckpointedPod
  <2>2. rec.run.phase \in Visible!Active /\ "cancel" \notin rec.run.annots
    BY <2>1 DEF PassFits, Fitted, CancelSteps, ResumeSteps, PauseSteps, Visible!Active
  <2>3. /\ new.phase = rec.run.phase /\ new.annots = rec.run.annots \ {"pause"}
        /\ new.restarts = rec.run.restarts /\ new.attempt = rec.run.attempt
        /\ new.conds = rec.run.conds
    BY <1>t DEF Runs
  <2> HIDE DEF new
  <2>4. Fitted(step, new)
    BY <2>1, <2>2, <2>3 DEF PassFits, Fitted, CancelSteps, ResumeSteps, PauseSteps, WorkSteps
  <2>5. /\ PassFits' /\ ~Granted /\ ~Granted'
        /\ run' = run \/ (run = rec.run /\ run' = new)
    BY <2>1, <2>4, VisibleWrite
  <2>6. CASE run' = run
    BY <2>5, <2>6, Unseen, SeenSteps
  <2>7. CASE run = rec.run /\ run' = new
    <3>1. AttemptGeneration(run') = AttemptGeneration(run)
      BY <2>3, <2>7 DEF AttemptGeneration
    <3>2. Visible!WithdrawPause
      BY <2>2, <2>3, <2>5, <2>7, <3>1 DEF Visible!WithdrawPause, Visible!Uncanceled,
         Visible!status, Granted
    <3>3. QED
      BY <2>5, <3>2, SeenSteps
  <2>8. QED
    BY <2>5, <2>6, <2>7
<1>3. CASE RemoveCheckpointedPod /\ SeenPod.phase # "Absent"
  <2>1. rec' = Idle /\ run' = run /\ rec.pc = "removePod"
    BY <1>3 DEF RemoveCheckpointedPod, Return
  <2>2. QED
    BY <2>1, UnseenPass
<1>4. CASE AbortStatus
  <2> DEFINE new == [rec.run EXCEPT !.phase = "Running", !.reason = "PauseAborted",
                                    !.conds = @ \ {"PauseCheckpointReady"}]
  <2>1. Persist(new, "idle") /\ rec.pc = "abortStatus"
    BY <1>4 DEF AbortStatus
  <2>2. /\ rec.run.phase \in Visible!Active /\ "cancel" \notin rec.run.annots
        /\ "pause" \notin rec.run.annots
    BY <2>1 DEF PassFits, Fitted, CancelSteps, ResumeSteps
  <2>3. /\ new.phase = "Running" /\ new.annots = rec.run.annots
        /\ new.restarts = rec.run.restarts /\ new.attempt = rec.run.attempt
        /\ new.conds = rec.run.conds \ {"PauseCheckpointReady"}
    BY <1>t DEF Runs
  <2> HIDE DEF new
  <2>4. /\ PassFits' /\ ~Granted /\ ~Granted'
        /\ run' = run \/ (run = rec.run /\ run' = new)
    BY <2>1, FittedIdle, VisibleWrite
  <2>5. CASE run' = run
    BY <2>4, <2>5, Unseen, SeenSteps
  <2>6. CASE run = rec.run /\ run' = new
    <3>1. AttemptGeneration(run') = AttemptGeneration(run)
      BY <2>3, <2>6 DEF AttemptGeneration
    <3>2. Visible!AbortPause
      BY <2>2, <2>3, <2>4, <2>6, <3>1 DEF Visible!AbortPause, Visible!Proceeds,
         Visible!Uncanceled, Visible!Become, Visible!status, Granted
    <3>3. QED
      BY <2>4, <3>2, SeenSteps
  <2>7. QED
    BY <2>4, <2>5, <2>6
<1>5. CASE RecordPosture
  <2>1. PICK c \in Posture : Persist([rec.run EXCEPT !.conds = @ \cup {c}], "prerequisites")
    BY <1>5 DEF RecordPosture, Posture
  <2> DEFINE new == [rec.run EXCEPT !.conds = @ \cup {c}]
  <2>2. Persist(new, "prerequisites") /\ rec.pc = "prerequisites"
    BY <1>5, <2>1 DEF RecordPosture
  <2>3. /\ new.phase = rec.run.phase /\ new.annots = rec.run.annots
        /\ new.restarts = rec.run.restarts /\ new.attempt = rec.run.attempt
        /\ new.conds = rec.run.conds \cup {c}
    BY <1>t DEF Runs
  <2> HIDE DEF new
  <2>4. Fitted("prerequisites", new)
    BY <2>2, <2>3 DEF PassFits, Fitted, CancelSteps, ResumeSteps, PauseSteps, WorkSteps
  <2>5. /\ PassFits' /\ ~Granted /\ ~Granted'
        /\ run' = run \/ (run = rec.run /\ run' = new)
    BY <2>2, <2>4, VisibleWrite
  <2>6. CASE run' = run
    BY <2>5, <2>6, Unseen, SeenSteps
  <2>7. CASE run = rec.run /\ run' = new
    <3>1. AttemptGeneration(run') = AttemptGeneration(run)
      BY <2>3, <2>7 DEF AttemptGeneration
    <3>2. UNCHANGED Visible!vars
      BY <2>3, <2>5, <2>7, <3>1 DEF Visible!vars, Posture, Granted
    <3>3. QED
      BY <2>5, <3>2, SeenSteps
  <2>8. QED
    BY <2>5, <2>6, <2>7
<1>6. CASE RecordPod
  <2> DEFINE new == [rec.run EXCEPT !.podName = CurrentGen]
  <2>1. Persist(new, "idle") /\ rec.pc \in {"recordPod", "ensurePod"}
    BY <1>6 DEF RecordPod
  <2>2. /\ new.phase = rec.run.phase /\ new.annots = rec.run.annots
        /\ new.restarts = rec.run.restarts /\ new.attempt = rec.run.attempt
        /\ new.conds = rec.run.conds
    BY <1>t DEF Runs
  <2> HIDE DEF new
  <2>3. /\ PassFits' /\ ~Granted /\ ~Granted'
        /\ run' = run \/ (run = rec.run /\ run' = new)
    BY <2>1, FittedIdle, VisibleWrite
  <2>4. CASE run' = run
    BY <2>3, <2>4, Unseen, SeenSteps
  <2>5. CASE run = rec.run /\ run' = new
    <3>1. AttemptGeneration(run') = AttemptGeneration(run)
      BY <2>2, <2>5 DEF AttemptGeneration
    <3>2. UNCHANGED Visible!vars
      BY <2>2, <2>3, <2>5, <3>1 DEF Visible!vars, Granted
    <3>3. QED
      BY <2>3, <3>2, SeenSteps
  <2>6. QED
    BY <2>3, <2>4, <2>5
<1>7. CASE ClearRecoveryConditions
  <2> DEFINE new == [rec.run EXCEPT !.conds = @ \ Recovery]
  <2>1. Persist(new, "podRunning") /\ rec.pc = "ensurePod"
    BY <1>7 DEF ClearRecoveryConditions, PodFound
  <2>2. /\ rec.run.phase \in Visible!Working
        /\ "cancel" \notin rec.run.annots /\ "pause" \notin rec.run.annots
    BY <2>1 DEF PassFits, Fitted, CancelSteps, ResumeSteps, WorkSteps
  <2>3. /\ new.phase = rec.run.phase /\ new.annots = rec.run.annots
        /\ new.restarts = rec.run.restarts /\ new.attempt = rec.run.attempt
        /\ new.conds = rec.run.conds \ Recovery
    BY <1>t DEF Runs
  <2> HIDE DEF new
  <2>4. Fitted("podRunning", new)
    BY <2>2, <2>3 DEF Fitted, CancelSteps, ResumeSteps, PauseSteps, WorkSteps
  <2>5. /\ PassFits' /\ ~Granted /\ ~Granted'
        /\ run' = run \/ (run = rec.run /\ run' = new)
    BY <2>1, <2>4, VisibleWrite
  <2>6. CASE run' = run
    BY <2>5, <2>6, Unseen, SeenSteps
  <2>7. CASE run = rec.run /\ run' = new
    <3>1. AttemptGeneration(run') = AttemptGeneration(run)
      BY <2>3, <2>7 DEF AttemptGeneration
    <3>2. Visible!Recover
      BY <2>2, <2>3, <2>5, <2>7, <3>1 DEF Visible!Recover, Visible!Proceeds,
         Visible!Uncanceled, Recovery, Granted
    <3>3. QED
      BY <2>5, <3>2, SeenSteps
  <2>8. QED
    BY <2>5, <2>6, <2>7
<1>8. QED
  BY <1>1, <1>2, <1>3, <1>4, <1>5, <1>6, <1>7

\* A pod seen running is reported, with the latest checkpoint it has logged.
LEMMA SeenRunning ==
  ASSUME IInv, PassFits, ObserveRunning
  PROVE  PassFits' /\ SeenStep
<1> USE DEF At
<1>1. PICK ck \in Scraped :
        LET seen == [rec.run EXCEPT !.lastCk = ck, !.phase = "Running",
                       !.reason = IF rec.run.phase = "Running" THEN @ ELSE "PodRunning"]
        IN IF seen = rec.run THEN Return /\ UNCHANGED <<run, cache>>
           ELSE Persist(seen, "idle")
  BY DEF ObserveRunning
<1> DEFINE new == [rec.run EXCEPT !.lastCk = ck, !.phase = "Running",
                     !.reason = IF rec.run.phase = "Running" THEN @ ELSE "PodRunning"]
<1>2. (rec' = Idle /\ run' = run) \/ Persist(new, "idle")
  BY <1>1 DEF Return
<1>3. rec.pc \in {"podRunning", "ensurePod"}
  BY DEF ObserveRunning, PodFound
<1>4. /\ rec.run.phase \in Visible!Working
      /\ "cancel" \notin rec.run.annots /\ "pause" \notin rec.run.annots
  BY <1>3 DEF PassFits, Fitted, CancelSteps, ResumeSteps, WorkSteps
<1>5. /\ new.phase = "Running" /\ new.annots = rec.run.annots
      /\ new.restarts = rec.run.restarts /\ new.attempt = rec.run.attempt
      /\ new.conds = rec.run.conds
  BY DEF IInv, ObjectTypes, Runs
<1> HIDE DEF new
<1>6. CASE rec' = Idle /\ run' = run
  BY <1>3, <1>6, UnseenPass
<1>7. CASE Persist(new, "idle")
  <2>1. /\ PassFits' /\ ~Granted /\ ~Granted'
        /\ run' = run \/ (run = rec.run /\ run' = new)
    BY <1>3, <1>7, FittedIdle, VisibleWrite
  <2>2. CASE run' = run
    BY <2>1, <2>2, Unseen, SeenSteps
  <2>3. CASE run = rec.run /\ run' = new
    <3>1. AttemptGeneration(run') = AttemptGeneration(run)
      BY <1>5, <2>3 DEF AttemptGeneration
    <3>2. MovesTo("Running")
      BY <1>5, <2>1, <2>3, <3>1 DEF MovesTo
    <3>3. QED
      BY <1>4, <2>1, <3>2, MoveSeen, SeenSteps
  <2>4. QED
    BY <2>1, <2>2, <2>3
<1>8. QED
  BY <1>2, <1>6, <1>7

\* A pass begins (Reconcile).
LEMMA SeenReconcile ==
  ASSUME IInv, Reconcile
  PROVE  PassFits' /\ SeenStep
<1>1. SeenRun \in Runs
  BY DEF SeenRun, IInv, ObjectTypes
<1>2. /\ rec.pc = "idle" /\ run' = run
      /\ rec'.pc = RequestedTransition(SeenRun) /\ rec'.run = SeenRun
  BY DEF Reconcile, At
<1>3. Fitted(rec'.pc, rec'.run) /\ rec'.pc # "resumeStatus"
  BY <1>1, <1>2, TransitionFitted
<1>4. PassFits' /\ ~Granted /\ ~Granted'
  BY <1>2, <1>3 DEF PassFits, Granted, At
<1>5. QED
  BY <1>2, <1>4, Unseen, SeenSteps

\* A resume: its request is withdrawn in one write and it is carried out in the
\* next, unless somebody wrote in between (resume).
LEMMA SeenResume ==
  ASSUME IInv, PassFits, ResumeClear \/ ResumeStatus
  PROVE  PassFits' /\ SeenStep
<1> USE DEF At
<1>t. rec \in Recs /\ rec.run \in Runs /\ rec.fresh \in BOOLEAN
  BY DEF IInv, ObjectTypes, Recs
<1>p. /\ rec.run.phase \in {"Paused", "Failed"}
      /\ rec.run.phase = "Paused" => "cancel" \notin rec.run.annots
  BY DEF IInv, Copies, StepFits, Fits, PassFits, Fitted, ResumeSteps, ResumeClear, ResumeStatus
<1>1. CASE ~rec.fresh
  <2>1. rec' = Idle /\ run' = run
    BY <1>1 DEF ResumeClear, ResumeStatus, Persist, Return
  <2>2. PassFits' /\ ~Granted /\ ~Granted'
    BY <1>1, <2>1, FittedIdle, IdleType DEF PassFits, Granted
  <2>3. QED
    BY <2>1, <2>2, Unseen, SeenSteps
<1>2. CASE ResumeClear /\ rec.fresh
  <2> DEFINE new == [rec.run EXCEPT !.annots = @ \ {"resume"}]
  <2>1. /\ rec.pc = "resumeClear" /\ run = rec.run /\ run' = new
        /\ rec' = [rec EXCEPT !.pc = "resumeStatus", !.run = new]
    BY <1>2 DEF ResumeClear, Persist, IInv, Copies, FreshCopies
  <2>2. /\ new.phase = rec.run.phase /\ new.annots = rec.run.annots \ {"resume"}
        /\ new.restarts = rec.run.restarts /\ new.attempt = rec.run.attempt
        /\ new.conds = rec.run.conds
    BY <1>t DEF Runs
  <2> HIDE DEF new
  <2>3. rec'.pc = "resumeStatus" /\ rec'.run = new /\ rec'.fresh
    BY <1>2, <1>t, <2>1 DEF Recs
  <2>4. "resume" \in rec.run.annots
    BY <2>1 DEF PassFits, Fitted
  <2>5. Fitted("resumeStatus", new)
    BY <1>p, <2>2 DEF Fitted, CancelSteps, ResumeSteps, PauseSteps, WorkSteps
  <2>6. PassFits'
    BY <2>3, <2>5 DEF PassFits
  <2>7. AttemptGeneration(run') = AttemptGeneration(run)
    BY <2>1, <2>2 DEF AttemptGeneration
  <2>8. Visible!WithdrawResume
    BY <1>p, <2>1, <2>2, <2>3, <2>4, <2>7 DEF Visible!WithdrawResume, Visible!MayResume,
       Visible!Uncanceled, Visible!status
  <2>9. QED
    BY <2>6, <2>8, SeenSteps
<1>3. CASE ResumeStatus /\ rec.fresh
  <2> DEFINE new == Resumed(rec.run)
  <2>1. /\ rec.pc = "resumeStatus" /\ run = rec.run /\ run' = new /\ rec' = Idle
        /\ AttemptGeneration(rec.run) < MaxGen
    BY <1>3 DEF ResumeStatus, Persist, IInv, Copies, FreshCopies, CurrentGen
  <2>2. /\ new.phase = "Interrupted" /\ new.annots = rec.run.annots
        /\ new.restarts = (IF rec.run.phase = "Paused" THEN rec.run.restarts ELSE 0)
        /\ "Resuming" \in new.conds
        /\ "PauseCheckpointReady" \in new.conds <=> "PauseCheckpointReady" \in rec.run.conds
        /\ AttemptGeneration(new) = AttemptGeneration(rec.run) + 1
    BY <1>t, <2>1, ResumedSeen
  <2> HIDE DEF new
  <2>3. PassFits' /\ ~Granted'
    BY <2>1, FittedIdle, IdleType DEF PassFits, Granted
  <2>4. Visible!Resume
    BY <1>3, <1>p, <2>1, <2>2, <2>3 DEF Visible!Resume, Visible!MayResume, Visible!Uncanceled,
       Visible!Become, Visible!NextAttempt, Granted
  <2>5. QED
    BY <2>3, <2>4, SeenSteps
<1>4. QED
  BY <1>t, <1>1, <1>2, <1>3

\* What is seen of everybody else: requests, and a resume that a crash or another
\* writer defeats.
LEMMA SeenEnvironment ==
  ASSUME IInv, PassFits,
         \/ \E g \in Gens : PodStep(g)
         \/ LoseNode \/ DoomedPVCGone \/ LosePVC \/ SyncRun \/ SyncPods \/ SyncPVC \/ Crash
         \/ \E a \in Annotations : Ask(a) \/ RequestAnnotation(a)
         \/ UNCHANGED vars
  PROVE  PassFits' /\ SeenStep
<1>t. rec \in Recs /\ run \in Runs
  BY DEF IInv, ObjectTypes, Recs
<1>1. CASE UNCHANGED <<run, rec>>
  <2>1. PassFits' /\ (Granted' <=> Granted)
    BY <1>1 DEF PassFits, Granted, At
  <2>2. QED
    BY <1>1, <2>1, Unseen, SeenSteps
<1>2. CASE Crash
  <2>1. run' = run /\ rec' = Idle
    BY <1>2 DEF Crash, Return
  <2>2. PassFits' /\ ~Granted'
    BY <2>1, FittedIdle, IdleType DEF PassFits, Granted, At
  <2>3. CASE Granted
    <3>1. AttemptGeneration(run') = AttemptGeneration(run)
      BY <2>1
    <3>2. Visible!LoseResume
      BY <2>1, <2>2, <2>3, <3>1 DEF Visible!LoseResume, Visible!status, Granted
    <3>3. QED
      BY <2>2, <3>2, SeenSteps
  <2>4. CASE ~Granted
    BY <2>1, <2>2, <2>4, Unseen, SeenSteps
  <2>5. QED
    BY <2>3, <2>4
<1>3. ASSUME NEW a \in Annotations, RequestAnnotation(a) PROVE PassFits' /\ SeenStep
  <2> DEFINE new == [run EXCEPT !.annots = @ \cup {a}]
  <2>1. run' = new /\ rec' = [rec EXCEPT !.fresh = @ /\ new = run]
    BY <1>3 DEF RequestAnnotation, Supersede
  <2>2. /\ new.phase = run.phase /\ new.annots = run.annots \cup {a}
        /\ new.restarts = run.restarts /\ new.attempt = run.attempt
        /\ new.conds = run.conds
    BY <1>t DEF Runs
  <2>3. a \in run.annots => new = run
    BY <1>t DEF Runs
  <2> HIDE DEF new
  <2>4. rec'.pc = rec.pc /\ rec'.run = rec.run /\ (rec'.fresh <=> rec.fresh /\ new = run)
    BY <1>t, <2>1 DEF Recs
  <2>5. PassFits'
    BY <2>4 DEF PassFits
  <2>6. CASE a \in run.annots
    <3>1. run' = run /\ (Granted' <=> Granted)
      BY <2>1, <2>3, <2>4, <2>6 DEF Granted, At
    <3>2. QED
      BY <2>5, <3>1, Unseen, SeenSteps
  <2>7. CASE a \notin run.annots
    <3>1. ~Granted'
      BY <2>2, <2>4, <2>7 DEF Granted, At
    <3>2. AttemptGeneration(run') = AttemptGeneration(run)
      BY <2>1, <2>2 DEF AttemptGeneration
    <3>3. Visible!Request(a)
      BY <2>1, <2>2, <2>7, <3>1, <3>2 DEF Visible!Request, Visible!status, Granted
    <3>4. QED
      BY <2>5, <3>3, SeenSteps
  <2>8. QED
    BY <2>6, <2>7
<1>4. ASSUME NEW a \in Annotations, Ask(a) PROVE UNCHANGED <<run, rec>>
  BY <1>4 DEF Ask
<1>5. ASSUME NEW g \in Gens, PodStep(g) PROVE UNCHANGED <<run, rec>>
  BY <1>5 DEF PodStep, Hydrate, Work, TakeCheckpoint, Exit, ExitRetryable, PodGone, LosePod
<1>6. ASSUME \/ LoseNode \/ DoomedPVCGone \/ LosePVC \/ SyncRun \/ SyncPods \/ SyncPVC
             \/ UNCHANGED vars
      PROVE  UNCHANGED <<run, rec>>
  BY <1>6 DEF LoseNode, DoomedPVCGone, LosePVC, SyncRun, SyncPods, SyncPVC, vars
<1>7. QED
  BY <1>1, <1>2, <1>3, <1>4, <1>5, <1>6

\* Every step is one of the lifecycle, or not seen at all.
LEMMA LifecycleStep == IInv /\ PassFits /\ [Next]_vars => PassFits' /\ SeenStep
BY SeenReconcile, SeenPhaseSteps, UnseenSteps, SeenAttemptSteps, SeenRecordSteps, SeenRunning,
   SeenResume, SeenEnvironment DEF Next, Operator

\* A new run is seen as one.
LEMMA LifecycleInit == Init => PassFits /\ Visible!Init
<1> SUFFICES ASSUME Init PROVE PassFits /\ Visible!Init
  OBVIOUS
<1>1. PICK b \in BOOLEAN : run = NewRun(b)
  BY OperatorConstants DEF Init
<1>2. rec = Idle
  BY DEF Init
<1>3. PassFits /\ ~Granted
  BY <1>2, FittedIdle, IdleType DEF PassFits, Granted, At
<1>4. run.phase = "" /\ run.restarts = 0 /\ run.annots = {} /\ run.conds = {}
  BY <1>1 DEF NewRun
<1>5. AttemptGeneration(run) = 0
  BY <1>1, NewRunType
<1>6. Visible!Init
  <2>1. (At("resumeStatus") /\ rec.fresh) = FALSE
    BY <1>3 DEF Granted, At
  <2>2. "Resuming" \notin run.conds /\ "PauseCheckpointReady" \notin run.conds
    BY <1>4
  <2>3. ("Resuming" \in run.conds) = FALSE /\ ("PauseCheckpointReady" \in run.conds) = FALSE
    BY <2>2
  <2>4. QED
    BY <1>4, <1>5, <2>1, <2>3, Zenon DEF Visible!Init
<1>7. QED
  BY <1>3, <1>6

\* Whatever a pass has come to, its copy says what brought it there: a cancel is
\* honoured only when the copy asks for one, a pause completed only with its proof
\* recorded, and nothing else goes on while the copy asks for either.
THEOREM PassesFit == Spec => []PassFits
BY LifecycleInit, LifecycleStep, Invariance, PTL DEF Spec

\* The operator implements the lifecycle its status promises: passes that crash,
\* conflict, overlap with requests or start from old copies are seen as steps from
\* the visible phase, or not at all (Reconcile, handleRequestedTransition).
THEOREM LifecycleImplemented == Spec => ImplementsLifecycle
<1>1. IInv /\ PassFits /\ [Next]_vars => [Visible!Next]_(Visible!vars)
  BY LifecycleStep DEF SeenStep
<1>2. QED
  BY <1>1, LifecycleInit, Invariance, PassesFit, PTL DEF Spec, ImplementsLifecycle, Visible!Spec

=============================================================================
