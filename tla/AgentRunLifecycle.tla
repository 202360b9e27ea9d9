-------------------------- MODULE AgentRunLifecycle --------------------------
(***************************************************************************)
(* What the operator promises to whoever reads an AgentRun's status, with  *)
(* no passes, copies, caches or conflicts in sight: the run moves from     *)
(* phase to phase in single steps, each from what is visible at that       *)
(* moment.  A request that is visible comes first, a cancel before a       *)
(* pause, and is acted upon once.                                          *)
(***************************************************************************)
EXTENDS Naturals

CONSTANT MaxRestarts

VARIABLES
  phase,       \* status.phase
  attempt,     \* attempt generation
  restarts,    \* restarts charged
  requests,    \* annotations not withdrawn yet
  recovering,  \* an attempt is replaced and its pod not seen running yet
  snapshot,    \* a pause checkpoint is recorded
  granted      \* a resume was withdrawn and not carried out yet

vars == <<phase, attempt, restarts, requests, recovering, snapshot, granted>>
status == <<attempt, restarts, recovering>>

Terminal == {"Succeeded", "Failed", "Canceled"}
Working == {"Pending", "Provisioning", "Running", "Interrupted"}
Active == Working \cup {"", "Pausing"}

Init ==
  /\ phase = "" /\ attempt = 0 /\ restarts = 0
  /\ requests = {}
  /\ recovering = FALSE /\ snapshot = FALSE /\ granted = FALSE

\* A request that arrives while a resume is carried out makes it fail.
Request(a) ==
  /\ a \notin requests
  /\ requests' = requests \cup {a}
  /\ granted' = FALSE
  /\ UNCHANGED <<phase, status, snapshot>>

Become(p) == phase' = p /\ UNCHANGED requests

\* The run goes on as long as nobody asks for something else.
Uncanceled == "cancel" \notin requests
Proceeds(from) == phase \in from /\ Uncanceled /\ "pause" \notin requests

Admit == Proceeds({""}) /\ Become("Pending") /\ UNCHANGED <<status, snapshot, granted>>

Observe ==
  /\ Proceeds(Working)
  /\ Become("Provisioning") \/ Become("Running")
  /\ UNCHANGED <<status, snapshot, granted>>

\* The replacement pod is seen running.
Recover ==
  /\ Proceeds(Working)
  /\ recovering' = FALSE
  /\ UNCHANGED <<phase, attempt, restarts, requests, snapshot, granted>>

NextAttempt(charge) == attempt' = attempt + 1 /\ restarts' = charge

\* A lost or failed pod is replaced as long as there is budget.
Retry ==
  /\ Proceeds(Working)
  /\ restarts < MaxRestarts
  /\ Become("Interrupted")
  /\ NextAttempt(restarts + 1)
  /\ recovering' = TRUE
  /\ UNCHANGED <<snapshot, granted>>

\* A lost disk is charged whatever the budget, but not during a recovery.
Restore ==
  /\ Proceeds(Working)
  /\ Become("Interrupted")
  /\ IF recovering THEN UNCHANGED <<attempt, restarts>> ELSE NextAttempt(restarts + 1)
  /\ UNCHANGED <<recovering, snapshot, granted>>

Succeed == Proceeds(Working) /\ Become("Succeeded") /\ UNCHANGED <<status, snapshot, granted>>

\* A pause fails when there is no pod left to take a snapshot of.
Fail ==
  /\ Proceeds(Working) \/ (phase = "Pausing" /\ Uncanceled)
  /\ Become("Failed")
  /\ UNCHANGED <<status, snapshot, granted>>

\* Cancel is a standing request; it is never withdrawn.
Cancel ==
  /\ phase \notin Terminal
  /\ "cancel" \in requests
  /\ Become("Canceled")
  /\ UNCHANGED <<status, snapshot, granted>>

StartPause ==
  /\ phase \in Active \ {"Pausing"}
  /\ "pause" \in requests /\ Uncanceled
  /\ Become("Pausing")
  /\ UNCHANGED <<status, snapshot, granted>>

TakeSnapshot ==
  /\ phase = "Pausing" /\ Uncanceled
  /\ snapshot' = TRUE
  /\ UNCHANGED <<phase, status, requests, granted>>

\* Pause and resume are one-shot: withdrawn before they are reported or done.
WithdrawPause ==
  /\ phase \in Active /\ Uncanceled
  /\ requests' = requests \ {"pause"}
  /\ UNCHANGED <<phase, status, snapshot, granted>>

\* The record of the snapshot outlives the pause, and the resume after it.
Pause ==
  /\ Proceeds({"Pausing"})
  /\ snapshot
  /\ Become("Paused")
  /\ UNCHANGED <<status, snapshot, granted>>

AbortPause ==
  /\ Proceeds(Active)
  /\ Become("Running")
  /\ snapshot' = FALSE
  /\ UNCHANGED <<status, granted>>

\* A failed run can be resumed although it was to be canceled.
MayResume == phase = "Failed" \/ (phase = "Paused" /\ Uncanceled)

WithdrawResume ==
  /\ MayResume
  /\ "resume" \in requests
  /\ requests' = requests \ {"resume"}
  /\ granted' = TRUE
  /\ UNCHANGED <<phase, status, snapshot>>

\* A resume from Failed starts a new budget.
Resume ==
  /\ MayResume
  /\ granted
  /\ Become("Interrupted")
  /\ NextAttempt(IF phase = "Paused" THEN restarts ELSE 0)
  /\ recovering' = TRUE /\ granted' = FALSE
  /\ UNCHANGED snapshot

\* The operator crashes between withdrawing a resume and carrying it out.
LoseResume ==
  /\ granted
  /\ granted' = FALSE
  /\ UNCHANGED <<phase, status, requests, snapshot>>

Next ==
  \/ \E a \in {"cancel", "pause", "resume"} : Request(a)
  \/ Admit \/ Observe \/ Recover \/ Retry \/ Restore \/ Succeed \/ Fail
  \/ Cancel \/ StartPause \/ TakeSnapshot \/ WithdrawPause \/ Pause \/ AbortPause
  \/ WithdrawResume \/ Resume \/ LoseResume

Spec == Init /\ [][Next]_vars

=============================================================================
