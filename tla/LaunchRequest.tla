---------------------------- MODULE LaunchRequest ----------------------------
(***************************************************************************)
(* What submitting a run promises, with no workers, leases or retries in   *)
(* sight: a submitted request gets at most one verdict, the verdict never  *)
(* changes, and "accepted" is said only of a run that was launched.        *)
(***************************************************************************)
CONSTANT Runs

VARIABLES
  verdict,    \* run -> where its launch request stands
  launched    \* run -> an AgentRun has been created for it

vars == <<verdict, launched>>

Verdicts == {"none", "open", "accepted", "failed", "deleted"}

Init ==
  /\ verdict = [r \in Runs |-> "none"]
  /\ launched = [r \in Runs |-> FALSE]

Submit(r) ==
  /\ verdict[r] = "none"
  /\ verdict' = [verdict EXCEPT ![r] = "open"]
  /\ UNCHANGED launched

\* Launching is not fenced: a slow worker may still do it after the verdict.
Launch(r) ==
  /\ verdict[r] # "none"
  /\ launched' = [launched EXCEPT ![r] = TRUE]
  /\ UNCHANGED verdict

Accept(r) ==
  /\ verdict[r] = "open"
  /\ launched[r]
  /\ verdict' = [verdict EXCEPT ![r] = "accepted"]
  /\ UNCHANGED launched

Fail(r) ==
  /\ verdict[r] = "open"
  /\ verdict' = [verdict EXCEPT ![r] = "failed"]
  /\ UNCHANGED launched

Delete(r) ==
  /\ verdict[r] # "none"
  /\ verdict' = [verdict EXCEPT ![r] = "deleted"]
  /\ UNCHANGED launched

Next == \E r \in Runs : Submit(r) \/ Launch(r) \/ Accept(r) \/ Fail(r) \/ Delete(r)

Spec == Init /\ [][Next]_vars

=============================================================================
