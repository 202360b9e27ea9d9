------------------------ MODULE MCAgentRunOperator ------------------------
(***************************************************************************)
(* The mixes of user requests, losses and crashes explored per question.   *)
(* Every mix is explored in all its interleavings with the operator's      *)
(* steps; events a mix does not name do not happen in it.                  *)
(***************************************************************************)
EXTENDS AgentRunOperator

Only(f) == [e \in Events |-> IF e \in DOMAIN f THEN f[e] ELSE 0]

\* Pause, resume and cancel against pod losses, exec failures and crashes.
Lifecycle ==
  {Only([pause |-> 1, resume |-> 1, podLoss |-> 1, crash |-> 1]),
   Only([pause |-> 1, resume |-> 1, cancel |-> 1]),
   Only([pause |-> 1, exec |-> 1, cancel |-> 1, crash |-> 1])}

\* Losses of pods, nodes and disks, alone and around a pause.
Losses ==
  {Only([podLoss |-> 1, nodeLoss |-> 1, exit |-> 1]),
   Only([pause |-> 1, resume |-> 1, nodeLoss |-> 1, crash |-> 1]),
   Only([pvcLoss |-> 1, resume |-> 1]),
   Only([pvcLoss |-> 1, exit |-> 1]),
   Only([forbid |-> 1, resume |-> 1, podLoss |-> 1])}

Safety == Lifecycle \cup Losses

\* Small mixes for the temporal properties.
Progress ==
  {Only([pause |-> 1, cancel |-> 1, exec |-> 1]),
   Only([pause |-> 1, resume |-> 1, podLoss |-> 1]),
   Only([podLoss |-> 1, nodeLoss |-> 1])}

\* One request of each kind while every informer lags on its own.
Cached == {Only([cancel |-> 1]), Only([pause |-> 1])}

Undisturbed == {Only(<<>>)}
NodeLost == {Only([nodeLoss |-> 1])}
PausedTwice == {Only([pause |-> 2, resume |-> 1])}

===========================================================================
