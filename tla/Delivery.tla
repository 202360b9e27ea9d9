------------------------------ MODULE Delivery ------------------------------
(***************************************************************************)
(* How a run's work becomes a branch and a pull request.                   *)
(*                                                                         *)
(* When the agent is done, finalize commits its workspace to the run       *)
(* branch, pushes the branch and opens a pull request.  Transport failures *)
(* end the pod with a retryable exit; the next pod runs the agent and      *)
(* finalize again on the same workspace, or on an older one if the disk    *)
(* was lost.  Meanwhile people push to the branch and to the base, and     *)
(* close or merge the pull request.                                        *)
(*                                                                         *)
(* A commit is a number and a branch is the set of its commits, its tip's  *)
(* ancestors: a branch is a fast-forward of another when it includes it,   *)
(* and descends from a base when it includes the base.  A tree is the      *)
(* number of the edit that made it.                                        *)
(***************************************************************************)
EXTENDS Naturals

CONSTANTS
  MaxRestarts,  \* the operator's retry budget
  MaxEdits,     \* bound: changes, commits and other git commands of the agent
  MaxFaults,    \* bound: failed calls, lost answers, crashes, lost disks
  MaxHuman      \* bound: pushes, closed and merged pull requests by people

ASSUME DeliveryAssumption ==
  MaxRestarts \in Nat /\ MaxEdits \in Nat /\ MaxFaults \in Nat /\ MaxHuman \in Nat

VARIABLES
  pc,        \* what the pod is doing, or how the run ended
  ws,        \* the workspace: local branches, HEAD, worktree, origin/<base>
  saved,     \* the newest checkpoint of the workspace
  upstream,  \* the base branch on GitHub
  remote,    \* commits of the run branch on GitHub; none: no branch
  openPR,    \* the run branch has an open pull request
  createErr, \* the class of error that PullRequests.Create returned
  restarts,  \* restarts charged
  edits, faults, human,  \* bounds left
  nextId,    \* numbers of commits and trees
  committed, \* history: commits finalize has had on the run branch
  causes     \* history: what could make a failure permanent

vars == <<pc, ws, saved, upstream, remote, openPR, createErr, restarts,
          edits, faults, human, nextId, committed, causes>>

Branches == [commits : SUBSET Nat, tree : Nat]
NoBranch == [commits |-> {}, tree |-> 0]
Workspaces == [run : Branches, local : Branches, head : {"run", "local"}, tree : Nat,
               anchor : Branches]
Causes == {"push", "closed", "rewritten", "fetched", "anchorMoved", "agentPushed",
           "rolledBack", "listLost", "forbidden"}
\* Ways to fail for good: the history was refused, or the push, or no pull request
\* could be had; the agent gave up; a git command failed; the disk was lost and
\* there was nothing to restore.
Failures == {"badStart", "refused", "noPR", "agentFailed", "uncommitted", "workspaceLost"}
Ended == Failures \cup {"succeeded", "nochanges", "exhausted"}

\* Clone: the base branch, with origin/<base> recorded as the anchor.
Cloned == [run |-> NoBranch, local |-> upstream, head |-> "local", tree |-> upstream.tree,
           anchor |-> upstream]

HeadBranch == IF ws.head = "run" THEN ws.run ELSE ws.local
\* Mutant: an agent that has committed is taken to have committed everything.
CleanIfAhead == ws.tree = HeadBranch.tree \/ HeadBranch.commits # ws.anchor.commits
\* Worktree.Status after AddGlob.
Clean == ws.tree = HeadBranch.tree
SetHead(w, b) == IF w.head = "run" THEN [w EXCEPT !.run = b] ELSE [w EXCEPT !.local = b]
Committed(b) == [commits |-> b.commits \cup {nextId}, tree |-> ws.tree]

----------------------------------------------------------------------------
(* The agent: it edits and uses git as it likes, but does not force a push. *)

Agent(w, e) ==
  /\ pc = "agent"
  /\ edits > 0
  /\ edits' = edits - 1
  /\ ws' = w
  /\ causes' = causes \cup e
  /\ UNCHANGED <<pc, saved, upstream, openPR, createErr, restarts, faults, human, committed>>

\* A new commit or tree takes the next number; git commands that stay local.
Makes(w, e) == Agent(w, e) /\ nextId' = nextId + 1 /\ UNCHANGED remote
Moves(w, e) == Agent(w, e) /\ UNCHANGED <<remote, nextId>>

Edit == Makes([ws EXCEPT !.tree = nextId], {})
AgentCommit == ~Clean /\ Makes(SetHead(ws, Committed(HeadBranch)), {})
CheckoutBase ==
  ws.head = "run" /\ Clean /\ Moves([ws EXCEPT !.head = "local", !.tree = ws.local.tree], {})

\* An amended commit keeps the base, an orphan does not; a reset goes back to
\* the base.
ReplaceHistory ==
  \/ \E kept \in {{}, ws.anchor.commits} :
       Makes(SetHead(ws, [commits |-> kept \cup {nextId}, tree |-> ws.tree]), {"rewritten"})
  \/ \E t \in {ws.tree, ws.anchor.tree} :
       Moves(SetHead([ws EXCEPT !.tree = t], ws.anchor), {"rewritten"})

\* git fetch moves origin/<base>; git pull merges it as well.
Fetched == [ws EXCEPT !.anchor = upstream]
Merged == [commits |-> HeadBranch.commits \cup upstream.commits \cup {nextId}, tree |-> nextId]
Fetch ==
  \/ Moves(Fetched, {"fetched"})
  \/ Clean /\ Makes(SetHead([Fetched EXCEPT !.tree = nextId], Merged), {"fetched"})

\* origin/<base> is a ref in the workspace like any other.
MoveAnchor == Moves([ws EXCEPT !.anchor = HeadBranch], {"anchorMoved"})

\* git push of what is checked out, to the run branch.
AgentPush ==
  /\ remote \subseteq HeadBranch.commits
  /\ Agent(ws, {"agentPushed"})
  /\ remote' = HeadBranch.commits
  /\ UNCHANGED nextId

\* RunHarness goes on to finalize, or fails with the harness.
AgentDone ==
  /\ pc = "agent"
  /\ pc' \in {"start", "agentFailed"}
  /\ UNCHANGED <<ws, saved, upstream, remote, openPR, createErr, restarts, edits, faults, human,
                 nextId, committed, causes>>

----------------------------------------------------------------------------
(* finalize.Run *)

\* commitAheadOfBase fails for a history without the recorded base.
Descends(b) == ws.anchor.commits \subseteq b.commits

Goto(label) == pc' = label
OnlyPc == UNCHANGED <<ws, saved, upstream, remote, openPR, createErr, restarts, edits, faults,
                      human, nextId, committed, causes>>

\* Mutant: the starting point is not checked before committing.
StartingPointUnchecked == TRUE
\* validateStartingPoint looks at the run branch, at HEAD if there is none.
StartingPoint == Descends(IF ws.run = NoBranch THEN HeadBranch ELSE ws.run)

ValidateStartingPoint ==
  /\ pc = "start"
  /\ Goto(IF StartingPoint THEN "branch" ELSE "badStart")
  /\ OnlyPc

\* Mutant: the run branch is made anew from HEAD.
RunBranchAnew == HeadBranch
\* A run branch left by an earlier pod is used again.
RunBranch == IF ws.run = NoBranch THEN HeadBranch ELSE ws.run

\* ensureBranch moves refs only: first the branch, then HEAD.
EnsureBranch ==
  /\ \/ /\ pc = "branch"
        /\ ws' = IF ws.head = "run" THEN ws ELSE [ws EXCEPT !.run = RunBranch]
        /\ Goto("switch")
     \/ /\ pc = "switch"
        /\ ws' = [ws EXCEPT !.head = "run"]
        /\ Goto("commit")
  /\ UNCHANGED <<saved, upstream, remote, openPR, createErr, restarts, edits, faults, human,
                 nextId, committed, causes>>

\* Mutant: a clean worktree counts as no changes.
AheadOfBaseNever == FALSE
\* branchAheadOfBase.
AheadOfBase == ws.run.commits # ws.anchor.commits

\* CommitAll, and for a clean worktree the comparison with the base.
CommitAll ==
  /\ pc = "commit"
  /\ \/ /\ ~Clean
        /\ ws' = [ws EXCEPT !.run = Committed(ws.run)]
        /\ nextId' = nextId + 1
        /\ Goto("push")
     \/ /\ Clean
        /\ Goto(IF AheadOfBase THEN "push" ELSE "nochanges")
        /\ UNCHANGED <<ws, nextId>>
  /\ committed' = committed \cup ws'.run.commits
  /\ UNCHANGED <<saved, upstream, remote, openPR, createErr, restarts, edits, faults, human,
                 causes>>

\* A git command fails: the error is not classified, and so permanent.
CommitFails ==
  /\ pc \in {"start", "branch", "switch", "commit"}
  /\ faults > 0
  /\ faults' = faults - 1
  /\ Goto("uncommitted")
  /\ UNCHANGED <<ws, saved, upstream, remote, openPR, createErr, restarts, edits, human, nextId,
                 committed, causes>>

\* The remote takes only fast-forwards.
Accepts == remote \subseteq ws.run.commits

\* classify: transport failures leave the run to the operator's retry.
TransportFailure == "dead"

\* Push, answered: done, up to date, or refused as not a fast-forward.
Push ==
  /\ pc = "push"
  /\ \/ Accepts /\ remote' = ws.run.commits /\ Goto("create")
     \/ ~Accepts /\ Goto("refused") /\ UNCHANGED remote
  /\ UNCHANGED <<ws, saved, upstream, openPR, createErr, restarts, edits, faults, human, nextId,
                 committed, causes>>

\* Push, not answered: it may have reached GitHub.
PushLost ==
  /\ pc = "push"
  /\ faults > 0
  /\ faults' = faults - 1
  /\ remote' \in {remote} \cup (IF Accepts THEN {ws.run.commits} ELSE {})
  /\ Goto(TransportFailure)
  /\ UNCHANGED <<ws, saved, upstream, openPR, createErr, restarts, edits, human, nextId,
                 committed, causes>>

\* GitHub refuses a second open pull request for the branch, and one that would
\* add nothing to the base.
Creatable == ~openPR /\ ~(remote \subseteq upstream.commits)

\* OpenPR: PullRequests.Create, answered.
CreatePR ==
  /\ pc = "create"
  /\ \/ Creatable /\ openPR' = TRUE /\ Goto("succeeded") /\ UNCHANGED createErr
     \/ ~Creatable /\ createErr' = "permanent" /\ Goto("list") /\ UNCHANGED openPR
  /\ UNCHANGED <<ws, saved, upstream, remote, restarts, edits, faults, human, nextId,
                 committed, causes>>

\* Create, not answered.
CreateLost ==
  /\ pc = "create"
  /\ faults > 0
  /\ faults' = faults - 1
  /\ openPR' \in {openPR} \cup (IF Creatable THEN {TRUE} ELSE {})
  /\ createErr' = "transient"
  /\ Goto("list")
  /\ UNCHANGED <<ws, saved, upstream, remote, restarts, edits, human, nextId, committed, causes>>

\* What Create's own error makes of the run.
ByCreateError == IF createErr = "transient" THEN TransportFailure ELSE "noPR"

\* Mutant: the open pull request is not looked for.
FoundNever == FALSE
\* findExisting: an open pull request of the branch.
Found == openPR

FindExisting ==
  /\ pc = "list"
  /\ Goto(IF Found THEN "succeeded" ELSE ByCreateError)
  /\ OnlyPc

\* The listing itself fails: OpenPR returns Create's error.
ListFails ==
  /\ pc = "list"
  /\ faults > 0
  /\ faults' = faults - 1
  /\ Goto(ByCreateError)
  /\ causes' = causes \cup (IF openPR THEN {"listLost"} ELSE {})
  /\ UNCHANGED <<ws, saved, upstream, remote, openPR, createErr, restarts, edits, human, nextId,
                 committed>>

\* 401 and 403 are permanent; after a Create they are still followed by the
\* listing.
Forbidden ==
  /\ faults > 0
  /\ faults' = faults - 1
  /\ \/ pc = "push" /\ Goto("refused") /\ UNCHANGED createErr
     \/ pc = "create" /\ Goto("list") /\ createErr' = "permanent"
  /\ causes' = causes \cup {"forbidden"}
  /\ UNCHANGED <<ws, saved, upstream, remote, openPR, restarts, edits, human, nextId, committed>>

----------------------------------------------------------------------------
(* Pods, disks and people *)

\* The pod dies under the agent or inside finalize.
Crash ==
  /\ pc \notin Ended \cup {"dead"}
  /\ faults > 0
  /\ faults' = faults - 1
  /\ Goto("dead")
  /\ UNCHANGED <<ws, saved, upstream, remote, openPR, createErr, restarts, edits, human, nextId,
                 committed, causes>>

\* The checkpointer saves the workspace.
Checkpoint ==
  /\ pc \notin Ended \cup {"dead"}
  /\ saved # {ws}
  /\ saved' = {ws}
  /\ UNCHANGED <<pc, ws, upstream, remote, openPR, createErr, restarts, edits, faults, human,
                 nextId,
                 committed, causes>>

\* The disk goes with the node.  The last checkpoint is restored, and commits that
\* were made or pushed may be gone locally; with none to restore, the run fails.
LoseDisk ==
  /\ pc = "dead"
  /\ faults > 0
  /\ faults' = faults - 1
  /\ \/ /\ saved = {}
        /\ Goto("workspaceLost")
        /\ UNCHANGED <<ws, causes>>
     \/ /\ ws' \in saved
        /\ causes' = causes \cup (IF remote \cup committed \subseteq ws'.run.commits THEN {}
                                ELSE {"rolledBack"})
        /\ UNCHANGED pc
  /\ UNCHANGED <<saved, upstream, remote, openPR, createErr, restarts, edits, human, nextId,
                 committed>>

\* The operator spends a restart, as long as it has one.
Retry ==
  /\ pc = "dead"
  /\ \/ restarts < MaxRestarts /\ restarts' = restarts + 1 /\ Goto("agent")
     \/ restarts = MaxRestarts /\ Goto("exhausted") /\ UNCHANGED restarts
  /\ UNCHANGED <<ws, saved, upstream, remote, openPR, createErr, edits, faults, human, nextId,
                 committed, causes>>

\* People while the run goes on.
Person(e) ==
  /\ pc \notin Ended
  /\ human > 0
  /\ human' = human - 1
  /\ causes' = causes \cup e
  /\ UNCHANGED <<pc, ws, saved, createErr, restarts, edits, faults, committed>>

HumanPush ==
  /\ remote # {}
  /\ Person({"push"})
  /\ remote' = remote \cup {nextId}
  /\ nextId' = nextId + 1
  /\ UNCHANGED <<upstream, openPR>>

BaseMoves ==
  /\ Person({})
  /\ upstream' = [commits |-> upstream.commits \cup {nextId}, tree |-> nextId]
  /\ nextId' = nextId + 1
  /\ UNCHANGED <<remote, openPR>>

ClosePR ==
  /\ openPR
  /\ Person({"closed"})
  /\ openPR' = FALSE
  /\ UNCHANGED <<upstream, remote, nextId>>

MergePR ==
  /\ openPR
  /\ Person({"closed"})
  /\ openPR' = FALSE
  /\ upstream' = [commits |-> upstream.commits \cup remote, tree |-> nextId]
  /\ nextId' = nextId + 1
  /\ UNCHANGED remote

----------------------------------------------------------------------------
Init ==
  /\ pc = "agent"
  /\ upstream = [commits |-> {0}, tree |-> 0]
  /\ ws = Cloned
  /\ saved = {}
  /\ remote = {}
  /\ openPR = FALSE
  /\ createErr = "none"
  /\ restarts = 0
  /\ edits = MaxEdits /\ faults = MaxFaults /\ human = MaxHuman
  /\ nextId = 1
  /\ committed = {} /\ causes = {}

Next ==
  \/ Edit \/ AgentCommit \/ CheckoutBase \/ ReplaceHistory \/ Fetch \/ MoveAnchor \/ AgentPush
  \/ AgentDone
  \/ ValidateStartingPoint \/ EnsureBranch \/ CommitAll \/ CommitFails
  \/ Push \/ PushLost \/ CreatePR \/ CreateLost \/ FindExisting \/ ListFails \/ Forbidden
  \/ Crash \/ Checkpoint \/ LoseDisk \/ Retry
  \/ HumanPush \/ BaseMoves \/ ClosePR \/ MergePR

Spec == Init /\ [][Next]_vars

----------------------------------------------------------------------------
TypeOK ==
  /\ pc \in {"agent", "start", "branch", "switch", "commit", "push", "create", "list", "dead"}
           \cup Ended
  /\ ws \in Workspaces
  /\ saved \subseteq Workspaces
  /\ upstream \in Branches /\ remote \subseteq Nat
  /\ openPR \in BOOLEAN
  /\ createErr \in {"none", "transient", "permanent"}
  /\ restarts \in 0 .. MaxRestarts
  /\ edits \in Nat /\ faults \in Nat /\ human \in Nat /\ nextId \in Nat
  /\ committed \subseteq Nat /\ causes \subseteq Causes

Because(e) == causes \cap e # {}

\* A run that reports a pull request has delivered: GitHub has every commit of
\* the workspace, the workspace has nothing uncommitted, and the pull request is
\* open unless a person closed it, however many pods it took.
SucceededIsDelivered ==
  pc = "succeeded" => /\ ws.run.commits \subseteq remote
                      /\ ws.tree = ws.run.tree
                      /\ openPR \/ Because({"closed"})

\* gitwork.go:76-81: a later pod goes on from the branch an earlier one left.
\* Whatever a finalize had on the run branch is in what is delivered, also when
\* the agent of the later pod went back to the base branch; only the agent
\* replacing the branch, or the disk, can take it away.
EarlierWorkIsDelivered ==
  pc = "succeeded" => committed \subseteq remote \/ Because({"rewritten", "rolledBack"})

\* finalize.go:57-61: no changes is said only of a workspace with nothing that
\* the base branch does not have, not of one whose agent committed by itself
\* (unless it moved origin/<base>), and not when an earlier pod has already
\* published a branch, unless its commits were lost, taken back or fetched.
NoChangesIsTrue ==
  pc = "nochanges" =>
    /\ ws.tree = ws.run.tree
    /\ ws.run.commits \subseteq upstream.commits \/ Because({"anchorMoved"})
    /\ remote = {} \/ Because({"rolledBack", "rewritten", "fetched", "anchorMoved", "agentPushed"})

\* finalize.go:47-49: a history that does not descend from the base is never
\* published, also not under a commit of Wren's on top of it, unless the agent
\* pushed it or moved origin/<base>.
PublishedDescendsFromBase ==
  remote # {} => 0 \in remote \/ Because({"anchorMoved", "agentPushed"})

\* What may make each of the refusals permanent.
Excuses == [badStart |-> {"rewritten", "fetched", "anchorMoved"},
            refused |-> {"push", "rewritten", "rolledBack", "agentPushed", "forbidden"},
            noPR |-> {"closed", "listLost", "forbidden", "anchorMoved"}]

\* retry.go:18-28: transport failures cost restarts, never the run.  The history is
\* refused only after the agent replaced it or moved origin/<base>; a push only
\* after someone else pushed, commits were lost with the disk, or access was
\* refused; and a pull request cannot be had only after a person closed or merged
\* it, access was refused, origin/<base> was moved, or the listing after a refused
\* Create failed.
FailsOnlyForCause == pc \in DOMAIN Excuses => Because(Excuses[pc])

=============================================================================
