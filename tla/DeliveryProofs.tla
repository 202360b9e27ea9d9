--------------------------- MODULE DeliveryProofs ---------------------------
(***************************************************************************)
(* Proofs about Delivery, for every retry budget and every number of       *)
(* edits, faults and interventions.                                        *)
(*                                                                         *)
(* What a run reports at its end rests on what finalize has established    *)
(* step by step, and on nobody undoing it: from "switch" on the run branch *)
(* descends from the recorded base, from "push" on it holds the worktree   *)
(* and goes beyond the base, from "create" on GitHub has it.  What each    *)
(* workspace, also a saved one, can be relied on for depends on what has   *)
(* happened so far, and that only grows.                                   *)
(***************************************************************************)
EXTENDS Delivery, TLAPS

\* Commits beyond the first base, and a workspace whose branches all have it.
Beyond(S) == \E n \in S : n # 0
Rooted(w) ==
  /\ 0 \in w.local.commits
  /\ w.run = NoBranch \/ 0 \in w.run.commits
  /\ w.head = "run" => 0 \in w.run.commits

\* Numbers already used.
Below(n) == {k \in Nat : k < n}

\* A branch without commits of its own is within the recorded base.
OwnWork(b, a, up) == b.commits \subseteq a.commits \/ ~(b.commits \subseteq up.commits)

\* What holds of a workspace w when the base branch is up, the next number n and
\* what has happened c.
Sane(w, up, n, c) ==
  /\ w.run.commits \subseteq Below(n) /\ w.local.commits \subseteq Below(n)
  /\ w.anchor.commits \subseteq Below(n)
  /\ "anchorMoved" \notin c => 0 \in w.anchor.commits /\ w.anchor.commits \subseteq up.commits
  /\ "anchorMoved" \notin c /\ "fetched" \notin c => w.anchor.commits = {0}
  /\ "anchorMoved" \notin c /\ "fetched" \notin c /\ "rewritten" \notin c => Rooted(w)
  /\ "anchorMoved" \notin c /\ "closed" \notin c =>
       OwnWork(w.run, w.anchor, up) /\ OwnWork(w.local, w.anchor, up)

World == /\ 0 \in upstream.commits /\ upstream.commits \subseteq Below(nextId)
         /\ remote \subseteq Below(nextId) /\ nextId # 0
Workspace == Sane(ws, upstream, nextId, causes)
Saved == \A w \in saved : Sane(w, upstream, nextId, causes)

\* What finalize has established when it has come as far as pc.
Established ==
  /\ pc = "branch" => ws.anchor.commits \subseteq RunBranch.commits
  /\ pc \in {"switch", "commit", "push"} => ws.anchor.commits \subseteq ws.run.commits
  /\ pc = "commit" => ws.head = "run"
  /\ pc \in {"push", "create", "list", "succeeded", "nochanges"} => ws.tree = ws.run.tree
  /\ pc = "nochanges" => ws.run.commits = ws.anchor.commits
  /\ pc \in {"create", "list", "succeeded"} => ws.run.commits \subseteq remote
  /\ pc = "succeeded" => openPR \/ "closed" \in causes
  /\ pc \in {"push", "create", "list"} /\ "closed" \notin causes /\ "anchorMoved" \notin causes =>
       ~(ws.run.commits \subseteq upstream.commits)
  /\ /\ pc = "list" /\ createErr # "transient"
     /\ "closed" \notin causes /\ "anchorMoved" \notin causes /\ "forbidden" \notin causes
     => openPR

\* What the run branch of the workspace still has of what was committed or pushed.
Kept ==
  /\ "rewritten" \notin causes /\ "rolledBack" \notin causes => committed \subseteq ws.run.commits
  /\ /\ "rewritten" \notin causes /\ "rolledBack" \notin causes
     /\ "push" \notin causes /\ "agentPushed" \notin causes
     => remote \subseteq ws.run.commits
  /\ /\ "rewritten" \notin causes /\ "rolledBack" \notin causes /\ "fetched" \notin causes
     /\ "anchorMoved" \notin causes /\ "agentPushed" \notin causes
     => /\ remote # {} => Beyond(remote)
        /\ remote # {} \/ pc = "push" => Beyond(ws.run.commits)

Inv == /\ TypeOK /\ World /\ Workspace /\ Saved /\ Established /\ Kept
       /\ PublishedDescendsFromBase /\ FailsOnlyForCause

-----------------------------------------------------------------------------
(* Facts about workspaces.                                                 *)

\* The branch that is checked out, and what a step may put in its place.
LEMMA HeadType ==
  ASSUME TypeOK
  PROVE  /\ HeadBranch \in Branches
         /\ HeadBranch = IF ws.head = "run" THEN ws.run ELSE ws.local
         /\ Committed(HeadBranch) \in Branches
         /\ Committed(HeadBranch).commits = HeadBranch.commits \cup {nextId}
         /\ Committed(ws.run) \in Branches
         /\ Committed(ws.run).commits = ws.run.commits \cup {nextId}
         /\ Committed(ws.run).tree = ws.tree
BY DEF TypeOK, HeadBranch, Committed, Workspaces, Branches

\* Putting another branch where HEAD is changes that branch only.
LEMMA SetHeadType ==
  ASSUME NEW w \in Workspaces, NEW b \in Branches
  PROVE  /\ SetHead(w, b) \in Workspaces
         /\ SetHead(w, b).anchor = w.anchor /\ SetHead(w, b).head = w.head
         /\ SetHead(w, b).tree = w.tree
         /\ w.head = "run" => SetHead(w, b).run = b /\ SetHead(w, b).local = w.local
         /\ w.head # "run" => SetHead(w, b).run = w.run /\ SetHead(w, b).local = b
BY DEF SetHead, Workspaces

\* The run branch finalize goes on from has everything that was on it.
LEMMA RunBranchType ==
  ASSUME TypeOK
  PROVE  /\ RunBranch \in Branches
         /\ RunBranch = HeadBranch \/ RunBranch = ws.run
         /\ ws.run.commits \subseteq RunBranch.commits
         /\ ws.head = "run" => RunBranch = ws.run
<1>1. HeadBranch \in Branches /\ HeadBranch = (IF ws.head = "run" THEN ws.run ELSE ws.local)
  BY HeadType
<1>2. ws.run \in Branches
  BY DEF TypeOK, Workspaces
<1> QED BY <1>1, <1>2 DEF RunBranch, NoBranch

\* Workspaces stay sane while the base branch gets new commits, numbers are used
\* and things happen.
LEMMA SaneStays ==
  ASSUME NEW w \in Workspaces, NEW up \in Branches, NEW up2 \in Branches, NEW n \in Nat,
         NEW n2 \in Nat, NEW c, NEW c2, Sane(w, up, n, c), n <= n2, c \subseteq c2,
         up.commits \subseteq up2.commits,
         up2.commits \subseteq up.commits \cup {n} \/ "closed" \in c2
  PROVE  Sane(w, up2, n2, c2)
<1>1. Below(n) \subseteq Below(n2) /\ n \notin Below(n)
  BY DEF Below
<1>2. w.run.commits \subseteq Below(n2) /\ w.local.commits \subseteq Below(n2)
      /\ w.anchor.commits \subseteq Below(n2)
  BY <1>1 DEF Sane
<1>3. "anchorMoved" \notin c2 => 0 \in w.anchor.commits /\ w.anchor.commits \subseteq up2.commits
  BY DEF Sane
<1>4. "anchorMoved" \notin c2 /\ "fetched" \notin c2 => w.anchor.commits = {0}
  BY DEF Sane
<1>5. "anchorMoved" \notin c2 /\ "fetched" \notin c2 /\ "rewritten" \notin c2 => Rooted(w)
  BY DEF Sane
<1>6. ASSUME "anchorMoved" \notin c2, "closed" \notin c2,
             NEW b, b.commits \subseteq Below(n), OwnWork(b, w.anchor, up)
      PROVE  OwnWork(b, w.anchor, up2)
  <2>1. up2.commits \subseteq up.commits \cup {n} /\ n \notin b.commits
    BY <1>1, <1>6
  <2> QED BY <1>6, <2>1 DEF OwnWork
<1>7. "anchorMoved" \notin c2 /\ "closed" \notin c2 =>
        OwnWork(w.run, w.anchor, up2) /\ OwnWork(w.local, w.anchor, up2)
  BY <1>6 DEF Sane
<1> QED BY <1>2, <1>3, <1>4, <1>5, <1>7 DEF Sane

\* The same for the workspace and its checkpoint in a step that leaves the base
\* branch alone.
LEMMA QuietWorld ==
  ASSUME Inv, nextId' \in Nat, nextId <= nextId', causes \subseteq causes', UNCHANGED upstream
  PROVE  /\ \A w \in Workspaces : Sane(w, upstream, nextId, causes) =>
                                  Sane(w, upstream', nextId', causes')
         /\ Below(nextId) \subseteq Below(nextId')
         /\ 0 \in upstream'.commits /\ upstream'.commits \subseteq Below(nextId') /\ nextId' # 0
<1>1. upstream \in Branches /\ nextId \in Nat
  BY DEF Inv, TypeOK
<1>2. Below(nextId) \subseteq Below(nextId')
  BY <1>1 DEF Below
<1>3. \A w \in Workspaces : Sane(w, upstream, nextId, causes) => Sane(w, upstream', nextId', causes')
  BY <1>1, SaneStays
<1> QED BY <1>1, <1>2, <1>3 DEF Inv, World

\* At first there is a clone of the base and nothing else.
LEMMA InitInv == Init => Inv
<1> SUFFICES ASSUME Init PROVE Inv
  OBVIOUS
<1>1. /\ upstream = [commits |-> {0}, tree |-> 0] /\ upstream \in Branches
      /\ ws = Cloned /\ nextId = 1 /\ pc = "agent" /\ saved = {} /\ remote = {} /\ causes = {}
      /\ committed = {}
  BY DEF Init, Branches
<1>2. /\ Cloned \in Workspaces /\ Cloned.run = NoBranch /\ Cloned.local = upstream
      /\ Cloned.head = "local" /\ Cloned.anchor = upstream
  BY <1>1 DEF Cloned, Workspaces, Branches, NoBranch
<1>3. TypeOK
  <2>1. openPR \in BOOLEAN
    BY DEF Init
  <2>2. restarts \in 0 .. MaxRestarts
    BY DeliveryAssumption DEF Init
  <2>3. edits \in Nat /\ faults \in Nat /\ human \in Nat /\ createErr = "none"
    BY DeliveryAssumption DEF Init
  <2> QED BY <1>1, <1>2, <2>1, <2>2, <2>3 DEF TypeOK
<1>4. World
  BY <1>1 DEF World, Below
<1>5. Workspace
  <2>1. NoBranch.commits = {} /\ upstream.commits = {0} /\ 0 \in Below(1)
    BY <1>1 DEF NoBranch, Below
  <2> QED BY <1>1, <1>2, <2>1 DEF Workspace, Sane, Rooted, OwnWork
<1> QED BY <1>1, <1>3, <1>4, <1>5 DEF Inv, Saved, Established, Kept, PublishedDescendsFromBase,
           FailsOnlyForCause, Excuses

-----------------------------------------------------------------------------
(* The agent.                                                              *)

\* What has to be shown of a step of the agent: the workspace it leaves is sane,
\* its run branch loses nothing unless the step is a cause.
LEMMA AgentInv ==
  ASSUME Inv, NEW w \in Workspaces, NEW e \in SUBSET Causes, Agent(w, e), TypeOK',
         nextId <= nextId', Sane(w, upstream', nextId', causes'),
         "rewritten" \in e \/ ws.run.commits \subseteq w.run.commits,
         remote' = remote \/ ("agentPushed" \in e /\ remote' \subseteq Below(nextId'))
  PROVE  Inv'
<1>1. /\ ws' = w /\ pc = "agent" /\ pc' = pc /\ causes' = causes \cup e
      /\ UNCHANGED <<saved, upstream, openPR, createErr, committed>>
  BY DEF Agent
<1>2. nextId' \in Nat /\ saved \subseteq Workspaces
  BY DEF TypeOK, Inv
<1>3. /\ \A v \in Workspaces : Sane(v, upstream, nextId, causes) =>
                               Sane(v, upstream', nextId', causes')
      /\ Below(nextId) \subseteq Below(nextId')
      /\ 0 \in upstream'.commits /\ upstream'.commits \subseteq Below(nextId') /\ nextId' # 0
  BY <1>1, <1>2, QuietWorld
<1>4. World' /\ Workspace' /\ Saved'
  BY <1>1, <1>2, <1>3 DEF World, Workspace, Saved, Inv
<1>5. Established' /\ FailsOnlyForCause'
  BY <1>1 DEF Established, FailsOnlyForCause, Excuses
<1>6. Kept'
  <2>1. Beyond(ws.run.commits) => Beyond(w.run.commits) \/ "rewritten" \in e
    BY DEF Beyond
  <2> QED BY <1>1, <2>1 DEF Kept, Inv
<1>7. PublishedDescendsFromBase'
  BY <1>1 DEF PublishedDescendsFromBase, Because, Inv
<1> QED BY <1>4, <1>5, <1>6, <1>7 DEF Inv

\* The types after a step of the agent.
LEMMA AgentType ==
  ASSUME TypeOK, NEW w \in Workspaces, NEW e \in SUBSET Causes, Makes(w, e) \/ Moves(w, e)
  PROVE  /\ TypeOK' /\ Agent(w, e) /\ remote' = remote /\ upstream' = upstream
         /\ causes' = causes \cup e /\ nextId <= nextId' /\ nextId \in Nat
         /\ Makes(w, e) => nextId' = nextId + 1
         /\ Moves(w, e) => nextId' = nextId
<1>1. Agent(w, e) /\ remote' = remote /\ (nextId' = nextId \/ nextId' = nextId + 1) /\ nextId \in Nat
  BY DEF Makes, Moves, TypeOK
<1>2. nextId' \in Nat /\ nextId <= nextId' /\ causes' = causes \cup e /\ upstream' = upstream
  BY <1>1 DEF Agent
<1>3. edits' \in Nat
  BY <1>1 DEF Agent, TypeOK
<1>4. TypeOK'
  BY <1>1, <1>2, <1>3 DEF TypeOK, Agent
<1> QED BY <1>1, <1>2, <1>4 DEF Makes, Moves

\* The agent edits, or goes back to its base branch.
LEMMA EditInv == ASSUME Inv, Edit \/ CheckoutBase PROVE Inv'
<1>0. TypeOK /\ ws \in Workspaces /\ nextId \in Nat /\ {} \in SUBSET Causes
  BY DEF Inv, TypeOK
<1>1. PICK w \in Workspaces : /\ Makes(w, {}) \/ Moves(w, {})
                              /\ w.run = ws.run /\ w.local = ws.local /\ w.anchor = ws.anchor
                              /\ w.head = ws.head \/ w.head = "local"
  <2>1. CASE Edit
    <3> DEFINE v == [ws EXCEPT !.tree = nextId]
    <3>1. /\ v \in Workspaces /\ v.run = ws.run /\ v.local = ws.local /\ v.anchor = ws.anchor
          /\ v.head = ws.head
      BY <1>0 DEF Workspaces
    <3>2. Makes(v, {})
      BY <2>1 DEF Edit
    <3> QED BY <3>1, <3>2
  <2>2. CASE CheckoutBase
    <3> DEFINE v == [ws EXCEPT !.head = "local", !.tree = ws.local.tree]
    <3>1. /\ v \in Workspaces /\ v.run = ws.run /\ v.local = ws.local /\ v.anchor = ws.anchor
          /\ v.head = "local"
      BY <1>0 DEF Workspaces, Branches
    <3>2. Moves(v, {})
      BY <2>2 DEF CheckoutBase
    <3> QED BY <3>1, <3>2
  <2> QED BY <2>1, <2>2
<1>2. TypeOK' /\ Agent(w, {}) /\ remote' = remote /\ upstream' = upstream /\ causes' = causes
      /\ nextId <= nextId' /\ nextId' \in Nat
  BY <1>0, <1>1, AgentType DEF TypeOK
<1>3. Sane(w, upstream, nextId, causes)
  BY <1>1 DEF Inv, Workspace, Sane, Rooted
<1>4. Sane(w, upstream', nextId', causes')
  BY <1>2, <1>3, QuietWorld
<1> QED BY <1>0, <1>1, <1>2, <1>4, AgentInv

\* A branch with a new commit on HEAD, in the place of HEAD's.
LEMMA NewHead ==
  ASSUME Inv, NEW v \in Workspaces, v.run = ws.run, v.local = ws.local, v.head = ws.head,
         NEW a \in Branches, v.anchor = a, NEW b \in Branches, NEW e \in SUBSET Causes,
         Makes(SetHead(v, b), e), nextId \in b.commits, b.commits \subseteq Below(nextId + 1),
         a = ws.anchor \/ (a = upstream /\ "fetched" \in e),
         \/ "rewritten" \in e
         \/ HeadBranch.commits \subseteq b.commits
  PROVE  Inv'
<1> DEFINE w == SetHead(v, b)
<1>0. TypeOK /\ nextId \in Nat /\ upstream \in Branches
  BY DEF Inv, TypeOK
<1>1. /\ w \in Workspaces /\ w.anchor = a /\ w.head = ws.head
      /\ ws.head = "run" => w.run = b /\ w.local = ws.local
      /\ ws.head # "run" => w.run = ws.run /\ w.local = b
  BY SetHeadType
<1>2. Makes(w, e)
  OBVIOUS
<1> HIDE DEF w
<1>3. /\ TypeOK' /\ Agent(w, e) /\ remote' = remote /\ upstream' = upstream
      /\ causes' = causes \cup e /\ nextId <= nextId' /\ nextId' = nextId + 1
  BY <1>0, <1>1, <1>2, AgentType
<1>4. HeadBranch = IF ws.head = "run" THEN ws.run ELSE ws.local
  BY <1>0, HeadType
<1>5. Sane(ws, upstream', nextId', causes')
  BY <1>0, <1>3, QuietWorld DEF Inv, Workspace, TypeOK
<1>6. /\ upstream.commits \subseteq Below(nextId) /\ 0 \in upstream.commits
      /\ nextId \notin Below(nextId) /\ Below(nextId) \subseteq Below(nextId')
  BY <1>0, <1>3 DEF Inv, World, Below
<1>7. ~(b.commits \subseteq upstream'.commits)
  BY <1>3, <1>6
<1>8. Sane(w, upstream', nextId', causes')
  <2>1. w.run.commits \subseteq Below(nextId') /\ w.local.commits \subseteq Below(nextId')
    BY <1>1, <1>3, <1>5 DEF Sane
  <2>2. a.commits \subseteq Below(nextId')
    BY <1>3, <1>5, <1>6 DEF Sane
  <2>3. "anchorMoved" \notin causes' => 0 \in a.commits /\ a.commits \subseteq upstream'.commits
    BY <1>3, <1>5, <1>6 DEF Sane
  <2>4. "anchorMoved" \notin causes' /\ "fetched" \notin causes' => a.commits = {0}
    BY <1>3, <1>5 DEF Sane
  <2>5. ASSUME "anchorMoved" \notin causes', "fetched" \notin causes', "rewritten" \notin causes'
        PROVE  Rooted(w)
    <3>1. HeadBranch.commits \subseteq b.commits /\ Rooted(ws)
      BY <1>3, <1>5, <2>5 DEF Sane
    <3> QED BY <1>1, <1>4, <3>1 DEF Rooted
  <2>6. ASSUME "anchorMoved" \notin causes', "closed" \notin causes'
        PROVE  OwnWork(w.run, a, upstream') /\ OwnWork(w.local, a, upstream')
    <3>1. ws.anchor.commits \subseteq a.commits
      BY <1>3, <1>5, <2>6 DEF Sane
    <3>2. OwnWork(ws.run, ws.anchor, upstream') /\ OwnWork(ws.local, ws.anchor, upstream')
      BY <1>5, <2>6 DEF Sane
    <3> QED BY <1>1, <1>7, <3>1, <3>2 DEF OwnWork
  <2> QED BY <1>1, <2>1, <2>2, <2>3, <2>4, <2>5, <2>6 DEF Sane
<1>9. "rewritten" \in e \/ ws.run.commits \subseteq w.run.commits
  BY <1>1, <1>4
<1> QED BY <1>1, <1>3, <1>8, <1>9, AgentInv

\* The agent commits.
LEMMA AgentCommitInv == ASSUME Inv, AgentCommit PROVE Inv'
<1>0. TypeOK /\ ws \in Workspaces /\ ws.anchor \in Branches /\ {} \in SUBSET Causes /\ nextId \in Nat
  BY DEF Inv, TypeOK, Workspaces
<1> DEFINE b == Committed(HeadBranch)
<1>1. b \in Branches /\ b.commits = HeadBranch.commits \cup {nextId}
      /\ HeadBranch = IF ws.head = "run" THEN ws.run ELSE ws.local
  BY <1>0, HeadType
<1>2. Makes(SetHead(ws, b), {})
  BY DEF AgentCommit
<1> HIDE DEF b
<1>3. b.commits \subseteq Below(nextId + 1)
  BY <1>0, <1>1 DEF Inv, Workspace, Sane, Below
<1> QED BY <1>0, <1>1, <1>2, <1>3, NewHead

\* The agent amends, starts over, or resets to the base.
LEMMA ReplaceHistoryInv == ASSUME Inv, ReplaceHistory PROVE Inv'
<1>0. TypeOK /\ ws \in Workspaces /\ ws.anchor \in Branches /\ nextId \in Nat
      /\ {"rewritten"} \in SUBSET Causes
  BY DEF Inv, TypeOK, Workspaces, Causes
<1>1. ASSUME NEW kept \in {{}, ws.anchor.commits},
             Makes(SetHead(ws, [commits |-> kept \cup {nextId}, tree |-> ws.tree]), {"rewritten"})
      PROVE  Inv'
  <2> DEFINE b == [commits |-> kept \cup {nextId}, tree |-> ws.tree]
  <2>1. b \in Branches /\ b.commits = kept \cup {nextId}
    BY <1>0 DEF Workspaces, Branches
  <2>2. Makes(SetHead(ws, b), {"rewritten"})
    BY <1>1
  <2> HIDE DEF b
  <2>3. b.commits \subseteq Below(nextId + 1)
    BY <1>0, <2>1 DEF Inv, Workspace, Sane, Below
  <2> QED BY <1>0, <2>1, <2>2, <2>3, NewHead
<1>2. ASSUME NEW t \in {ws.tree, ws.anchor.tree},
             Moves(SetHead([ws EXCEPT !.tree = t], ws.anchor), {"rewritten"})
      PROVE  Inv'
  <2> DEFINE v == [ws EXCEPT !.tree = t]
             w == SetHead(v, ws.anchor)
  <2>1. /\ v \in Workspaces /\ v.run = ws.run /\ v.local = ws.local /\ v.head = ws.head
        /\ v.anchor = ws.anchor
    BY <1>0 DEF Workspaces, Branches
  <2>2. Moves(w, {"rewritten"})
    BY <1>2
  <2> HIDE DEF v
  <2>3. /\ w \in Workspaces /\ w.anchor = ws.anchor /\ w.head = ws.head
        /\ w.run \in {ws.run, ws.anchor} /\ w.local \in {ws.local, ws.anchor}
    BY <1>0, <2>1, SetHeadType
  <2> HIDE DEF w
  <2>4. /\ TypeOK' /\ Agent(w, {"rewritten"}) /\ remote' = remote /\ upstream' = upstream
        /\ causes' = causes \cup {"rewritten"} /\ nextId <= nextId' /\ nextId' \in Nat
    BY <1>0, <2>2, <2>3, AgentType DEF TypeOK
  <2>5. Sane(ws, upstream', nextId', causes')
    BY <1>0, <2>4, QuietWorld DEF Inv, Workspace
  <2>6. Sane(w, upstream', nextId', causes')
    BY <2>3, <2>4, <2>5 DEF Sane, OwnWork
  <2> QED BY <1>0, <2>3, <2>4, <2>6, AgentInv
<1> QED BY <1>1, <1>2 DEF ReplaceHistory

\* The agent fetches the base branch, and may merge it.
LEMMA FetchInv == ASSUME Inv, Fetch PROVE Inv'
<1>0. /\ TypeOK /\ ws \in Workspaces /\ upstream \in Branches /\ nextId \in Nat
      /\ {"fetched"} \in SUBSET Causes
  BY DEF Inv, TypeOK, Workspaces, Causes
<1>1. /\ Fetched \in Workspaces /\ Fetched.run = ws.run /\ Fetched.local = ws.local
      /\ Fetched.head = ws.head /\ Fetched.anchor = upstream
  BY <1>0 DEF Fetched, Workspaces
<1>2. CASE Moves(Fetched, {"fetched"})
  <2>1. /\ TypeOK' /\ Agent(Fetched, {"fetched"}) /\ remote' = remote /\ upstream' = upstream
        /\ causes' = causes \cup {"fetched"} /\ nextId <= nextId' /\ nextId' \in Nat
    BY <1>0, <1>1, <1>2, AgentType DEF TypeOK
  <2>2. Sane(ws, upstream', nextId', causes')
    BY <1>0, <2>1, QuietWorld DEF Inv, Workspace
  <2>3. 0 \in upstream'.commits /\ upstream'.commits \subseteq Below(nextId')
    BY <2>1, QuietWorld
  <2>4. Sane(Fetched, upstream', nextId', causes')
    BY <1>1, <2>1, <2>2, <2>3 DEF Sane, OwnWork
  <2> QED BY <1>0, <1>1, <2>1, <2>4, AgentInv
<1>3. CASE Makes(SetHead([Fetched EXCEPT !.tree = nextId], Merged), {"fetched"})
  <2> DEFINE v == [Fetched EXCEPT !.tree = nextId]
  <2>1. /\ v \in Workspaces /\ v.run = ws.run /\ v.local = ws.local /\ v.head = ws.head
        /\ v.anchor = upstream
    BY <1>0, <1>1 DEF Workspaces
  <2>2. Makes(SetHead(v, Merged), {"fetched"})
    BY <1>3
  <2> HIDE DEF v
  <2>3. HeadBranch \in Branches /\ HeadBranch = IF ws.head = "run" THEN ws.run ELSE ws.local
    BY <1>0, HeadType
  <2>4. Merged \in Branches /\ Merged.commits = HeadBranch.commits \cup upstream.commits \cup {nextId}
    BY <1>0, <2>3 DEF Merged, Branches
  <2>5. Merged.commits \subseteq Below(nextId + 1)
    BY <1>0, <2>3, <2>4 DEF Inv, World, Workspace, Sane, Below
  <2> QED BY <1>0, <2>1, <2>2, <2>4, <2>5, NewHead
<1> QED BY <1>2, <1>3 DEF Fetch

\* The agent moves origin/<base>.
LEMMA MoveAnchorInv == ASSUME Inv, MoveAnchor PROVE Inv'
<1>0. TypeOK /\ ws \in Workspaces /\ nextId \in Nat /\ {"anchorMoved"} \in SUBSET Causes
  BY DEF Inv, TypeOK, Workspaces, Causes
<1> DEFINE w == [ws EXCEPT !.anchor = HeadBranch]
<1>1. HeadBranch \in Branches /\ HeadBranch = IF ws.head = "run" THEN ws.run ELSE ws.local
  BY <1>0, HeadType
<1>2. w \in Workspaces /\ w.run = ws.run /\ w.local = ws.local /\ w.anchor = HeadBranch
  BY <1>0, <1>1 DEF Workspaces
<1>3. Moves(w, {"anchorMoved"})
  BY DEF MoveAnchor
<1> HIDE DEF w
<1>4. /\ TypeOK' /\ Agent(w, {"anchorMoved"}) /\ remote' = remote /\ upstream' = upstream
      /\ causes' = causes \cup {"anchorMoved"} /\ nextId <= nextId' /\ nextId' \in Nat
  BY <1>0, <1>2, <1>3, AgentType DEF TypeOK
<1>5. Sane(ws, upstream', nextId', causes')
  BY <1>0, <1>4, QuietWorld DEF Inv, Workspace
<1>6. Sane(w, upstream', nextId', causes')
  BY <1>1, <1>2, <1>4, <1>5 DEF Sane
<1> QED BY <1>0, <1>2, <1>4, <1>6, AgentInv

\* The agent pushes what it has checked out.
LEMMA AgentPushInv == ASSUME Inv, AgentPush PROVE Inv'
<1>0. /\ TypeOK /\ ws \in Workspaces /\ nextId \in Nat /\ {"agentPushed"} \in SUBSET Causes
      /\ HeadBranch \in Branches /\ HeadBranch = IF ws.head = "run" THEN ws.run ELSE ws.local
  BY HeadType DEF Inv, TypeOK, Causes
<1>1. Agent(ws, {"agentPushed"}) /\ remote' = HeadBranch.commits /\ nextId' = nextId
  BY DEF AgentPush
<1>2. causes' = causes \cup {"agentPushed"} /\ upstream' = upstream /\ edits' \in Nat
  BY <1>0, <1>1 DEF Agent, TypeOK
<1>3. TypeOK'
  BY <1>0, <1>1, <1>2 DEF TypeOK, Agent, Branches
<1>4. Sane(ws, upstream', nextId', causes')
  BY <1>0, <1>1, <1>2, QuietWorld DEF Inv, Workspace
<1>5. remote' \subseteq Below(nextId')
  BY <1>0, <1>1, <1>4 DEF Sane
<1> QED BY <1>0, <1>1, <1>3, <1>4, <1>5, AgentInv

-----------------------------------------------------------------------------
(* finalize.                                                               *)

\* A step that leaves the base branch and the checkpoint alone.
LEMMA StepWorld ==
  ASSUME Inv, TypeOK', UNCHANGED <<upstream, saved>>, nextId <= nextId', causes \subseteq causes',
         remote' \subseteq Below(nextId'), Sane(ws', upstream', nextId', causes')
  PROVE  World' /\ Workspace' /\ Saved'
<1>1. nextId' \in Nat /\ saved \subseteq Workspaces
  BY DEF TypeOK, Inv
<1>2. /\ \A v \in Workspaces : Sane(v, upstream, nextId, causes) =>
                               Sane(v, upstream', nextId', causes')
      /\ 0 \in upstream'.commits /\ upstream'.commits \subseteq Below(nextId') /\ nextId' # 0
  BY <1>1, QuietWorld
<1> QED BY <1>1, <1>2 DEF World, Workspace, Saved, Inv

\* A step that leaves the branches alone as well, and does not reach the push.
LEMMA Quiet ==
  ASSUME Inv, TypeOK', UNCHANGED <<ws, upstream, saved, remote, nextId, committed>>,
         causes \subseteq causes', pc' # "push", Established', FailsOnlyForCause'
  PROVE  Inv'
<1>1. ws \in Workspaces /\ nextId \in Nat
  BY DEF Inv, TypeOK
<1>2. Sane(ws', upstream', nextId', causes') /\ remote' \subseteq Below(nextId')
  BY <1>1, QuietWorld DEF Inv, Workspace, World
<1>3. World' /\ Workspace' /\ Saved'
  BY <1>1, <1>2, StepWorld
<1>4. Kept'
  BY DEF Kept, Inv
<1>5. PublishedDescendsFromBase'
  BY DEF PublishedDescendsFromBase, Because, Inv
<1> QED BY <1>3, <1>4, <1>5 DEF Inv

\* The harness is done or fails; a git command fails; the pod dies; the operator
\* decides.
LEMMA EasyInv == ASSUME Inv, AgentDone \/ CommitFails \/ Crash \/ Retry PROVE Inv'
<1>1. /\ UNCHANGED <<ws, upstream, saved, remote, nextId, committed, causes>>
      /\ pc' \in {"start", "agentFailed", "uncommitted", "dead", "agent", "exhausted"}
  BY DEF AgentDone, CommitFails, Crash, Retry, Goto
<1>2. TypeOK'
  <2>1. faults' \in Nat
    BY DEF AgentDone, CommitFails, Crash, Retry, Inv, TypeOK
  <2>2. restarts' \in 0 .. MaxRestarts
    BY DeliveryAssumption DEF AgentDone, CommitFails, Crash, Retry, Inv, TypeOK
  <2>3. UNCHANGED <<openPR, createErr, edits, human>>
    BY DEF AgentDone, CommitFails, Crash, Retry
  <2> QED BY <1>1, <2>1, <2>2, <2>3 DEF TypeOK, Inv, Ended, Failures
<1>3. Established' /\ FailsOnlyForCause'
  BY <1>1 DEF Established, FailsOnlyForCause, Excuses
<1> QED BY <1>1, <1>2, <1>3, Quiet

\* The history is refused only where the agent replaced it or moved the base.
LEMMA ValidateStartingPointInv == ASSUME Inv, ValidateStartingPoint PROVE Inv'
<1>1. /\ UNCHANGED <<ws, saved, upstream, remote, openPR, createErr, restarts, edits, faults, human,
                     nextId, committed, causes>>
      /\ pc' = IF StartingPoint THEN "branch" ELSE "badStart"
  BY DEF ValidateStartingPoint, OnlyPc, Goto
<1>2. TypeOK'
  BY <1>1 DEF TypeOK, Inv, Ended, Failures
<1>3. RunBranch = IF ws.run = NoBranch THEN HeadBranch ELSE ws.run
  BY DEF RunBranch
<1>4. StartingPoint <=> ws.anchor.commits \subseteq RunBranch.commits
  BY <1>3 DEF StartingPoint, Descends
<1>5. Established'
  <2>1. RunBranch' = RunBranch /\ ws' = ws
    BY <1>1 DEF RunBranch, HeadBranch
  <2> QED BY <1>1, <1>4, <2>1 DEF Established
<1>6. FailsOnlyForCause'
  <2>1. SUFFICES ASSUME pc' = "badStart", "rewritten" \notin causes, "fetched" \notin causes,
                        "anchorMoved" \notin causes
                 PROVE  FALSE
    <3>1. pc' = "badStart" =>
            "rewritten" \in causes' \/ "fetched" \in causes' \/ "anchorMoved" \in causes'
      BY <1>1, <2>1
    <3> QED BY <1>1, <3>1 DEF FailsOnlyForCause, Excuses, Because
  <2>2. ws.anchor.commits = {0} /\ Rooted(ws)
    BY <2>1 DEF Inv, Workspace, Sane
  <2>3. HeadBranch = IF ws.head = "run" THEN ws.run ELSE ws.local
    BY HeadType DEF Inv
  <2>4. 0 \in RunBranch.commits
    BY <1>3, <2>2, <2>3 DEF Rooted
  <2> QED BY <1>1, <1>4, <2>1, <2>2, <2>4
<1> QED BY <1>1, <1>2, <1>5, <1>6, Quiet

\* ensureBranch keeps what the run branch has.
LEMMA EnsureBranchInv == ASSUME Inv, EnsureBranch PROVE Inv'
<1>0. TypeOK /\ ws \in Workspaces /\ nextId \in Nat
  BY DEF Inv, TypeOK
<1>1. /\ UNCHANGED <<saved, upstream, remote, openPR, createErr, restarts, edits, faults, human,
                     nextId, committed, causes>>
      /\ \/ pc = "branch" /\ pc' = "switch"
            /\ ws' = IF ws.head = "run" THEN ws ELSE [ws EXCEPT !.run = RunBranch]
         \/ pc = "switch" /\ pc' = "commit" /\ ws' = [ws EXCEPT !.head = "run"]
  BY DEF EnsureBranch, Goto
<1>2. /\ RunBranch \in Branches
      /\ ws.run.commits \subseteq RunBranch.commits
      /\ ws.head = "run" => RunBranch = ws.run
      /\ RunBranch = ws.local \/ RunBranch = ws.run
      /\ RunBranch = IF ws.run = NoBranch THEN HeadBranch ELSE ws.run
      /\ HeadBranch = IF ws.head = "run" THEN ws.run ELSE ws.local
  BY <1>0, RunBranchType, HeadType DEF RunBranch
<1>3. /\ ws' \in Workspaces /\ ws'.local = ws.local /\ ws'.anchor = ws.anchor
      /\ pc = "branch" => ws'.run = RunBranch /\ ws'.head = ws.head
      /\ pc = "switch" => ws'.run = ws.run /\ ws'.head = "run"
      /\ ws.run.commits \subseteq ws'.run.commits
      /\ ws'.run = ws.run \/ ws'.run = ws.local
  BY <1>0, <1>1, <1>2 DEF Workspaces
<1>4. TypeOK'
  BY <1>0, <1>1, <1>3 DEF TypeOK
<1>5. Established'
  <2>1. pc = "branch" => ws.anchor.commits \subseteq RunBranch.commits
    BY DEF Inv, Established
  <2>2. pc = "switch" => ws.anchor.commits \subseteq ws.run.commits
    BY DEF Inv, Established
  <2> QED BY <1>1, <1>3, <2>1, <2>2 DEF Established
<1>6. Sane(ws', upstream', nextId', causes')
  <2>1. Sane(ws, upstream, nextId, causes)
    BY DEF Inv, Workspace
  <2>2. ASSUME "anchorMoved" \notin causes, "fetched" \notin causes, "rewritten" \notin causes
        PROVE  Rooted(ws')
    <3>1. ws.anchor.commits = {0} /\ Rooted(ws)
      BY <2>1, <2>2 DEF Sane
    <3>2. 0 \in ws'.run.commits
      <4>1. ws'.anchor.commits \subseteq ws'.run.commits
        BY <1>1, <1>5 DEF Established
      <4> QED BY <1>3, <3>1, <4>1
    <3> QED BY <1>3, <3>1, <3>2 DEF Rooted
  <2>3. ASSUME "anchorMoved" \notin causes, "closed" \notin causes
        PROVE  OwnWork(ws'.run, ws'.anchor, upstream) /\ OwnWork(ws'.local, ws'.anchor, upstream)
    BY <1>3, <2>1, <2>3 DEF Sane
  <2> QED BY <1>1, <1>3, <2>1, <2>2, <2>3 DEF Sane
<1>7. World' /\ Workspace' /\ Saved'
  BY <1>0, <1>1, <1>4, <1>6, StepWorld DEF Inv, World
<1>8. Kept'
  <2>1. Beyond(ws.run.commits) => Beyond(ws'.run.commits)
    BY <1>3 DEF Beyond
  <2> QED BY <1>1, <1>3, <2>1 DEF Kept, Inv
<1>9. PublishedDescendsFromBase' /\ FailsOnlyForCause'
  BY <1>1 DEF PublishedDescendsFromBase, Because, FailsOnlyForCause, Excuses, Inv
<1> QED BY <1>4, <1>5, <1>7, <1>8, <1>9 DEF Inv

\* The commit takes the whole worktree; a clean worktree goes on only beyond the
\* base.
LEMMA CommitAllInv == ASSUME Inv, CommitAll PROVE Inv'
<1>0. TypeOK /\ ws \in Workspaces /\ nextId \in Nat
  BY DEF Inv, TypeOK
<1>1. /\ pc = "commit" /\ UNCHANGED <<saved, upstream, remote, openPR, createErr, restarts, edits,
                                      faults, human, causes>>
      /\ committed' = committed \cup ws'.run.commits
  BY DEF CommitAll
<1>2. \/ /\ ~Clean /\ ws' = [ws EXCEPT !.run = Committed(ws.run)] /\ nextId' = nextId + 1
         /\ pc' = "push"
      \/ /\ Clean /\ ws' = ws /\ nextId' = nextId
         /\ pc' = IF AheadOfBase THEN "push" ELSE "nochanges"
  BY DEF CommitAll, Goto
<1>3. /\ Committed(ws.run) \in Branches /\ Committed(ws.run).tree = ws.tree
      /\ Committed(ws.run).commits = ws.run.commits \cup {nextId}
      /\ ws.head = "run" /\ HeadBranch = ws.run
  BY <1>0, <1>1, HeadType DEF Inv, Established
<1>4. /\ ws' \in Workspaces /\ ws'.local = ws.local /\ ws'.anchor = ws.anchor /\ ws'.head = ws.head
      /\ ws'.tree = ws'.run.tree
      /\ \/ ws'.run = ws.run /\ nextId' = nextId
         \/ ws'.run.commits = ws.run.commits \cup {nextId} /\ nextId' = nextId + 1 /\ pc' = "push"
  <2>1. CASE ~Clean
    BY <1>0, <1>2, <1>3, <2>1 DEF Workspaces
  <2>2. CASE Clean
    BY <1>0, <1>2, <1>3, <2>2 DEF Clean
  <2> QED BY <2>1, <2>2
<1>5. nextId' \in Nat /\ nextId <= nextId' /\ pc' \in {"push", "nochanges"}
  BY <1>0, <1>2
<1>6. TypeOK'
  <2>1. ws'.run.commits \subseteq Nat
    BY <1>4 DEF Workspaces, Branches
  <2> QED BY <1>0, <1>1, <1>4, <1>5, <2>1 DEF TypeOK, Ended
<1>7. /\ upstream.commits \subseteq Below(nextId) /\ nextId \notin Below(nextId)
      /\ Below(nextId) \subseteq Below(nextId') /\ nextId # 0
      /\ remote \subseteq Below(nextId)
  BY <1>0, <1>5 DEF Inv, World, Below
<1>8. Sane(ws, upstream', nextId', causes')
  BY <1>0, <1>1, <1>5, QuietWorld DEF Inv, Workspace
<1>9. Sane(ws', upstream', nextId', causes')
  <2>1. ws'.run.commits \subseteq Below(nextId')
    BY <1>0, <1>4, <1>8 DEF Sane, Below
  <2>2. Rooted(ws) => Rooted(ws')
    BY <1>3, <1>4 DEF Rooted
  <2>3. OwnWork(ws.run, ws.anchor, upstream') => OwnWork(ws'.run, ws'.anchor, upstream')
    BY <1>1, <1>4, <1>7 DEF OwnWork
  <2> QED BY <1>4, <1>8, <2>1, <2>2, <2>3 DEF Sane
<1>10. World' /\ Workspace' /\ Saved'
  BY <1>1, <1>5, <1>6, <1>7, <1>9, StepWorld
<1>11. ws.anchor.commits \subseteq ws.run.commits
  BY <1>1 DEF Inv, Established
<1>12. \/ ws'.run = ws.run /\ nextId' = nextId
          /\ (pc' = "push" => ws.run.commits # ws.anchor.commits)
          /\ (pc' = "nochanges" => ws.run.commits = ws.anchor.commits)
       \/ nextId \in ws'.run.commits /\ pc' = "push"
  <2>1. CASE ~Clean
    BY <1>0, <1>2, <1>4, <2>1
  <2>2. CASE Clean
    BY <1>2, <2>2 DEF AheadOfBase
  <2> QED BY <2>1, <2>2
<1>13. Established'
  <2>1. ASSUME pc' = "push", "closed" \notin causes, "anchorMoved" \notin causes
        PROVE  ~(ws'.run.commits \subseteq upstream.commits)
    <3>1. OwnWork(ws.run, ws.anchor, upstream)
      BY <2>1 DEF Inv, Workspace, Sane
    <3> QED BY <1>7, <1>11, <1>12, <2>1, <3>1 DEF OwnWork
  <2>2. pc' = "nochanges" => ws'.run.commits = ws'.anchor.commits
    BY <1>4, <1>12
  <2>3. ws'.anchor.commits \subseteq ws'.run.commits
    BY <1>4, <1>11
  <2> QED BY <1>1, <1>4, <1>5, <2>1, <2>2, <2>3 DEF Established
<1>14. Kept'
  <2>1. ws.run.commits \subseteq ws'.run.commits
    BY <1>4
  <2>2. Beyond(ws.run.commits) => Beyond(ws'.run.commits)
    BY <2>1 DEF Beyond
  <2>3. ASSUME pc' = "push", "fetched" \notin causes, "anchorMoved" \notin causes
        PROVE  Beyond(ws'.run.commits)
    <3>1. ws.anchor.commits = {0}
      BY <2>3 DEF Inv, Workspace, Sane
    <3> QED BY <1>7, <1>11, <1>12, <2>3, <3>1 DEF Beyond
  <2> QED BY <1>1, <1>5, <2>1, <2>2, <2>3 DEF Kept, Inv
<1>15. PublishedDescendsFromBase' /\ FailsOnlyForCause'
  BY <1>1, <1>5 DEF PublishedDescendsFromBase, Because, FailsOnlyForCause, Excuses, Inv
<1> QED BY <1>6, <1>10, <1>13, <1>14, <1>15 DEF Inv

\* A push that GitHub takes, answered or not.
LEMMA PushedInv ==
  ASSUME Inv, pc = "push", Accepts, TypeOK', remote' = ws.run.commits, pc' \in {"create", "dead"},
         UNCHANGED <<ws, saved, upstream, openPR, createErr, nextId, committed, causes>>
  PROVE  Inv'
<1>0. ws \in Workspaces /\ nextId \in Nat
  BY DEF Inv, TypeOK
<1>1. Sane(ws, upstream, nextId, causes) /\ ws.anchor.commits \subseteq ws.run.commits
  BY DEF Inv, Workspace, Established
<1>2. World' /\ Workspace' /\ Saved'
  BY <1>0, <1>1, StepWorld DEF Sane
<1>3. Established'
  BY DEF Established, Inv
<1>4. Kept'
  BY DEF Kept, Inv
<1>5. PublishedDescendsFromBase'
  <2>1. "anchorMoved" \notin causes => 0 \in ws.run.commits
    BY <1>1 DEF Sane
  <2> QED BY <2>1 DEF PublishedDescendsFromBase, Because
<1>6. FailsOnlyForCause'
  BY DEF FailsOnlyForCause, Excuses
<1> QED BY <1>2, <1>3, <1>4, <1>5, <1>6 DEF Inv

\* A push is refused only after somebody else pushed or work was taken back.
LEMMA PushInv == ASSUME Inv, Push PROVE Inv'
<1>1. /\ pc = "push" /\ pc' \in {"create", "refused"}
      /\ UNCHANGED <<ws, saved, upstream, openPR, createErr, restarts, edits, faults, human, nextId,
                     committed, causes>>
      /\ \/ Accepts /\ remote' = ws.run.commits /\ pc' = "create"
         \/ ~Accepts /\ pc' = "refused" /\ remote' = remote
  BY DEF Push, Goto
<1>2. ws.run.commits \subseteq Nat
  BY DEF Inv, TypeOK, Workspaces, Branches
<1>3. TypeOK'
  BY <1>1, <1>2 DEF TypeOK, Inv, Ended, Failures
<1>4. CASE Accepts
  BY <1>1, <1>3, <1>4, PushedInv
<1>5. CASE ~Accepts
  <2>1. pc' = "refused" /\ remote' = remote
    BY <1>1, <1>5
  <2>2. "rewritten" \in causes \/ "rolledBack" \in causes \/ "push" \in causes
        \/ "agentPushed" \in causes
    BY <1>5 DEF Accepts, Kept, Inv
  <2>3. FailsOnlyForCause'
    BY <1>1, <2>1, <2>2 DEF FailsOnlyForCause, Excuses, Because
  <2>4. Established'
    BY <2>1 DEF Established
  <2> QED BY <1>1, <1>3, <2>1, <2>3, <2>4, Quiet
<1> QED BY <1>4, <1>5

\* A push without an answer.
LEMMA PushLostInv == ASSUME Inv, PushLost PROVE Inv'
<1>1. /\ pc = "push" /\ pc' = "dead"
      /\ UNCHANGED <<ws, saved, upstream, openPR, createErr, restarts, edits, human, nextId,
                     committed, causes>>
      /\ remote' = remote \/ (Accepts /\ remote' = ws.run.commits)
  BY DEF PushLost, Goto, TransportFailure
<1>2. ws.run.commits \subseteq Nat /\ faults' \in Nat
  BY DEF PushLost, Inv, TypeOK, Workspaces, Branches
<1>3. TypeOK'
  BY <1>1, <1>2 DEF TypeOK, Inv
<1>4. Established' /\ FailsOnlyForCause'
  BY <1>1 DEF Established, FailsOnlyForCause, Excuses
<1>5. CASE remote' = remote
  BY <1>1, <1>3, <1>4, <1>5, Quiet
<1>6. CASE Accepts /\ remote' = ws.run.commits
  BY <1>1, <1>3, <1>6, PushedInv
<1> QED BY <1>1, <1>5, <1>6

\* Create fails with a refusal only where there is a pull request already, one
\* was closed or merged, or the base was moved.
LEMMA CreatePRInv == ASSUME Inv, CreatePR PROVE Inv'
<1>1. /\ pc = "create"
      /\ UNCHANGED <<ws, saved, upstream, remote, restarts, edits, faults, human, nextId,
                     committed, causes>>
      /\ \/ openPR' = TRUE /\ pc' = "succeeded" /\ createErr' = createErr
         \/ ~Creatable /\ createErr' = "permanent" /\ pc' = "list" /\ openPR' = openPR
  BY DEF CreatePR, Goto
<1>2. TypeOK'
  <2>1. openPR' \in BOOLEAN
    BY <1>1 DEF TypeOK, Inv
  <2>2. createErr' \in {"none", "transient", "permanent"} /\ pc' \in {"succeeded", "list"}
    BY <1>1 DEF TypeOK, Inv
  <2> QED BY <1>1, <2>1, <2>2 DEF TypeOK, Inv, Ended
<1>3. /\ ws.tree = ws.run.tree /\ ws.run.commits \subseteq remote
      /\ "closed" \notin causes /\ "anchorMoved" \notin causes =>
           ~(ws.run.commits \subseteq upstream.commits)
  BY <1>1 DEF Established, Inv
<1>4. pc' = "list" /\ "closed" \notin causes /\ "anchorMoved" \notin causes => openPR
  BY <1>1, <1>3 DEF Creatable
<1>5. Established'
  BY <1>1, <1>3, <1>4 DEF Established
<1>6. FailsOnlyForCause'
  BY <1>1 DEF FailsOnlyForCause, Excuses
<1> QED BY <1>1, <1>2, <1>5, <1>6, Quiet

\* A Create without an answer.
LEMMA CreateLostInv == ASSUME Inv, CreateLost PROVE Inv'
<1>1. /\ pc = "create" /\ pc' = "list" /\ createErr' = "transient"
      /\ UNCHANGED <<ws, saved, upstream, remote, restarts, edits, human, nextId, committed, causes>>
  BY DEF CreateLost, Goto
<1>2. openPR' \in BOOLEAN
  BY DEF CreateLost, Inv, TypeOK
<1>3. faults' \in Nat
  BY DEF CreateLost, Inv, TypeOK
<1>4. TypeOK'
  BY <1>1, <1>2, <1>3 DEF TypeOK, Inv
<1>5. Established' /\ FailsOnlyForCause'
  BY <1>1 DEF Established, Inv, FailsOnlyForCause, Excuses
<1> QED BY <1>1, <1>4, <1>5, Quiet

\* The listing finds the pull request, finds none, or fails.
LEMMA ListInv == ASSUME Inv, FindExisting \/ ListFails PROVE Inv'
<1>1. /\ pc = "list"
      /\ UNCHANGED <<ws, saved, upstream, remote, openPR, createErr, restarts, edits, human, nextId,
                     committed>>
      /\ \/ openPR /\ pc' = "succeeded"
         \/ pc' = ByCreateError /\ (openPR => "listLost" \in causes')
      /\ causes' = causes \/ causes' = causes \cup {"listLost"}
  BY DEF FindExisting, ListFails, OnlyPc, Goto, Found
<1>2. \/ pc' = "succeeded" /\ openPR
      \/ pc' = "dead"
      \/ pc' = "noPR" /\ createErr # "transient" /\ (openPR => "listLost" \in causes')
  BY <1>1 DEF ByCreateError, TransportFailure
<1>3. TypeOK'
  <2>1. faults' \in Nat
    BY DEF FindExisting, ListFails, OnlyPc, Inv, TypeOK
  <2>2. causes' \subseteq Causes
    BY <1>1 DEF Inv, TypeOK, Causes
  <2> QED BY <1>1, <1>2, <2>1, <2>2 DEF TypeOK, Inv, Ended, Failures
<1>4. Established'
  BY <1>1, <1>2 DEF Established, Inv
<1>5. FailsOnlyForCause'
  <2>1. pc' = "noPR" => "listLost" \in causes' \/ "closed" \in causes' \/ "anchorMoved" \in causes'
                        \/ "forbidden" \in causes'
    BY <1>1, <1>2 DEF Established, Inv
  <2> QED BY <1>2, <2>1 DEF FailsOnlyForCause, Excuses, Because
<1> QED BY <1>1, <1>2, <1>3, <1>4, <1>5, Quiet

\* Access refused.
LEMMA ForbiddenInv == ASSUME Inv, Forbidden PROVE Inv'
<1>1. /\ UNCHANGED <<ws, saved, upstream, remote, openPR, restarts, edits, human, nextId, committed>>
      /\ \/ pc = "push" /\ pc' = "refused" /\ createErr' = createErr
         \/ pc = "create" /\ pc' = "list" /\ createErr' = "permanent"
      /\ causes' = causes \cup {"forbidden"}
  BY DEF Forbidden, Goto
<1>2. TypeOK'
  <2>1. faults' \in Nat
    BY DEF Forbidden, Inv, TypeOK
  <2>2. causes' \subseteq Causes
    BY <1>1 DEF Inv, TypeOK, Causes
  <2> QED BY <1>1, <2>1, <2>2 DEF TypeOK, Inv, Ended, Failures
<1>3. Established' /\ FailsOnlyForCause'
  BY <1>1 DEF Established, Inv, FailsOnlyForCause, Excuses, Because
<1> QED BY <1>1, <1>2, <1>3, Quiet

-----------------------------------------------------------------------------
(* Disks and people.                                                       *)

\* A checkpoint is as sane as the workspace it is of.
LEMMA CheckpointInv == ASSUME Inv, Checkpoint PROVE Inv'
<1>1. /\ saved' = {ws}
      /\ UNCHANGED <<pc, ws, upstream, remote, openPR, createErr, restarts, edits, faults, human,
                     nextId, committed, causes>>
  BY DEF Checkpoint
<1>2. TypeOK'
  BY <1>1 DEF TypeOK, Inv
<1>3. Established'
  BY <1>1 DEF Established, Inv, RunBranch, HeadBranch
<1> QED BY <1>1, <1>2, <1>3 DEF Inv, World, Workspace, Saved, Kept, PublishedDescendsFromBase,
           Because, FailsOnlyForCause, Excuses

\* A restored workspace lacks what was committed or pushed since only with that
\* recorded as a cause.
LEMMA LoseDiskInv == ASSUME Inv, LoseDisk PROVE Inv'
<1>0. ws \in Workspaces /\ saved \subseteq Workspaces /\ nextId \in Nat
  BY DEF Inv, TypeOK
<1>1. /\ UNCHANGED <<saved, upstream, remote, openPR, createErr, restarts, edits, human, nextId,
                     committed>>
      /\ pc = "dead"
      /\ \/ pc' = "workspaceLost" /\ ws' = ws /\ causes' = causes
         \/ /\ ws' \in saved /\ pc' = pc
            /\ causes' = causes \cup (IF remote \cup committed \subseteq ws'.run.commits THEN {}
                                    ELSE {"rolledBack"})
  BY DEF LoseDisk, Goto
<1>2. causes' = causes \/ causes' = causes \cup {"rolledBack"}
  BY <1>1
<1>3. TypeOK'
  <2>1. faults' \in Nat
    BY DEF LoseDisk, Inv, TypeOK
  <2>2. causes' \subseteq Causes
    BY <1>2 DEF Inv, TypeOK, Causes
  <2> QED BY <1>0, <1>1, <2>1, <2>2 DEF TypeOK, Inv, Ended, Failures
<1>4. Established' /\ FailsOnlyForCause'
  BY <1>1 DEF Established, FailsOnlyForCause, Excuses
<1>5. CASE ws' = ws /\ pc' = "workspaceLost" /\ causes' = causes
  BY <1>1, <1>3, <1>4, <1>5, Quiet
<1>6. CASE /\ ws' \in saved /\ pc' = pc
           /\ causes' = causes \cup (IF remote \cup committed \subseteq ws'.run.commits THEN {}
                                   ELSE {"rolledBack"})
  <2>1. Sane(ws', upstream, nextId, causes) /\ ws' \in Workspaces
    BY <1>0, <1>6 DEF Inv, Saved
  <2>2. Sane(ws', upstream', nextId', causes')
    BY <1>0, <1>1, <1>2, <2>1, QuietWorld
  <2>3. World' /\ Workspace' /\ Saved'
    BY <1>0, <1>1, <1>2, <1>3, <2>2, StepWorld DEF Inv, World
  <2>4. Kept'
    <3>1. \/ "rolledBack" \in causes'
          \/ remote \subseteq ws'.run.commits /\ committed \subseteq ws'.run.commits
      BY <1>6
    <3>2. remote \subseteq ws'.run.commits /\ Beyond(remote) => Beyond(ws'.run.commits)
      BY DEF Beyond
    <3> QED BY <1>1, <1>2, <1>6, <3>1, <3>2 DEF Kept, Inv
  <2>5. PublishedDescendsFromBase'
    BY <1>1, <1>2 DEF PublishedDescendsFromBase, Because, Inv
  <2> QED BY <1>3, <1>4, <2>3, <2>4, <2>5 DEF Inv
<1> QED BY <1>1, <1>5, <1>6

\* What has to be shown of a step of a person.
LEMMA PersonInv ==
  ASSUME Inv, NEW e \in SUBSET Causes, Person(e), openPR' \in BOOLEAN, upstream' \in Branches,
         nextId' \in {nextId, nextId + 1}, upstream.commits \subseteq upstream'.commits,
         upstream'.commits \subseteq Below(nextId'), remote' \subseteq Below(nextId'),
         upstream'.commits \subseteq upstream.commits \cup {nextId} \/ "closed" \in e,
         remote' = remote \/ ("push" \in e /\ remote # {} /\ remote \subseteq remote'),
         openPR' = openPR \/ "closed" \in e
  PROVE  Inv'
<1>0. /\ ws \in Workspaces /\ saved \subseteq Workspaces /\ upstream \in Branches /\ nextId \in Nat
      /\ nextId' \in Nat /\ nextId <= nextId' /\ nextId \notin Below(nextId)
  BY DEF Inv, TypeOK, Below
<1>1. /\ UNCHANGED <<pc, ws, saved, createErr, restarts, edits, faults, committed>>
      /\ pc \notin Ended /\ causes' = causes \cup e /\ causes \subseteq causes'
  BY DEF Person
<1>2. TypeOK'
  <2>1. human' \in Nat
    BY DEF Person, Inv, TypeOK
  <2>2. remote' \subseteq Nat
    BY DEF Below
  <2> QED BY <1>0, <1>1, <2>1, <2>2 DEF TypeOK, Inv
<1>3. \A w \in Workspaces : Sane(w, upstream, nextId, causes) => Sane(w, upstream', nextId', causes')
  BY <1>0, <1>1, SaneStays
<1>4. World' /\ Workspace' /\ Saved'
  <2>1. 0 \in upstream'.commits /\ nextId' # 0
    BY <1>0 DEF Inv, World
  <2> QED BY <1>0, <1>1, <1>3, <2>1 DEF World, Workspace, Saved, Inv
<1>5. Established'
  <2>1. RunBranch' = RunBranch
    BY <1>1 DEF RunBranch, HeadBranch
  <2>2. ws.run.commits \subseteq Below(nextId)
    BY DEF Inv, Workspace, Sane
  <2>3. "closed" \notin causes' /\ ~(ws.run.commits \subseteq upstream.commits) =>
          ~(ws.run.commits \subseteq upstream'.commits)
    BY <1>0, <1>1, <2>2
  <2> QED BY <1>1, <2>1, <2>3 DEF Established, Inv, Ended
<1>6. Kept'
  <2>1. Beyond(remote) => Beyond(remote')
    BY DEF Beyond
  <2> QED BY <1>1, <2>1 DEF Kept, Inv
<1>7. PublishedDescendsFromBase'
  BY <1>1 DEF PublishedDescendsFromBase, Because, Inv
<1>8. FailsOnlyForCause'
  BY <1>1 DEF FailsOnlyForCause, Excuses, Ended, Failures
<1> QED BY <1>2, <1>4, <1>5, <1>6, <1>7, <1>8 DEF Inv

\* People push, merge elsewhere, close and merge.
LEMMA PeopleInv == ASSUME Inv, HumanPush \/ BaseMoves \/ ClosePR \/ MergePR PROVE Inv'
<1>0. /\ nextId \in Nat /\ upstream \in Branches /\ openPR \in BOOLEAN /\ remote \subseteq Nat
      /\ upstream.commits \subseteq Below(nextId) /\ remote \subseteq Below(nextId)
      /\ {"push"} \in SUBSET Causes /\ {"closed"} \in SUBSET Causes /\ {} \in SUBSET Causes
  BY DEF Inv, TypeOK, World, Causes
<1>1. Below(nextId) \cup {nextId} \subseteq Below(nextId + 1)
  BY <1>0 DEF Below
<1>2. CASE HumanPush
  <2>1. /\ Person({"push"}) /\ remote # {} /\ remote' = remote \cup {nextId} /\ nextId' = nextId + 1
        /\ upstream' = upstream /\ openPR' = openPR
    BY <1>2 DEF HumanPush
  <2> QED BY <1>0, <1>1, <2>1, PersonInv
<1>3. CASE BaseMoves
  <2>1. /\ Person({}) /\ nextId' = nextId + 1 /\ remote' = remote /\ openPR' = openPR
        /\ upstream' = [commits |-> upstream.commits \cup {nextId}, tree |-> nextId]
    BY <1>3 DEF BaseMoves
  <2>2. upstream' \in Branches /\ upstream'.commits = upstream.commits \cup {nextId}
    BY <1>0, <2>1 DEF Branches
  <2> QED BY <1>0, <1>1, <2>1, <2>2, PersonInv
<1>4. CASE ClosePR
  <2>1. Person({"closed"}) /\ openPR' = FALSE /\ UNCHANGED <<upstream, remote, nextId>>
    BY <1>4 DEF ClosePR
  <2>2. openPR' \in BOOLEAN
    BY <2>1
  <2> QED BY <1>0, <2>1, <2>2, PersonInv
<1>5. CASE MergePR
  <2>1. /\ Person({"closed"}) /\ openPR' = FALSE /\ nextId' = nextId + 1 /\ remote' = remote
        /\ upstream' = [commits |-> upstream.commits \cup remote, tree |-> nextId]
    BY <1>5 DEF MergePR
  <2>2. upstream' \in Branches /\ upstream'.commits = upstream.commits \cup remote
    BY <1>0, <2>1 DEF Branches
  <2>3. openPR' \in BOOLEAN
    BY <2>1
  <2> QED BY <1>0, <1>1, <2>1, <2>2, <2>3, PersonInv
<1> QED BY <1>2, <1>3, <1>4, <1>5

-----------------------------------------------------------------------------
(* The theorems.                                                           *)

\* Every step keeps the invariant.
LEMMA NextInv == Inv /\ [Next]_vars => Inv'
<1> SUFFICES ASSUME Inv, [Next]_vars PROVE Inv'
  OBVIOUS
<1>1. CASE UNCHANGED vars
  BY <1>1 DEF vars, Inv, TypeOK, World, Workspace, Saved, Established, Kept, RunBranch, HeadBranch,
              PublishedDescendsFromBase, FailsOnlyForCause, Because, Excuses
<1>2. CASE Next
  BY <1>2, EditInv, AgentCommitInv, ReplaceHistoryInv, FetchInv, MoveAnchorInv, AgentPushInv,
     EasyInv, ValidateStartingPointInv, EnsureBranchInv, CommitAllInv, PushInv, PushLostInv,
     CreatePRInv, CreateLostInv, ListInv, ForbiddenInv, CheckpointInv, LoseDiskInv, PeopleInv
     DEF Next
<1> QED BY <1>1, <1>2

\* Every reachable state satisfies the inductive invariant: what finalize has
\* established at each of its steps, and what a workspace can be relied on for.
THEOREM Invariance == Spec => []Inv
<1>1. Init => Inv
  BY InitInv
<1>2. Inv /\ [Next]_vars => Inv'
  BY NextInv
<1> QED BY <1>1, <1>2, PTL DEF Spec

\* Delivery keeps its types.
THEOREM TypeCorrect == Spec => []TypeOK
<1>1. Inv => TypeOK
  BY DEF Inv
<1> QED BY <1>1, Invariance, PTL

\* A history without the base is published only by the agent itself, or after it
\* moved origin/<base>.
THEOREM OnlyDescendants == Spec => []PublishedDescendsFromBase
<1>1. Inv => PublishedDescendsFromBase
  BY DEF Inv
<1> QED BY <1>1, Invariance, PTL

\* A run that reports a pull request has delivered its whole workspace.
THEOREM Delivered == Spec => []SucceededIsDelivered
<1>1. Inv => SucceededIsDelivered
  BY DEF Inv, Established, SucceededIsDelivered, Because
<1> QED BY <1>1, Invariance, PTL

\* And with it what earlier pods had committed.
THEOREM EarlierDelivered == Spec => []EarlierWorkIsDelivered
<1>1. Inv => EarlierWorkIsDelivered
  BY DEF Inv, Established, Kept, EarlierWorkIsDelivered, Because
<1> QED BY <1>1, Invariance, PTL

\* A run that reports no changes has none, and has published none.
THEOREM NoChanges == Spec => []NoChangesIsTrue
<1>1. Inv => NoChangesIsTrue
  <2> SUFFICES ASSUME Inv, pc = "nochanges" PROVE NoChangesIsTrue
    BY DEF NoChangesIsTrue
  <2>1. ws.tree = ws.run.tree /\ ws.run.commits = ws.anchor.commits
    BY DEF Inv, Established
  <2>2. ws.run.commits \subseteq upstream.commits \/ "anchorMoved" \in causes
    BY <2>1 DEF Inv, Workspace, Sane
  <2>3. \/ remote = {} \/ "rolledBack" \in causes \/ "rewritten" \in causes
        \/ "fetched" \in causes \/ "anchorMoved" \in causes \/ "agentPushed" \in causes
    BY <2>1 DEF Inv, Workspace, Sane, Kept, Beyond
  <2> QED BY <2>1, <2>2, <2>3 DEF NoChangesIsTrue, Because
<1> QED BY <1>1, Invariance, PTL

\* Whatever answers are lost and pods die, a run is refused for good only for a
\* cause that the code cannot undo.
THEOREM FailsForCause == Spec => []FailsOnlyForCause
<1>1. Inv => FailsOnlyForCause
  BY DEF Inv
<1> QED BY <1>1, Invariance, PTL

=============================================================================
