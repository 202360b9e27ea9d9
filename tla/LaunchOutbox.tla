---------------------------- MODULE LaunchOutbox ----------------------------
(***************************************************************************)
(* The control plane's durable launch (internal/coreapi, internal/store,   *)
(* internal/launcher): a submitted run is stored together with a launch    *)
(* operation, outbox workers claim operations under a lease and create the *)
(* AgentRun object, readers mirror the object's status back into the run   *)
(* row, and clients delete runs.                                           *)
(*                                                                         *)
(* A step is one database transaction or one API-server call.  Leases run  *)
(* out, workers die, calls fail with or without having taken effect, and   *)
(* rows disappear between any two of them.  The store is the Postgres one; *)
(* timestamps are abstracted (a retry delay is any delay).                 *)
(***************************************************************************)
EXTENDS Naturals, FiniteSets

CONSTANTS
  Runs,               \* run ids (generated, never reused)
  Workers,            \* outbox workers of all apiserver replicas
  Readers,            \* requests that mirror status into the store
  ClaimLimit,         \* operations claimed at once
  MaxLaunchAttempts,  \* attempts before a launch is given up
  MaxStatus,          \* bound: status changes of one AgentRun
  MaxFaults           \* bound: worker deaths, leases lost while working and
                      \* failed API-server calls

ASSUME OutboxConstants ==
  /\ ClaimLimit \in Nat \ {0}
  /\ MaxLaunchAttempts \in Nat \ {0}
  /\ MaxStatus \in Nat \ {0}
  /\ MaxFaults \in Nat

VARIABLES
  rows,      \* runs table
  ops,       \* outbox_operations table
  events,    \* outbox events in the journal of each run
  crs,       \* AgentRun objects
  launched,  \* history: runs an AgentRun was ever created for
  workers,   \* outbox workers
  readers,   \* GetRun and ReconcileFromCluster in flight
  deletes,   \* DeleteRun in flight
  faults     \* faults so far

vars == <<rows, ops, events, crs, launched, workers, readers, deletes, faults>>

Statuses == 0..MaxStatus
RowPhases == {"", "Pending", "Running", "Succeeded", "Failed"}

\* A row: its phase and the object status it last mirrored.
Rows == [exists: BOOLEAN, phase: RowPhases, seen: Statuses]
NoRow == [exists |-> FALSE, phase |-> "", seen |-> 0]

\* "deleted" stands for a row removed together with its run (ON DELETE CASCADE).
OpStates == {"none", "pending", "processing", "completed", "failed", "deleted"}
Ops == [state: OpStates, owner: Workers \cup {"nobody"}, leased: BOOLEAN, attempts: Nat]
NoOp == [state |-> "none", owner |-> "nobody", leased |-> FALSE, attempts |-> 0]

\* Specifications as far as a replay tells them apart.
Specs == {"submitted", "defaulted"}
CRs == [exists: BOOLEAN, spec: Specs, status: Statuses]
NoCR == [exists |-> FALSE, spec |-> "submitted", status |-> 0]

\* held: the claimed operations not yet dispatched; tries: their attempt count
\* as returned by the claim; row: the row read by failOperation.
WorkerSteps == {"idle", "next", "launch", "complete", "retry", "loadRun", "fail"}
WorkerStates == [pc: WorkerSteps, held: SUBSET Runs, run: Runs \cup {"norun"},
                 tries: [Runs -> Nat], row: Rows]
IdleWorker == [pc |-> "idle", held |-> {}, run |-> "norun",
               tries |-> [r \in Runs |-> 0], row |-> NoRow]

ReaderSteps == {"idle", "readCR", "readRow", "upsert"}
ReaderStates == [pc: ReaderSteps, run: Runs \cup {"norun"}, row: Rows, cr: CRs]
IdleReader == [pc |-> "idle", run |-> "norun", row |-> NoRow, cr |-> NoCR]

TypeOK ==
  /\ rows \in [Runs -> Rows]
  /\ ops \in [Runs -> Ops]
  /\ events \in [Runs -> SUBSET {"submitted", "launch_accepted", "launch_failed"}]
  /\ crs \in [Runs -> CRs]
  /\ launched \in [Runs -> BOOLEAN]
  /\ workers \in [Workers -> WorkerStates]
  /\ readers \in [Readers -> ReaderStates]
  /\ deletes \in [Runs -> {"no", "cr", "row"}]
  /\ faults \in Nat

Init ==
  /\ rows = [r \in Runs |-> NoRow]
  /\ ops = [r \in Runs |-> NoOp]
  /\ events = [r \in Runs |-> {}]
  /\ crs = [r \in Runs |-> NoCR]
  /\ launched = [r \in Runs |-> FALSE]
  /\ workers = [w \in Workers |-> IdleWorker]
  /\ readers = [p \in Readers |-> IdleReader]
  /\ deletes = [r \in Runs |-> "no"]
  /\ faults = 0

cluster == <<crs, launched>>
tables == <<rows, ops, events>>

Fault == faults < MaxFaults /\ faults' = faults + 1

-----------------------------------------------------------------------------
(* Service.CreateRun: row, operation and event in one transaction.         *)

\* buildAgentRun leaves the defaulted fields of the specification zero.
Payload == "submitted"

CreateRun(r) ==
  /\ ops[r].state = "none"
  /\ rows' = [rows EXCEPT ![r] = [exists |-> TRUE, phase |-> "Pending", seen |-> 0]]
  /\ ops' = [ops EXCEPT ![r].state = "pending"]
  /\ events' = [events EXCEPT ![r] = {"submitted"}]
  /\ UNCHANGED <<cluster, workers, readers, deletes, faults>>

-----------------------------------------------------------------------------
(* The outbox worker: ClaimOperations, dispatchOperation and what follows. *)

Pc(w) == workers[w].pc
Goto(w, step) == workers' = [workers EXCEPT ![w].pc = step]
Current(w) == workers[w].run

\* Mutant: expired leases are not picked up again.
ReadyPendingOnly == {r \in Runs : ops[r].state = "pending"}
Ready == {r \in Runs : \/ ops[r].state = "pending"
                       \/ ops[r].state = "processing" /\ ~ops[r].leased}

\* Some of the operations that are ready, in any order: those whose rows another
\* claim has locked at the moment are skipped.
Batch(B) == B # {} /\ B \subseteq Ready /\ Cardinality(B) <= ClaimLimit

ClaimOperations(w, B) ==
  /\ Pc(w) = "idle"
  /\ Batch(B)
  /\ ops' = [r \in Runs |->
               IF r \in B THEN [state |-> "processing", owner |-> w, leased |-> TRUE,
                                attempts |-> ops[r].attempts + 1]
               ELSE ops[r]]
  /\ workers' = [workers EXCEPT ![w] =
       [IdleWorker EXCEPT !.pc = "next", !.held = B,
          !.tries = [r \in Runs |-> IF r \in B THEN ops[r].attempts + 1 ELSE 0]]]
  /\ UNCHANGED <<rows, events, cluster, readers, deletes, faults>>

\* The loop of DispatchPending.
NextOperation(w) ==
  /\ Pc(w) = "next"
  /\ \/ \E r \in workers[w].held :
          workers' = [workers EXCEPT ![w].pc = "launch", ![w].run = r,
                                     ![w].held = @ \ {r}]
     \/ /\ workers[w].held = {}
        /\ workers' = [workers EXCEPT ![w] = IdleWorker]
  /\ UNCHANGED <<tables, cluster, readers, deletes, faults>>

\* What the API server stores: the CRD fills in maxRestarts and retain.
Defaulted(spec) == "defaulted"

CreateObject(r) ==
  /\ crs' = [crs EXCEPT ![r] = [exists |-> TRUE, spec |-> Defaulted(Payload), status |-> 0]]
  /\ launched' = [launched EXCEPT ![r] = TRUE]

\* Mutant: a failed call counts as done.
LaunchUnchecked(w) ==
  /\ Pc(w) = "launch"
  /\ \/ ~crs[Current(w)].exists /\ CreateObject(Current(w)) /\ UNCHANGED faults
     \/ Fault /\ UNCHANGED cluster
  /\ Goto(w, "complete")
  /\ UNCHANGED <<tables, readers, deletes>>
\* EnsureNamespace and launcher.CreateRun: created; found, and accepted when
\* its specification equals the payload; refused for good; or failed, with or
\* without the object having been created.
Launch(w) ==
  /\ Pc(w) = "launch"
  /\ LET r == Current(w)
     IN \/ ~crs[r].exists /\ CreateObject(r) /\ Goto(w, "complete") /\ UNCHANGED faults
        \/ /\ crs[r].exists
           /\ Goto(w, IF crs[r].spec = Payload THEN "complete" ELSE "retry")
           /\ UNCHANGED <<cluster, faults>>
        \/ Fault /\ Goto(w, "loadRun") /\ UNCHANGED cluster
        \/ Fault /\ Goto(w, "retry") /\ UNCHANGED cluster
        \/ Fault /\ ~crs[r].exists /\ CreateObject(r) /\ Goto(w, "retry")
  /\ UNCHANGED <<tables, readers, deletes>>

\* Mutant: any operation of the id will do.
HoldsAnyState(w, r) == ops[r].state \in {"processing", "completed", "failed"}
\* The lease check of Complete-, Retry- and FailOperation.
Holds(w, r) == ops[r].state = "processing" /\ ops[r].owner = w

\* Mutant: a state the claim query does not know.
FinishRetrying(r, state) ==
  ops' = [ops EXCEPT ![r].state = IF state = "pending" THEN "retrying" ELSE state,
                     ![r].owner = "nobody", ![r].leased = FALSE]
Finish(r, state) == ops' = [ops EXCEPT ![r].state = state, ![r].owner = "nobody",
                                       ![r].leased = FALSE]

CompleteOperation(w) ==
  /\ Pc(w) = "complete"
  /\ LET r == Current(w)
     IN IF Holds(w, r)
        THEN /\ Finish(r, "completed")
             /\ events' = [events EXCEPT ![r] = @ \cup {"launch_accepted"}]
        ELSE UNCHANGED <<ops, events>>                       \* ErrLeaseLost
  /\ Goto(w, "next")
  /\ UNCHANGED <<rows, cluster, readers, deletes, faults>>

GivesUp(w) == workers[w].tries[Current(w)] >= MaxLaunchAttempts

\* retryOrFail after a failure that may pass.
RetryOperation(w) ==
  /\ Pc(w) = "retry"
  /\ IF GivesUp(w) THEN Goto(w, "loadRun") /\ UNCHANGED ops
     ELSE /\ IF Holds(w, Current(w)) THEN Finish(Current(w), "pending")
             ELSE UNCHANGED ops
          /\ Goto(w, "next")
  /\ UNCHANGED <<rows, events, cluster, readers, deletes, faults>>

\* failOperation reads the row, then writes it back failed, in the
\* transaction that fails the operation.
LoadRun(w) ==
  /\ Pc(w) = "loadRun"
  /\ workers' = IF rows[Current(w)].exists
                THEN [workers EXCEPT ![w].pc = "fail", ![w].row = rows[Current(w)]]
                ELSE [workers EXCEPT ![w].pc = "next"]
  /\ UNCHANGED <<tables, cluster, readers, deletes, faults>>

\* Mutant: the row keeps its phase.
FailOperationSilently(w) ==
  /\ Pc(w) = "fail"
  /\ LET r == Current(w)
     IN IF rows[r].exists /\ Holds(w, r)
        THEN /\ Finish(r, "failed")
             /\ events' = [events EXCEPT ![r] = @ \cup {"launch_failed"}]
        ELSE UNCHANGED <<ops, events>>
  /\ Goto(w, "next")
  /\ UNCHANGED <<rows, cluster, readers, deletes, faults>>
FailOperation(w) ==
  /\ Pc(w) = "fail"
  /\ LET r == Current(w)
     IN IF rows[r].exists /\ Holds(w, r)
        THEN /\ rows' = [rows EXCEPT ![r] = [workers[w].row EXCEPT !.phase = "Failed"]]
             /\ Finish(r, "failed")
             /\ events' = [events EXCEPT ![r] = @ \cup {"launch_failed"}]
        ELSE UNCHANGED tables                    \* rolled back
  /\ Goto(w, "next")
  /\ UNCHANGED <<cluster, readers, deletes, faults>>

\* The process dies and is started again; its leases are left behind.
Die(w) ==
  /\ Pc(w) # "idle"
  /\ Fault
  /\ workers' = [workers EXCEPT ![w] = IdleWorker]
  /\ UNCHANGED <<tables, cluster, readers, deletes>>

\* The lease of an operation nobody works on any more, or of a slow worker.
Abandoned(r) == \A w \in Workers :
  ops[r].owner = w => r # Current(w) /\ r \notin workers[w].held

ExpireLease(r) ==
  /\ ops[r].state = "processing" /\ ops[r].leased
  /\ IF Abandoned(r) THEN UNCHANGED faults ELSE Fault
  /\ ops' = [ops EXCEPT ![r].leased = FALSE]
  /\ UNCHANGED <<rows, events, cluster, workers, readers, deletes>>

WorkerStep(w) ==
  \/ \E B \in SUBSET Runs : ClaimOperations(w, B)
  \/ NextOperation(w) \/ Launch(w) \/ CompleteOperation(w) \/ RetryOperation(w)
  \/ LoadRun(w) \/ FailOperation(w)

-----------------------------------------------------------------------------
(* Status: the operator moves the object, readers mirror it into the row.  *)

PhaseOf(cr) == IF cr.status = 0 THEN ""
               ELSE IF cr.status = MaxStatus THEN "Succeeded" ELSE "Running"

\* The AgentRun operator, as far as the control plane sees it.
OperatorMoves(r) ==
  /\ crs[r].exists /\ crs[r].status < MaxStatus
  /\ crs' = [crs EXCEPT ![r].status = @ + 1]
  /\ UNCHANGED <<tables, launched, workers, readers, deletes, faults>>

\* GetRun: the row, then its object (none: the row is returned as it is).
GetRun(p, r) ==
  /\ readers[p].pc = "idle"
  /\ rows[r].exists
  /\ readers' = [readers EXCEPT ![p] =
       [IdleReader EXCEPT !.pc = "readCR", !.run = r, !.row = rows[r]]]
  /\ UNCHANGED <<tables, cluster, workers, deletes, faults>>

\* Of the object's status only what it carries is mirrored.
Mirror(row, cr) ==
  [exists |-> TRUE, phase |-> IF PhaseOf(cr) = "" THEN row.phase ELSE PhaseOf(cr),
   seen |-> cr.status]

ReadCR(p) ==
  /\ readers[p].pc = "readCR"
  /\ LET cr == crs[readers[p].run]
     IN readers' = [readers EXCEPT ![p] =
          IF cr.exists /\ Mirror(readers[p].row, cr) # readers[p].row
          THEN [readers[p] EXCEPT !.pc = "upsert", !.cr = cr]
          ELSE IdleReader]
  /\ UNCHANGED <<tables, cluster, workers, deletes, faults>>

\* ReconcileFromCluster: the listed object, then any row it has.
ListCR(p, r) ==
  /\ readers[p].pc = "idle"
  /\ crs[r].exists
  /\ readers' = [readers EXCEPT ![p] =
       [IdleReader EXCEPT !.pc = "readRow", !.run = r, !.cr = crs[r]]]
  /\ UNCHANGED <<tables, cluster, workers, deletes, faults>>

ReadRow(p) ==
  /\ readers[p].pc = "readRow"
  /\ readers' = [readers EXCEPT ![p].pc = "upsert", ![p].row = rows[readers[p].run]]
  /\ UNCHANGED <<tables, cluster, workers, deletes, faults>>

\* UpsertRunWithEvent: inserts the row when it is gone.
Upsert(p) ==
  /\ readers[p].pc = "upsert"
  /\ rows' = [rows EXCEPT ![readers[p].run] = Mirror(readers[p].row, readers[p].cr)]
  /\ readers' = [readers EXCEPT ![p] = IdleReader]
  /\ UNCHANGED <<ops, events, cluster, workers, deletes, faults>>

ReaderStep(p) ==
  \/ \E r \in Runs : GetRun(p, r) \/ ListCR(p, r)
  \/ ReadCR(p) \/ ReadRow(p) \/ Upsert(p)

-----------------------------------------------------------------------------
(* DeleteRun: check the row, delete the object, delete the row.            *)

DeleteRun(r) ==
  /\ deletes[r] = "no"
  /\ rows[r].exists
  /\ deletes' = [deletes EXCEPT ![r] = "cr"]
  /\ UNCHANGED <<tables, cluster, workers, readers, faults>>

DeleteCR(r) ==
  /\ deletes[r] = "cr"
  /\ crs' = [crs EXCEPT ![r] = NoCR]
  /\ deletes' = [deletes EXCEPT ![r] = "row"]
  /\ UNCHANGED <<tables, launched, workers, readers, faults>>

DeleteRow(r) ==
  /\ deletes[r] = "row"
  /\ rows' = [rows EXCEPT ![r] = NoRow]
  /\ ops' = [ops EXCEPT ![r] = [NoOp EXCEPT !.state = "deleted"]]
  /\ events' = [events EXCEPT ![r] = {}]
  /\ deletes' = [deletes EXCEPT ![r] = "no"]
  /\ UNCHANGED <<cluster, workers, readers, faults>>

-----------------------------------------------------------------------------
Next ==
  \/ \E w \in Workers : WorkerStep(w) \/ Die(w)
  \/ \E p \in Readers : ReaderStep(p)
  \/ \E r \in Runs : \/ CreateRun(r) \/ ExpireLease(r) \/ OperatorMoves(r)
                     \/ DeleteRun(r) \/ DeleteCR(r) \/ DeleteRow(r)

\* Workers drain on a ticker and leases run out by the clock; nothing is
\* promised of clients, readers or the operator.
Fairness ==
  /\ \A w \in Workers : WF_vars(WorkerStep(w))
  /\ \A r \in Runs : WF_vars(ExpireLease(r) /\ Abandoned(r))

Spec == Init /\ [][Next]_vars
FairSpec == Spec /\ Fairness

-----------------------------------------------------------------------------
(* Properties.                                                             *)

\* The request as the abstract specification sees it.
Verdict(op) == CASE op.state \in {"pending", "processing"} -> "open"
                 [] op.state = "completed" -> "accepted"
                 [] OTHER -> op.state
Request == INSTANCE LaunchRequest
             WITH verdict <- [r \in Runs |-> Verdict(ops[r])]

\* Claims, leases, retries, replays and deletions implement the promise of a
\* submission: one verdict, never changed, and "accepted" only when launched.
ImplementsLaunchRequest == Request!Spec

\* The journal never says both that a launch was accepted and that it failed,
\* whichever workers raced for the operation (CompleteOperation, FailOperation).
OneVerdict ==
  \A r \in Runs : ~({"launch_accepted", "launch_failed"} \subseteq events[r])

\* An accepted request is never lost: while a run has a row but has never been
\* launched, its operation is still to be done, or the row says Failed
\* (CreateRunWithOperation, ClaimOperations, failOperation).
WorkIsNeverLost ==
  \A r \in Runs : rows[r].exists /\ ~launched[r] =>
    \/ ops[r].state \in {"pending", "processing"}
    \/ ops[r].state = "failed" /\ rows[r].phase = "Failed"

\* Replayed launch work is idempotent: a run that was launched is not reported
\* as a failed launch (launcher.CreateRun, failOperation).
ReplayIsIdempotent ==
  \A r \in Runs : "launch_failed" \in events[r] => ~launched[r]

\* Every submitted request gets its verdict or is deleted, through worker
\* deaths, lost leases and failing calls (RunOutboxWorker).
RequestResolves ==
  \A r \in Runs : ops[r].state \in {"pending", "processing"}
                    ~> ops[r].state \notin {"pending", "processing"}

=============================================================================
