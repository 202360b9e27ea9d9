-------------------------- MODULE LaunchOutboxProofs --------------------------
(***************************************************************************)
(* Proofs about the launch outbox, for every set of runs, workers and      *)
(* readers and every bound.                                                *)
(*                                                                         *)
(* The inductive invariant adds to the type invariant what the processes   *)
(* in flight know: a worker handles only submitted runs, one about to      *)
(* complete has launched its run, a reader about to write has seen an      *)
(* object, and the journal agrees with the state of the operation.         *)
(***************************************************************************)
EXTENDS LaunchOutbox, TLAPS

WorkersKnowTheirRuns ==
  \A w \in Workers :
    /\ Pc(w) \notin {"idle", "next"} =>
         Current(w) \in Runs /\ ops[Current(w)].state # "none"
    /\ \A r \in workers[w].held : ops[r].state # "none"

CompletedWasLaunched ==
  \A w \in Workers : Pc(w) = "complete" => launched[Current(w)]

LoadedRowExists == \A w \in Workers : Pc(w) = "fail" => workers[w].row.exists

ObjectWasLaunched == \A r \in Runs : crs[r].exists => launched[r]

ReadersSawObject ==
  \A p \in Readers :
    /\ readers[p].pc # "idle" => readers[p].run \in Runs
    /\ readers[p].pc \in {"readRow", "upsert"} => launched[readers[p].run]

JournalMatches ==
  \A r \in Runs :
    /\ "launch_accepted" \in events[r] => ops[r].state = "completed"
    /\ "launch_failed" \in events[r] => ops[r].state = "failed"

OnlySubmittedRuns ==
  \A r \in Runs : rows[r].exists \/ launched[r] \/ deletes[r] # "no"
                    => ops[r].state # "none"

Knowledge ==
  /\ OnlySubmittedRuns
  /\ WorkersKnowTheirRuns
  /\ CompletedWasLaunched
  /\ LoadedRowExists
  /\ ObjectWasLaunched
  /\ ReadersSawObject
  /\ JournalMatches
  /\ WorkIsNeverLost

IInv == TypeOK /\ Knowledge

-----------------------------------------------------------------------------
(* The constant parts of the state have their types.                       *)

\* Idle processes and absent rows, operations and objects have their types.
LEMMA Constants ==
  /\ NoRow \in Rows /\ NoOp \in Ops /\ NoCR \in CRs
  /\ IdleWorker \in WorkerStates /\ IdleReader \in ReaderStates
BY OutboxConstants DEF NoRow, NoOp, NoCR, IdleWorker, IdleReader, Rows, Ops, CRs,
   WorkerStates, ReaderStates, RowPhases, Statuses, OpStates, Specs, WorkerSteps,
   ReaderSteps

\* The empty status is one of the statuses.
LEMMA ZeroStatus == 0 \in Statuses
BY OutboxConstants DEF Statuses

\* Moving a worker to another step keeps its type.
LEMMA GotoType ==
  ASSUME workers \in [Workers -> WorkerStates], NEW w \in Workers,
         NEW step \in WorkerSteps, Goto(w, step)
  PROVE  workers' \in [Workers -> WorkerStates]
BY DEF Goto, WorkerStates

\* ... and touches nothing but that step.
LEMMA GotoEffect ==
  ASSUME workers \in [Workers -> WorkerStates], NEW w \in Workers,
         NEW step, Goto(w, step)
  PROVE  \A v \in Workers :
           /\ workers'[v].pc = IF v = w THEN step ELSE workers[v].pc
           /\ workers'[v].held = workers[v].held
           /\ workers'[v].run = workers[v].run
           /\ workers'[v].row = workers[v].row
BY DEF Goto, WorkerStates

\* Ending or rescheduling an operation changes the state of no other.
LEMMA FinishEffect ==
  ASSUME ops \in [Runs -> Ops], NEW r \in Runs, NEW state, Finish(r, state)
  PROVE  \A q \in Runs : ops'[q].state = IF q = r THEN state ELSE ops[q].state
BY DEF Finish, Ops

\* Ending or rescheduling an operation keeps the type of the table.
LEMMA FinishType ==
  ASSUME ops \in [Runs -> Ops], NEW r \in Runs, NEW state \in OpStates,
         Finish(r, state)
  PROVE  ops' \in [Runs -> Ops]
BY DEF Finish, Ops

\* Mirroring an object into a row gives a row (runFromCR).
LEMMA MirrorType ==
  ASSUME NEW row \in Rows, NEW cr \in CRs
  PROVE Mirror(row, cr) \in Rows /\ Mirror(row, cr).exists
BY OutboxConstants DEF Mirror, Rows, CRs, PhaseOf, RowPhases, Statuses

\* The invariant holds before anything is submitted.
LEMMA InitEstablishes == Init => IInv
<1> SUFFICES ASSUME Init PROVE IInv OBVIOUS
<1>1. TypeOK
  BY Constants DEF Init, TypeOK
<1>2. QED
  BY <1>1 DEF Init, IInv, Knowledge, WorkersKnowTheirRuns, CompletedWasLaunched, LoadedRowExists,
     ObjectWasLaunched, ReadersSawObject, JournalMatches, WorkIsNeverLost, OnlySubmittedRuns,
     Pc, Current, NoRow, NoOp, NoCR, IdleWorker, IdleReader

-----------------------------------------------------------------------------
(* Types are preserved.                                                    *)

\* Every step of a client, a worker, a reader or the clock keeps the types.
LEMMA TypeStep == IInv /\ [Next]_vars => TypeOK'
<1> SUFFICES ASSUME IInv, [Next]_vars PROVE TypeOK' OBVIOUS
<1>t. TypeOK
  BY DEF IInv
<1>1. ASSUME NEW r \in Runs, CreateRun(r) PROVE TypeOK'
  <2>1. [exists |-> TRUE, phase |-> "Pending", seen |-> 0] \in Rows
    BY ZeroStatus DEF Rows, RowPhases
  <2>2. rows' \in [Runs -> Rows]
    BY <1>1, <1>t, <2>1 DEF CreateRun, TypeOK
  <2>3. ops' \in [Runs -> Ops]
    <3>1. [ops[r] EXCEPT !.state = "pending"] \in Ops
      BY <1>t DEF TypeOK, Ops, OpStates
    <3>2. ops' = [ops EXCEPT ![r] = [ops[r] EXCEPT !.state = "pending"]]
      BY <1>1 DEF CreateRun
    <3>3. QED
      BY <1>t, <3>1, <3>2 DEF TypeOK
  <2>4. QED
    BY <1>1, <1>t, <2>2, <2>3 DEF CreateRun, TypeOK, cluster
<1>2. ASSUME NEW w \in Workers, NEW B \in SUBSET Runs, ClaimOperations(w, B) PROVE TypeOK'
  <2>1. \A r \in Runs : ops[r].attempts + 1 \in Nat
    BY <1>t DEF TypeOK, Ops
  <2>2. ops' \in [Runs -> Ops]
    BY <1>2, <1>t, <2>1 DEF ClaimOperations, TypeOK, Ops, OpStates
  <2>3. DEFINE tries == [r \in Runs |-> IF r \in B THEN ops[r].attempts + 1 ELSE 0]
  <2>4. tries \in [Runs -> Nat]
    BY <2>1
  <2>5. [IdleWorker EXCEPT !.pc = "next", !.held = B, !.tries = tries] \in WorkerStates
    BY <2>4, Constants DEF WorkerStates, WorkerSteps
  <2>6. workers' \in [Workers -> WorkerStates]
    BY <1>2, <1>t, <2>5 DEF ClaimOperations, TypeOK
  <2>7. QED
    BY <1>2, <1>t, <2>2, <2>6 DEF ClaimOperations, TypeOK, cluster
<1>3. ASSUME NEW w \in Workers, NextOperation(w) PROVE TypeOK'
  <2>1. CASE workers' = [workers EXCEPT ![w] = IdleWorker]
    BY <1>3, <1>t, <2>1, Constants DEF NextOperation, TypeOK, cluster, tables
  <2>2. ASSUME NEW r \in workers[w].held,
               workers' = [workers EXCEPT ![w].pc = "launch", ![w].run = r, ![w].held = @ \ {r}]
        PROVE  TypeOK'
    <3>1. r \in Runs
      BY <1>t DEF TypeOK, WorkerStates
    <3>2. workers' \in [Workers -> WorkerStates]
      BY <1>t, <2>2, <3>1 DEF TypeOK, WorkerStates, WorkerSteps
    <3>3. QED
      BY <1>3, <1>t, <3>2 DEF NextOperation, TypeOK, cluster, tables
  <2>3. QED
    BY <1>3, <2>1, <2>2 DEF NextOperation
<1>4. ASSUME NEW w \in Workers, Launch(w) PROVE TypeOK'
  <2>1. [exists |-> TRUE, spec |-> Defaulted(Payload), status |-> 0] \in CRs
    BY ZeroStatus DEF CRs, Specs, Defaulted
  <2>2. crs' \in [Runs -> CRs] /\ launched' \in [Runs -> BOOLEAN]
    BY <1>4, <1>t, <2>1 DEF Launch, CreateObject, TypeOK, cluster
  <2>3. workers' \in [Workers -> WorkerStates]
    BY <1>4, <1>t, GotoType DEF Launch, TypeOK, WorkerSteps
  <2>4. faults' \in Nat
    BY <1>4, <1>t DEF Launch, Fault, TypeOK
  <2>5. QED
    BY <1>4, <1>t, <2>2, <2>3, <2>4 DEF Launch, TypeOK, tables
<1>5. ASSUME NEW w \in Workers, CompleteOperation(w) PROVE TypeOK'
  <2>1. Current(w) \in Runs
    BY <1>5 DEF CompleteOperation, IInv, Knowledge, WorkersKnowTheirRuns
  <2>2. ops' \in [Runs -> Ops]
    BY <1>5, <1>t, <2>1, FinishType DEF CompleteOperation, TypeOK, OpStates
  <2>3. workers' \in [Workers -> WorkerStates]
    BY <1>5, <1>t, GotoType DEF CompleteOperation, TypeOK, WorkerSteps
  <2>4. events' \in [Runs -> SUBSET {"submitted", "launch_accepted", "launch_failed"}]
    BY <1>5, <1>t DEF CompleteOperation, TypeOK
  <2>5. QED
    BY <1>5, <1>t, <2>2, <2>3, <2>4 DEF CompleteOperation, TypeOK, cluster
<1>6. ASSUME NEW w \in Workers, RetryOperation(w) PROVE TypeOK'
  <2>1. Current(w) \in Runs
    BY <1>6 DEF RetryOperation, IInv, Knowledge, WorkersKnowTheirRuns
  <2>2. ops' \in [Runs -> Ops]
    BY <1>6, <1>t, <2>1, FinishType DEF RetryOperation, TypeOK, OpStates
  <2>3. workers' \in [Workers -> WorkerStates]
    BY <1>6, <1>t, GotoType DEF RetryOperation, TypeOK, WorkerSteps
  <2>4. QED
    BY <1>6, <1>t, <2>2, <2>3 DEF RetryOperation, TypeOK, cluster
<1>7. ASSUME NEW w \in Workers, LoadRun(w) PROVE TypeOK'
  <2>1. Current(w) \in Runs
    BY <1>7 DEF LoadRun, IInv, Knowledge, WorkersKnowTheirRuns
  <2>2. rows[Current(w)] \in Rows
    BY <1>t, <2>1 DEF TypeOK
  <2>3. workers' \in [Workers -> WorkerStates]
    <3>1. CASE rows[Current(w)].exists
      <4>1. workers' = [workers EXCEPT ![w].pc = "fail", ![w].row = rows[Current(w)]]
        BY <1>7, <3>1 DEF LoadRun
      <4>2. QED
        <5>1. "fail" \in WorkerSteps
          BY DEF WorkerSteps
        <5>2. [workers[w] EXCEPT !.pc = "fail", !.row = rows[Current(w)]] \in WorkerStates
          BY <1>t, <2>2, <5>1 DEF TypeOK, WorkerStates
        <5>3. workers' = [workers EXCEPT ![w] =
                           [workers[w] EXCEPT !.pc = "fail", !.row = rows[Current(w)]]]
          BY <1>t, <4>1 DEF TypeOK
        <5>4. QED
          BY <1>t, <5>2, <5>3 DEF TypeOK
    <3>2. CASE ~rows[Current(w)].exists
      BY <1>7, <1>t, <3>2, GotoType DEF LoadRun, Goto, TypeOK, WorkerSteps
    <3>3. QED
      BY <3>1, <3>2
  <2>4. QED
    BY <1>7, <1>t, <2>3 DEF LoadRun, TypeOK, cluster, tables
<1>8. ASSUME NEW w \in Workers, FailOperation(w) PROVE TypeOK'
  <2>1. Current(w) \in Runs
    BY <1>8 DEF FailOperation, IInv, Knowledge, WorkersKnowTheirRuns
  <2>2. ops' \in [Runs -> Ops]
    BY <1>8, <1>t, <2>1, FinishType DEF FailOperation, TypeOK, OpStates, tables
  <2>3. workers' \in [Workers -> WorkerStates]
    BY <1>8, <1>t, GotoType DEF FailOperation, TypeOK, WorkerSteps
  <2>4. [workers[w].row EXCEPT !.phase = "Failed"] \in Rows
    <3>1. workers[w].row \in Rows
      BY <1>t DEF TypeOK, WorkerStates
    <3>2. QED
      BY <3>1 DEF Rows, RowPhases
  <2>5. rows' \in [Runs -> Rows]
    BY <1>8, <1>t, <2>4 DEF FailOperation, TypeOK, tables
  <2>6. events' \in [Runs -> SUBSET {"submitted", "launch_accepted", "launch_failed"}]
    BY <1>8, <1>t DEF FailOperation, TypeOK, tables
  <2>7. QED
    BY <1>8, <1>t, <2>2, <2>3, <2>5, <2>6 DEF FailOperation, TypeOK, cluster
<1>9. ASSUME NEW w \in Workers, Die(w) PROVE TypeOK'
  BY <1>9, <1>t, Constants DEF Die, Fault, TypeOK, cluster, tables
<1>10. ASSUME NEW r \in Runs, ExpireLease(r) PROVE TypeOK'
  <2>1. ops' \in [Runs -> Ops]
    BY <1>10, <1>t DEF ExpireLease, TypeOK, Ops
  <2>2. faults' \in Nat
    BY <1>10, <1>t DEF ExpireLease, Fault, TypeOK
  <2>3. QED
    BY <1>10, <1>t, <2>1, <2>2 DEF ExpireLease, TypeOK, cluster
<1>11. ASSUME NEW r \in Runs, OperatorMoves(r) PROVE TypeOK'
  <2>1. crs[r].status + 1 \in Statuses
    BY <1>11, <1>t, OutboxConstants DEF OperatorMoves, TypeOK, CRs, Statuses
  <2>2. crs' \in [Runs -> CRs]
    BY <1>11, <1>t, <2>1 DEF OperatorMoves, TypeOK, CRs
  <2>3. QED
    BY <1>11, <1>t, <2>2 DEF OperatorMoves, TypeOK, tables
<1>12. ASSUME NEW p \in Readers, NEW r \in Runs, GetRun(p, r) PROVE TypeOK'
  <2>1. [IdleReader EXCEPT !.pc = "readCR", !.run = r, !.row = rows[r]] \in ReaderStates
    BY <1>t, Constants DEF TypeOK, ReaderStates, ReaderSteps
  <2>2. QED
    BY <1>12, <1>t, <2>1 DEF GetRun, TypeOK, cluster, tables
<1>13. ASSUME NEW p \in Readers, NEW r \in Runs, ListCR(p, r) PROVE TypeOK'
  <2>1. [IdleReader EXCEPT !.pc = "readRow", !.run = r, !.cr = crs[r]] \in ReaderStates
    BY <1>t, Constants DEF TypeOK, ReaderStates, ReaderSteps
  <2>2. QED
    BY <1>13, <1>t, <2>1 DEF ListCR, TypeOK, cluster, tables
<1>14. ASSUME NEW p \in Readers, ReadCR(p) PROVE TypeOK'
  <2>1. readers[p].run \in Runs
    BY <1>14 DEF ReadCR, IInv, Knowledge, ReadersSawObject
  <2>2. [readers[p] EXCEPT !.pc = "upsert", !.cr = crs[readers[p].run]] \in ReaderStates
    BY <1>t, <2>1 DEF TypeOK, ReaderStates, ReaderSteps
  <2>3. readers' \in [Readers -> ReaderStates]
    BY <1>14, <1>t, <2>2, Constants DEF ReadCR, TypeOK
  <2>4. QED
    BY <1>14, <1>t, <2>3 DEF ReadCR, TypeOK, cluster, tables
<1>15. ASSUME NEW p \in Readers, ReadRow(p) PROVE TypeOK'
  <2>1. rows[readers[p].run] \in Rows
    BY <1>15, <1>t DEF ReadRow, IInv, Knowledge, ReadersSawObject, TypeOK
  <2> DEFINE next == [readers[p] EXCEPT !.pc = "upsert", !.row = rows[readers[p].run]]
  <2>2. next \in ReaderStates
    BY <1>t, <2>1 DEF TypeOK, ReaderStates, ReaderSteps
  <2>3. readers' = [readers EXCEPT ![p] = next]
    BY <1>15 DEF ReadRow
  <2>4. readers' \in [Readers -> ReaderStates]
    <3> HIDE DEF next
    <3> QED
      BY <1>t, <2>2, <2>3 DEF TypeOK
  <2>5. QED
    BY <1>15, <1>t, <2>4 DEF ReadRow, TypeOK, cluster, tables
<1>16. ASSUME NEW p \in Readers, Upsert(p) PROVE TypeOK'
  <2>1. Mirror(readers[p].row, readers[p].cr) \in Rows
    BY <1>t, MirrorType DEF TypeOK, ReaderStates
  <2>2. QED
    BY <1>16, <1>t, <2>1, Constants DEF Upsert, TypeOK, cluster
<1>17. ASSUME NEW r \in Runs, DeleteRun(r) PROVE TypeOK'
  BY <1>17, <1>t DEF DeleteRun, TypeOK, cluster, tables
<1>18. ASSUME NEW r \in Runs, DeleteCR(r) PROVE TypeOK'
  BY <1>18, <1>t, Constants DEF DeleteCR, TypeOK, tables
<1>19. ASSUME NEW r \in Runs, DeleteRow(r) PROVE TypeOK'
  <2>1. [NoOp EXCEPT !.state = "deleted"] \in Ops
    BY Constants DEF Ops, OpStates
  <2>2. QED
    BY <1>19, <1>t, <2>1, Constants DEF DeleteRow, TypeOK, cluster
<1>20. CASE UNCHANGED vars
  BY <1>20, <1>t DEF vars, TypeOK
<1>21. QED
  BY <1>1, <1>2, <1>3, <1>4, <1>5, <1>6, <1>7, <1>8, <1>9, <1>10, <1>11, <1>12, <1>13,
     <1>14, <1>15, <1>16, <1>17, <1>18, <1>19, <1>20 DEF Next, WorkerStep, ReaderStep

-----------------------------------------------------------------------------
(* The rest of the invariant is preserved.                                 *)

\* Every step keeps what rows, operations, journal and processes know of each
\* other.
LEMMA KnowledgeStep == IInv /\ [Next]_vars => Knowledge'
<1> SUFFICES ASSUME IInv, [Next]_vars PROVE Knowledge' OBVIOUS
<1>t. TypeOK /\ TypeOK'
  BY TypeStep DEF IInv
<1>k. Knowledge
  BY DEF IInv
<1>1. ASSUME NEW r \in Runs, CreateRun(r) PROVE Knowledge'
  BY <1>1, <1>t, <1>k DEF Knowledge, WorkersKnowTheirRuns, CompletedWasLaunched, LoadedRowExists,
     ObjectWasLaunched, ReadersSawObject, JournalMatches, WorkIsNeverLost,
     OnlySubmittedRuns, Pc, Current,
     CreateRun, TypeOK, cluster, Ops
<1>2. ASSUME NEW w \in Workers, NEW B \in SUBSET Runs, ClaimOperations(w, B) PROVE Knowledge'
  <2>1. \A q \in Runs : ops'[q].state = IF q \in B THEN "processing" ELSE ops[q].state
    BY <1>2, <1>t DEF ClaimOperations, TypeOK, Ops
  <2>2. \A q \in B : ops[q].state \in {"pending", "processing"}
    BY <1>2 DEF ClaimOperations, Batch, Ready
  <2>3. \A v \in Workers : IF v = w THEN workers'[v].pc = "next" /\ workers'[v].held = B
                           ELSE workers'[v] = workers[v]
    BY <1>2, <1>t DEF ClaimOperations, TypeOK, IdleWorker
  <2>4. WorkersKnowTheirRuns'
    <3>1. \A q \in Runs : ops[q].state # "none" => ops'[q].state # "none"
      BY <2>1, <2>2
    <3>2. \A v \in Workers : workers[v].held \subseteq Runs
      BY <1>t DEF TypeOK, WorkerStates
    <3>3. QED
      BY <1>k, <2>1, <2>3, <3>1, <3>2 DEF Knowledge, WorkersKnowTheirRuns, Pc, Current
  <2>5. CompletedWasLaunched' /\ LoadedRowExists'
    BY <1>2, <1>k, <2>3 DEF ClaimOperations, Knowledge, CompletedWasLaunched, LoadedRowExists,
       Pc, Current, cluster
  <2>6. JournalMatches' /\ WorkIsNeverLost'
    BY <1>2, <1>k, <2>1, <2>2 DEF ClaimOperations, Knowledge, JournalMatches, WorkIsNeverLost, cluster
  <2>7. OnlySubmittedRuns'
    BY <1>2, <1>k, <2>1, <2>2 DEF ClaimOperations, Knowledge, OnlySubmittedRuns, cluster
  <2>8. QED
    BY <1>2, <1>k, <2>4, <2>5, <2>6, <2>7 DEF ClaimOperations, Knowledge, ObjectWasLaunched,
       ReadersSawObject, cluster
<1>3. ASSUME NEW w \in Workers, NextOperation(w) PROVE Knowledge'
  <2>1. \A v \in Workers \ {w} : workers'[v] = workers[v]
    BY <1>3, <1>t DEF NextOperation, TypeOK
  <2>2. \/ workers'[w].pc = "idle" /\ workers'[w].held = {}
        \/ /\ workers'[w].pc = "launch"
           /\ workers'[w].run \in workers[w].held
           /\ workers'[w].held \subseteq workers[w].held
    <3>1. CASE workers' = [workers EXCEPT ![w] = IdleWorker]
      BY <1>t, <3>1 DEF TypeOK, IdleWorker
    <3>2. ASSUME NEW r \in workers[w].held,
                 workers' = [workers EXCEPT ![w].pc = "launch", ![w].run = r, ![w].held = @ \ {r}]
          PROVE  /\ workers'[w].pc = "launch"
                 /\ workers'[w].run \in workers[w].held
                 /\ workers'[w].held \subseteq workers[w].held
      BY <1>t, <3>2 DEF TypeOK, WorkerStates
    <3>3. QED
      BY <1>3, <3>1, <3>2 DEF NextOperation
  <2>3. workers[w].held \subseteq Runs
    BY <1>t DEF TypeOK, WorkerStates
  <2>4. WorkersKnowTheirRuns'
    BY <1>3, <1>k, <2>1, <2>2, <2>3 DEF NextOperation, Knowledge, WorkersKnowTheirRuns,
       Pc, Current, tables
  <2>5. CompletedWasLaunched' /\ LoadedRowExists'
    BY <1>3, <1>k, <2>1, <2>2 DEF NextOperation, Knowledge, CompletedWasLaunched,
       LoadedRowExists, Pc, Current, cluster
  <2>6. QED
    BY <1>3, <1>k, <2>4, <2>5 DEF NextOperation, Knowledge, ObjectWasLaunched,
       ReadersSawObject, JournalMatches, WorkIsNeverLost, OnlySubmittedRuns, cluster, tables
<1>4. ASSUME NEW w \in Workers, Launch(w) PROVE Knowledge'
  <2>1. Current(w) \in Runs /\ ops[Current(w)].state # "none"
    BY <1>4, <1>k DEF Launch, Knowledge, WorkersKnowTheirRuns
  <2>2. \A r \in Runs : (launched[r] => launched'[r]) /\ (crs'[r].exists => launched'[r])
    BY <1>4, <1>t, <1>k, <2>1 DEF Launch, CreateObject, TypeOK, Knowledge, ObjectWasLaunched, cluster
  <2>3. PICK step \in {"complete", "retry", "loadRun"} :
          Goto(w, step) /\ (step = "complete" => launched'[Current(w)])
    <3>1. CASE CreateObject(Current(w))
      BY <1>4, <1>t, <2>1, <3>1 DEF Launch, CreateObject, TypeOK
    <3>2. CASE ~CreateObject(Current(w))
      BY <1>4, <1>k, <2>1, <3>2 DEF Launch, Knowledge, ObjectWasLaunched, cluster
    <3>3. QED
      BY <1>4, <3>1, <3>2 DEF Launch
  <2>4. \A v \in Workers :
           /\ workers'[v].pc = IF v = w THEN step ELSE workers[v].pc
           /\ workers'[v].held = workers[v].held
           /\ workers'[v].run = workers[v].run
           /\ workers'[v].row = workers[v].row
    BY <1>t, <2>3, GotoEffect DEF TypeOK
  <2>5. WorkersKnowTheirRuns'
    BY <1>4, <1>k, <2>1, <2>4 DEF Launch, Knowledge, WorkersKnowTheirRuns, Pc, Current, tables
  <2>6. CompletedWasLaunched'
    BY <1>k, <2>2, <2>3, <2>4 DEF Knowledge, CompletedWasLaunched, WorkersKnowTheirRuns, Pc, Current
  <2>7. LoadedRowExists'
    BY <1>k, <2>3, <2>4 DEF Knowledge, LoadedRowExists, Pc
  <2>8. ObjectWasLaunched' /\ ReadersSawObject' /\ WorkIsNeverLost'
    BY <1>4, <1>k, <2>2 DEF Launch, Knowledge, ObjectWasLaunched, ReadersSawObject, WorkIsNeverLost, tables
  <2>9. OnlySubmittedRuns'
    BY <1>4, <1>t, <1>k, <2>1 DEF Launch, CreateObject, TypeOK, Knowledge, OnlySubmittedRuns,
       tables, cluster
  <2>10. QED
    BY <1>4, <1>k, <2>5, <2>6, <2>7, <2>8, <2>9 DEF Launch, Knowledge, JournalMatches, tables
<1>5. ASSUME NEW w \in Workers, CompleteOperation(w) PROVE Knowledge'
  <2>1. Current(w) \in Runs
    BY <1>5, <1>k DEF CompleteOperation, Knowledge, WorkersKnowTheirRuns
  <2>2. PICK step \in {"next"} : Goto(w, step)
    BY <1>5 DEF CompleteOperation
  <2>3. \A v \in Workers :
           /\ workers'[v].pc = IF v = w THEN step ELSE workers[v].pc
           /\ workers'[v].held = workers[v].held
           /\ workers'[v].run = workers[v].run
           /\ workers'[v].row = workers[v].row
    BY <1>t, <2>2, GotoEffect DEF TypeOK
  <2>4. \/ /\ ops[Current(w)].state = "processing"
           /\ \A q \in Runs : ops'[q].state = IF q = Current(w) THEN "completed" ELSE ops[q].state
        \/ UNCHANGED ops
    BY <1>5, <1>t, <2>1, FinishEffect DEF CompleteOperation, Holds, TypeOK, tables
  <2>5. WorkersKnowTheirRuns'
    <3>1. \A v \in Workers : workers[v].held \subseteq Runs
      BY <1>t DEF TypeOK, WorkerStates
    <3>2. \A q \in Runs : ops[q].state # "none" => ops'[q].state # "none"
      BY <2>4
    <3>3. \A v \in Workers : workers'[v].pc \notin {"idle", "next"} =>
                                workers[v].pc \notin {"idle", "next"}
      BY <1>5, <2>2, <2>3 DEF CompleteOperation, Pc
    <3>4. QED
      BY <1>k, <2>3, <3>1, <3>2, <3>3 DEF Knowledge, WorkersKnowTheirRuns, Pc, Current
  <2>6. CompletedWasLaunched' /\ LoadedRowExists'
    BY <1>5, <1>k, <2>2, <2>3 DEF CompleteOperation, Knowledge, CompletedWasLaunched, LoadedRowExists,
       Pc, Current, cluster
  <2>7. JournalMatches'
    <3>1. CASE UNCHANGED <<ops, events>>
      BY <1>k, <3>1 DEF Knowledge, JournalMatches
    <3>2. CASE Holds(w, Current(w))
      <4>1. /\ \A q \in Runs \ {Current(w)} : events'[q] = events[q]
            /\ events'[Current(w)] = events[Current(w)] \cup {"launch_accepted"}
        BY <1>5, <1>t, <2>1, <3>2 DEF CompleteOperation, TypeOK
      <4>2. \A q \in Runs : ops'[q].state = IF q = Current(w) THEN "completed" ELSE ops[q].state
        BY <1>5, <1>t, <2>1, <3>2, FinishEffect DEF CompleteOperation, TypeOK
      <4>3. QED
        BY <1>k, <2>1, <3>2, <4>1, <4>2 DEF Knowledge, JournalMatches, Holds
    <3>3. QED
      BY <1>5, <3>1, <3>2 DEF CompleteOperation
  <2>8. WorkIsNeverLost'
    <3>1. launched[Current(w)]
      BY <1>5, <1>k DEF CompleteOperation, Knowledge, CompletedWasLaunched
    <3>2. QED
      BY <1>5, <1>k, <2>4, <3>1 DEF CompleteOperation, Knowledge, WorkIsNeverLost, cluster
  <2>9. OnlySubmittedRuns'
    BY <1>5, <1>k, <2>4 DEF CompleteOperation, Knowledge, OnlySubmittedRuns, cluster
  <2>10. QED
    BY <1>5, <1>k, <2>5, <2>6, <2>7, <2>8, <2>9 DEF CompleteOperation, Knowledge,
       ObjectWasLaunched, ReadersSawObject, cluster
<1>6. ASSUME NEW w \in Workers, RetryOperation(w) PROVE Knowledge'
  <2>1. Current(w) \in Runs
    BY <1>6, <1>k DEF RetryOperation, Knowledge, WorkersKnowTheirRuns
  <2>2. PICK step \in {"next", "loadRun"} : Goto(w, step)
    BY <1>6 DEF RetryOperation
  <2>3. \A v \in Workers :
           /\ workers'[v].pc = IF v = w THEN step ELSE workers[v].pc
           /\ workers'[v].held = workers[v].held
           /\ workers'[v].run = workers[v].run
           /\ workers'[v].row = workers[v].row
    BY <1>t, <2>2, GotoEffect DEF TypeOK
  <2>4. \/ /\ ops[Current(w)].state = "processing"
           /\ \A q \in Runs : ops'[q].state = IF q = Current(w) THEN "pending" ELSE ops[q].state
        \/ UNCHANGED ops
    BY <1>6, <1>t, <2>1, FinishEffect DEF RetryOperation, Holds, TypeOK, tables
  <2>5. WorkersKnowTheirRuns'
    <3>1. \A v \in Workers : workers[v].held \subseteq Runs
      BY <1>t DEF TypeOK, WorkerStates
    <3>2. \A q \in Runs : ops[q].state # "none" => ops'[q].state # "none"
      BY <2>4
    <3>3. \A v \in Workers : workers'[v].pc \notin {"idle", "next"} =>
                                workers[v].pc \notin {"idle", "next"}
      BY <1>6, <2>2, <2>3 DEF RetryOperation, Pc
    <3>4. QED
      BY <1>k, <2>3, <3>1, <3>2, <3>3 DEF Knowledge, WorkersKnowTheirRuns, Pc, Current
  <2>6. CompletedWasLaunched' /\ LoadedRowExists'
    BY <1>6, <1>k, <2>2, <2>3 DEF RetryOperation, Knowledge, CompletedWasLaunched, LoadedRowExists,
       Pc, Current, cluster
  <2>7. JournalMatches' /\ WorkIsNeverLost'
    BY <1>6, <1>k, <2>4 DEF RetryOperation, Knowledge, JournalMatches, WorkIsNeverLost, cluster
  <2>8. OnlySubmittedRuns'
    BY <1>6, <1>k, <2>4 DEF RetryOperation, Knowledge, OnlySubmittedRuns, cluster
  <2>9. QED
    BY <1>6, <1>k, <2>5, <2>6, <2>7, <2>8 DEF RetryOperation, Knowledge, ObjectWasLaunched,
       ReadersSawObject, cluster
<1>7. ASSUME NEW w \in Workers, LoadRun(w) PROVE Knowledge'
  BY <1>7, <1>t, <1>k DEF Knowledge, WorkersKnowTheirRuns, CompletedWasLaunched, LoadedRowExists,
     ObjectWasLaunched, ReadersSawObject, JournalMatches, WorkIsNeverLost,
     OnlySubmittedRuns, Pc, Current,
     LoadRun, TypeOK, WorkerStates, cluster, tables
<1>8. ASSUME NEW w \in Workers, FailOperation(w) PROVE Knowledge'
  <2>1. Current(w) \in Runs
    BY <1>8, <1>k DEF FailOperation, Knowledge, WorkersKnowTheirRuns
  <2>2. PICK step \in {"next"} : Goto(w, step)
    BY <1>8 DEF FailOperation
  <2>3. \A v \in Workers :
           /\ workers'[v].pc = IF v = w THEN step ELSE workers[v].pc
           /\ workers'[v].held = workers[v].held
           /\ workers'[v].run = workers[v].run
           /\ workers'[v].row = workers[v].row
    BY <1>t, <2>2, GotoEffect DEF TypeOK
  <2>4. \/ /\ ops[Current(w)].state = "processing"
           /\ \A q \in Runs : ops'[q].state = IF q = Current(w) THEN "failed" ELSE ops[q].state
        \/ UNCHANGED ops
    BY <1>8, <1>t, <2>1, FinishEffect DEF FailOperation, Holds, TypeOK, tables
  <2>5. WorkersKnowTheirRuns'
    <3>1. \A v \in Workers : workers[v].held \subseteq Runs
      BY <1>t DEF TypeOK, WorkerStates
    <3>2. \A q \in Runs : ops[q].state # "none" => ops'[q].state # "none"
      BY <2>4
    <3>3. \A v \in Workers : workers'[v].pc \notin {"idle", "next"} =>
                                workers[v].pc \notin {"idle", "next"}
      BY <1>8, <2>2, <2>3 DEF FailOperation, Pc
    <3>4. QED
      BY <1>k, <2>3, <3>1, <3>2, <3>3 DEF Knowledge, WorkersKnowTheirRuns, Pc, Current
  <2>6. CompletedWasLaunched' /\ LoadedRowExists'
    BY <1>8, <1>k, <2>2, <2>3 DEF FailOperation, Knowledge, CompletedWasLaunched, LoadedRowExists,
       Pc, Current, cluster
  <2>7. JournalMatches' /\ WorkIsNeverLost'
    <3>1. CASE UNCHANGED tables
      BY <1>8, <1>k, <3>1 DEF FailOperation, Knowledge, JournalMatches, WorkIsNeverLost, tables, cluster
    <3>2. CASE rows[Current(w)].exists /\ Holds(w, Current(w))
      <4>1. /\ \A q \in Runs \ {Current(w)} : events'[q] = events[q]
            /\ events'[Current(w)] = events[Current(w)] \cup {"launch_failed"}
        BY <1>8, <1>t, <2>1, <3>2 DEF FailOperation, TypeOK
      <4>2. \A q \in Runs : ops'[q].state = IF q = Current(w) THEN "failed" ELSE ops[q].state
        BY <1>8, <1>t, <2>1, <3>2, FinishEffect DEF FailOperation, TypeOK
      <4>3. /\ \A q \in Runs \ {Current(w)} : rows'[q] = rows[q]
            /\ rows'[Current(w)].phase = "Failed"
        <5>1. rows' = [rows EXCEPT ![Current(w)] = [workers[w].row EXCEPT !.phase = "Failed"]]
          BY <1>8, <3>2 DEF FailOperation
        <5>2. workers[w].row \in Rows
          BY <1>t DEF TypeOK, WorkerStates
        <5>3. [workers[w].row EXCEPT !.phase = "Failed"].phase = "Failed"
          BY <5>2 DEF Rows
        <5>4. QED
          BY <1>t, <2>1, <5>1, <5>3 DEF TypeOK
      <4>4. JournalMatches'
        BY <1>k, <2>1, <3>2, <4>1, <4>2 DEF Knowledge, JournalMatches, Holds
      <4>5. WorkIsNeverLost'
        BY <1>8, <1>k, <2>1, <4>2, <4>3 DEF FailOperation, Knowledge, WorkIsNeverLost, cluster
      <4>6. QED
        BY <4>4, <4>5
    <3>3. QED
      BY <1>8, <3>1, <3>2 DEF FailOperation
  <2>8. OnlySubmittedRuns'
    <3>1. \A q \in Runs : rows'[q].exists => rows[q].exists \/ q = Current(w)
      BY <1>8, <1>t DEF FailOperation, TypeOK, tables
    <3>2. ops[Current(w)].state # "none"
      BY <1>8, <1>k DEF FailOperation, Knowledge, WorkersKnowTheirRuns
    <3>3. QED
      BY <1>8, <1>k, <2>4, <3>1, <3>2 DEF FailOperation, Knowledge, OnlySubmittedRuns, cluster
  <2>9. QED
    BY <1>8, <1>k, <2>5, <2>6, <2>7, <2>8 DEF FailOperation, Knowledge, ObjectWasLaunched,
       ReadersSawObject, cluster
<1>9. ASSUME NEW w \in Workers, Die(w) PROVE Knowledge'
  BY <1>9, <1>t, <1>k DEF Knowledge, WorkersKnowTheirRuns, CompletedWasLaunched, LoadedRowExists,
     ObjectWasLaunched, ReadersSawObject, JournalMatches, WorkIsNeverLost,
     OnlySubmittedRuns, Pc, Current,
     Die, TypeOK, IdleWorker, cluster, tables
<1>10. ASSUME NEW r \in Runs, ExpireLease(r) PROVE Knowledge'
  BY <1>10, <1>t, <1>k DEF Knowledge, WorkersKnowTheirRuns, CompletedWasLaunched, LoadedRowExists,
     ObjectWasLaunched, ReadersSawObject, JournalMatches, WorkIsNeverLost,
     OnlySubmittedRuns, Pc, Current,
     ExpireLease, TypeOK, Ops, cluster
<1>11. ASSUME NEW r \in Runs, OperatorMoves(r) PROVE Knowledge'
  BY <1>11, <1>t, <1>k DEF Knowledge, WorkersKnowTheirRuns, CompletedWasLaunched, LoadedRowExists,
     ObjectWasLaunched, ReadersSawObject, JournalMatches, WorkIsNeverLost,
     OnlySubmittedRuns, Pc, Current,
     OperatorMoves, TypeOK, CRs, tables
<1>12. ASSUME NEW p \in Readers, NEW r \in Runs, GetRun(p, r) PROVE Knowledge'
  BY <1>12, <1>t, <1>k DEF Knowledge, WorkersKnowTheirRuns, CompletedWasLaunched, LoadedRowExists,
     ObjectWasLaunched, ReadersSawObject, JournalMatches, WorkIsNeverLost,
     OnlySubmittedRuns, Pc, Current,
     GetRun, TypeOK, IdleReader, cluster, tables
<1>13. ASSUME NEW p \in Readers, NEW r \in Runs, ListCR(p, r) PROVE Knowledge'
  BY <1>13, <1>t, <1>k DEF Knowledge, WorkersKnowTheirRuns, CompletedWasLaunched, LoadedRowExists,
     ObjectWasLaunched, ReadersSawObject, JournalMatches, WorkIsNeverLost,
     OnlySubmittedRuns, Pc, Current,
     ListCR, TypeOK, IdleReader, cluster, tables
<1>14. ASSUME NEW p \in Readers, ReadCR(p) PROVE Knowledge'
  BY <1>14, <1>t, <1>k DEF Knowledge, WorkersKnowTheirRuns, CompletedWasLaunched, LoadedRowExists,
     ObjectWasLaunched, ReadersSawObject, JournalMatches, WorkIsNeverLost,
     OnlySubmittedRuns, Pc, Current,
     ReadCR, TypeOK, IdleReader, ReaderStates, cluster, tables
<1>15. ASSUME NEW p \in Readers, ReadRow(p) PROVE Knowledge'
  BY <1>15, <1>t, <1>k DEF Knowledge, WorkersKnowTheirRuns, CompletedWasLaunched, LoadedRowExists,
     ObjectWasLaunched, ReadersSawObject, JournalMatches, WorkIsNeverLost,
     OnlySubmittedRuns, Pc, Current,
     ReadRow, TypeOK, ReaderStates, cluster, tables
<1>16. ASSUME NEW p \in Readers, Upsert(p) PROVE Knowledge'
  BY <1>16, <1>t, <1>k DEF Knowledge, WorkersKnowTheirRuns, CompletedWasLaunched, LoadedRowExists,
     ObjectWasLaunched, ReadersSawObject, JournalMatches, WorkIsNeverLost,
     OnlySubmittedRuns, Pc, Current,
     Upsert, TypeOK, IdleReader, cluster
<1>17. ASSUME NEW r \in Runs, DeleteRun(r) PROVE Knowledge'
  BY <1>17, <1>t, <1>k DEF Knowledge, WorkersKnowTheirRuns, CompletedWasLaunched, LoadedRowExists,
     ObjectWasLaunched, ReadersSawObject, JournalMatches, WorkIsNeverLost,
     OnlySubmittedRuns, Pc, Current,
     DeleteRun, TypeOK, cluster, tables
<1>18. ASSUME NEW r \in Runs, DeleteCR(r) PROVE Knowledge'
  BY <1>18, <1>t, <1>k DEF Knowledge, WorkersKnowTheirRuns, CompletedWasLaunched, LoadedRowExists,
     ObjectWasLaunched, ReadersSawObject, JournalMatches, WorkIsNeverLost,
     OnlySubmittedRuns, Pc, Current,
     DeleteCR, TypeOK, NoCR, tables
<1>19. ASSUME NEW r \in Runs, DeleteRow(r) PROVE Knowledge'
  <2>1. \A q \in Runs : ops'[q].state = IF q = r THEN "deleted" ELSE ops[q].state
    BY <1>19, <1>t DEF DeleteRow, TypeOK, NoOp
  <2>2. \A q \in Runs : events'[q] = IF q = r THEN {} ELSE events[q]
    BY <1>19, <1>t DEF DeleteRow, TypeOK
  <2>3. \A q \in Runs : rows'[q] = IF q = r THEN NoRow ELSE rows[q]
    BY <1>19, <1>t DEF DeleteRow, TypeOK
  <2>4. WorkersKnowTheirRuns'
    <3>1. \A v \in Workers : workers[v].held \subseteq Runs
      BY <1>t DEF TypeOK, WorkerStates
    <3>2. QED
      BY <1>19, <1>k, <2>1, <3>1 DEF DeleteRow, Knowledge, WorkersKnowTheirRuns, Pc, Current
  <2>5. JournalMatches' /\ WorkIsNeverLost'
    <3>1. JournalMatches'
      BY <1>k, <2>1, <2>2 DEF Knowledge, JournalMatches
    <3>2. ~rows'[r].exists /\ \A q \in Runs \ {r} : rows'[q] = rows[q]
      <4>1. ~NoRow.exists
        BY DEF NoRow
      <4>2. rows'[r] = NoRow
        BY <2>3
      <4>3. QED
        BY <2>3, <4>1, <4>2
    <3>3. WorkIsNeverLost'
      BY <1>19, <1>k, <2>1, <3>2 DEF DeleteRow, Knowledge, WorkIsNeverLost, cluster
    <3>4. QED
      BY <3>1, <3>3
  <2>6. OnlySubmittedRuns'
    BY <1>19, <1>t, <1>k, <2>1, <2>3 DEF DeleteRow, TypeOK, Knowledge, OnlySubmittedRuns, cluster
  <2>7. QED
    BY <1>19, <1>k, <2>4, <2>5, <2>6 DEF DeleteRow, Knowledge, CompletedWasLaunched, LoadedRowExists,
       ObjectWasLaunched, ReadersSawObject, Pc, Current, cluster
<1>20. CASE UNCHANGED vars
  BY <1>20, <1>k DEF vars, Knowledge, WorkersKnowTheirRuns, CompletedWasLaunched, LoadedRowExists,
     ObjectWasLaunched, ReadersSawObject, JournalMatches, WorkIsNeverLost,
     OnlySubmittedRuns, Pc, Current
<1>21. QED
  BY <1>1, <1>2, <1>3, <1>4, <1>5, <1>6, <1>7, <1>8, <1>9, <1>10, <1>11, <1>12, <1>13,
     <1>14, <1>15, <1>16, <1>17, <1>18, <1>19, <1>20 DEF Next, WorkerStep, ReaderStep

\* IInv is inductive.
LEMMA InvStep == IInv /\ [Next]_vars => IInv'
BY TypeStep, KnowledgeStep DEF IInv

-----------------------------------------------------------------------------
(* Safety.                                                                 *)

\* IInv holds in every reachable state.
THEOREM Invariance == Spec => []IInv
BY InitEstablishes, InvStep, PTL DEF Spec

\* Tables, objects and processes keep their types.
THEOREM TypeCorrect == Spec => []TypeOK
BY Invariance, PTL DEF IInv

\* However workers race for an operation, the journal never holds two verdicts.
THEOREM OneVerdictHolds == Spec => []OneVerdict
<1>1. IInv => OneVerdict
  BY DEF IInv, Knowledge, JournalMatches, OneVerdict
<1>2. QED
  BY Invariance, <1>1, PTL

\* No submitted run is forgotten, whatever dies or is deleted.
THEOREM WorkIsNeverLostHolds == Spec => []WorkIsNeverLost
BY Invariance, PTL DEF IInv, Knowledge

-----------------------------------------------------------------------------
(* The outbox implements the abstract request.                             *)

\* Initially no request has been submitted.
LEMMA RequestInit == Init => Request!Init
BY DEF Init, Request!Init, Verdict, NoOp

\* A step that leaves verdicts and launches alone is a stutter.
LEMMA RequestStutter ==
  ASSUME \A r \in Runs : Verdict(ops'[r]) = Verdict(ops[r]), launched' = launched
  PROVE  UNCHANGED Request!vars
BY DEF Request!vars

\* Every step is a step of the abstract request or leaves it alone.
LEMMA RequestStep == IInv /\ IInv' /\ [Next]_vars => [Request!Next]_Request!vars
<1> SUFFICES ASSUME IInv, IInv', [Next]_vars PROVE [Request!Next]_Request!vars OBVIOUS
<1> USE DEF Verdict
<1>t. TypeOK /\ TypeOK' /\ Knowledge
  BY DEF IInv
<1>1. ASSUME NEW r \in Runs, CreateRun(r) PROVE Request!Submit(r)
  <2>1. \A q \in Runs : ops'[q].state = IF q = r THEN "pending" ELSE ops[q].state
    BY <1>1, <1>t DEF CreateRun, TypeOK, Ops
  <2>2. Verdict(ops[r]) = "none" /\ Verdict(ops'[r]) = "open"
    BY <1>1, <2>1 DEF CreateRun
  <2>3. \A q \in Runs \ {r} : Verdict(ops'[q]) = Verdict(ops[q])
    BY <2>1
  <2>4. QED
    BY <1>1, <2>2, <2>3 DEF CreateRun, Request!Submit, cluster
<1>2. ASSUME NEW w \in Workers, NEW B \in SUBSET Runs, ClaimOperations(w, B)
      PROVE UNCHANGED Request!vars
  <2>1. \A q \in Runs : ops'[q].state = IF q \in B THEN "processing" ELSE ops[q].state
    BY <1>2, <1>t DEF ClaimOperations, TypeOK, Ops
  <2>2. \A q \in B : ops[q].state \in {"pending", "processing"}
    BY <1>2 DEF ClaimOperations, Batch, Ready
  <2>3. QED
    BY <1>2, <2>1, <2>2, RequestStutter DEF ClaimOperations, cluster
<1>3. ASSUME NEW w \in Workers, Launch(w)
      PROVE Request!Launch(Current(w)) \/ UNCHANGED Request!vars
  <2>1. Current(w) \in Runs /\ ops[Current(w)].state # "none"
    BY <1>3, <1>t DEF Launch, Knowledge, WorkersKnowTheirRuns
  <2>2. CASE CreateObject(Current(w))
    BY <1>3, <2>1, <2>2 DEF Launch, CreateObject, Request!Launch, tables
  <2>3. CASE ~CreateObject(Current(w))
    BY <1>3, <2>3, RequestStutter DEF Launch, cluster, tables
  <2>4. QED
    BY <2>2, <2>3
<1>4. ASSUME NEW w \in Workers, CompleteOperation(w)
      PROVE (\E r \in Runs : Request!Accept(r)) \/ UNCHANGED Request!vars
  <2>1. Current(w) \in Runs /\ launched[Current(w)]
    BY <1>4, <1>t DEF CompleteOperation, Knowledge, WorkersKnowTheirRuns, CompletedWasLaunched
  <2>2. CASE Holds(w, Current(w))
    <3>1. \A q \in Runs : ops'[q].state = IF q = Current(w) THEN "completed" ELSE ops[q].state
      BY <1>4, <1>t, <2>1, <2>2, FinishEffect DEF CompleteOperation, TypeOK
    <3>2. QED
      BY <1>4, <2>1, <2>2, <3>1 DEF CompleteOperation, Holds, Request!Accept, cluster
  <2>3. CASE ~Holds(w, Current(w))
    BY <1>4, <2>3, RequestStutter DEF CompleteOperation, cluster
  <2>4. QED
    BY <2>2, <2>3
<1>5. ASSUME NEW w \in Workers, RetryOperation(w) PROVE UNCHANGED Request!vars
  <2>1. Current(w) \in Runs
    BY <1>5, <1>t DEF RetryOperation, Knowledge, WorkersKnowTheirRuns
  <2>2. \/ /\ ops[Current(w)].state = "processing"
           /\ \A q \in Runs : ops'[q].state = IF q = Current(w) THEN "pending" ELSE ops[q].state
        \/ UNCHANGED ops
    BY <1>5, <1>t, <2>1, FinishEffect DEF RetryOperation, Holds, TypeOK
  <2>3. QED
    BY <1>5, <2>2, RequestStutter DEF RetryOperation, cluster
<1>6. ASSUME NEW w \in Workers, FailOperation(w)
      PROVE (\E r \in Runs : Request!Fail(r)) \/ UNCHANGED Request!vars
  <2>1. Current(w) \in Runs
    BY <1>6, <1>t DEF FailOperation, Knowledge, WorkersKnowTheirRuns
  <2>2. CASE rows[Current(w)].exists /\ Holds(w, Current(w))
    <3>1. \A q \in Runs : ops'[q].state = IF q = Current(w) THEN "failed" ELSE ops[q].state
      BY <1>6, <1>t, <2>1, <2>2, FinishEffect DEF FailOperation, TypeOK
    <3>2. QED
      BY <1>6, <2>1, <2>2, <3>1 DEF FailOperation, Holds, Request!Fail, cluster
  <2>3. CASE ~(rows[Current(w)].exists /\ Holds(w, Current(w)))
    BY <1>6, <2>3, RequestStutter DEF FailOperation, cluster, tables
  <2>4. QED
    BY <2>2, <2>3
<1>7. ASSUME NEW r \in Runs, ExpireLease(r) PROVE UNCHANGED Request!vars
  <2>1. \A q \in Runs : ops'[q].state = ops[q].state
    BY <1>7, <1>t DEF ExpireLease, TypeOK, Ops
  <2>2. QED
    BY <1>7, <2>1, RequestStutter DEF ExpireLease, cluster
<1>8. ASSUME NEW r \in Runs, DeleteRow(r) PROVE Request!Delete(r)
  <2>1. \A q \in Runs : ops'[q].state = IF q = r THEN "deleted" ELSE ops[q].state
    BY <1>8, <1>t DEF DeleteRow, TypeOK, NoOp
  <2>2. Verdict(ops[r]) # "none" /\ Verdict(ops'[r]) = "deleted"
    BY <1>8, <1>t, <2>1 DEF DeleteRow, Knowledge, OnlySubmittedRuns
  <2>3. \A q \in Runs \ {r} : Verdict(ops'[q]) = Verdict(ops[q])
    BY <2>1
  <2>4. QED
    BY <1>8, <2>2, <2>3 DEF DeleteRow, Request!Delete, cluster
<1>9. CASE UNCHANGED <<ops, launched>>
  BY <1>9, RequestStutter
<1>10. ASSUME NEW w \in Workers, NextOperation(w) \/ LoadRun(w) \/ Die(w)
       PROVE UNCHANGED <<ops, launched>>
  BY <1>10 DEF NextOperation, LoadRun, Die, tables, cluster
<1>11. ASSUME NEW p \in Readers, ReaderStep(p) PROVE UNCHANGED <<ops, launched>>
  BY <1>11 DEF ReaderStep, GetRun, ReadCR, ListCR, ReadRow, Upsert, tables, cluster
<1>12. ASSUME NEW r \in Runs, OperatorMoves(r) \/ DeleteRun(r) \/ DeleteCR(r)
       PROVE UNCHANGED <<ops, launched>>
  BY <1>12 DEF OperatorMoves, DeleteRun, DeleteCR, tables, cluster
<1>13. CASE UNCHANGED vars
  BY <1>9, <1>13 DEF vars
<1>14. ASSUME NEW w \in Workers, WorkerStep(w) \/ Die(w)
       PROVE  UNCHANGED Request!vars \/ Request!Next
  <2>1. Pc(w) \notin {"idle", "next"} => Current(w) \in Runs
    BY <1>t DEF Knowledge, WorkersKnowTheirRuns
  <2>2. CASE Launch(w)
    BY <1>3, <2>1, <2>2 DEF Launch, Request!Next
  <2>3. CASE CompleteOperation(w)
    BY <1>4, <2>3 DEF Request!Next
  <2>4. CASE FailOperation(w)
    BY <1>6, <2>4 DEF Request!Next
  <2>5. QED
    BY <1>2, <1>5, <1>9, <1>10, <1>14, <2>2, <2>3, <2>4 DEF WorkerStep
<1>15. QED
  BY <1>1, <1>7, <1>8, <1>9, <1>11, <1>12, <1>13, <1>14 DEF Next, Request!Next

\* Leases, retries, deaths and deletions implement the abstract launch request.
THEOREM Refinement == Spec => ImplementsLaunchRequest
BY Invariance, RequestInit, RequestStep, PTL DEF Spec, ImplementsLaunchRequest, Request!Spec

=============================================================================
