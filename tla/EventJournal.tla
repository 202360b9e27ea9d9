---------------------------- MODULE EventJournal ----------------------------
(***************************************************************************)
(* How what a harness writes to its event file reaches the run's journal.  *)
(*                                                                         *)
(* The harness appends lines to a file in its pod.  The gateway sidecar    *)
(* reads them one by one and posts each to the control plane until it is   *)
(* answered 201 or 204; it keeps no cursor, so after a restart it posts    *)
(* the whole file again.  An answer can be lost while the request goes on, *)
(* so several request handlers can be at work on one event.  The journal   *)
(* has one row per source identifier and hands it out by ascending id to   *)
(* readers that come back with the last id they saw.  Postgres gives out   *)
(* an id before the row is visible; the in-memory store does both under    *)
(* one lock.  Snapshots of the AgentRun go to the same journal.            *)
(***************************************************************************)
EXTENDS Naturals, Sequences, FiniteSets

CONSTANTS
  MaxAttempts,   \* bound: pods of the run, one after another
  MaxLines,      \* bound: lines written to the event files of all its pods
  MaxSnapshots,  \* bound: resource versions mirrored into the journal
  MaxFaults,     \* bound: lost answers, store failures, gateway restarts
  PageLimit,     \* the limit of a reader's page
  Handlers,      \* request handlers of the apiserver replicas
  Stores         \* the kinds of store explored: "postgres", "memory"

ASSUME JournalAssumption ==
  /\ MaxAttempts \in Nat \ {0}
  /\ MaxLines \in Nat /\ MaxSnapshots \in Nat /\ MaxFaults \in Nat
  /\ PageLimit \in Nat \ {0}
  /\ Stores \subseteq {"postgres", "memory"}
  /\ "none" \notin Handlers

VARIABLES
  store,     \* the store this control plane runs on
  attempt,   \* attempt generation of the run's pod
  harness,   \* "running" or "exited": the pod's harness container
  file,      \* per attempt, the lines of the event file
  gateway,   \* what the gateway is doing: "reading", "posting", "waiting", "stopped"
  sequence,  \* lines the gateway has read since it started
  conn,      \* the handler whose answer the gateway waits for
  handler,   \* per handler: its step, the line it writes, the id it was given
  runRow,    \* the run's row exists
  journal,   \* committed rows: id, identifier, and the line they hold
  nextId,    \* the id sequence
  deleted,   \* history: the run was deleted
  cursor,    \* a reader's cursor: the last id it was shown
  seen,      \* history: the ids that reader was shown
  lines,     \* lines left to write
  faults     \* faults left

podVars == <<attempt, harness, file, lines>>
gatewayVars == <<gateway, sequence, conn>>
storeVars == <<runRow, journal, nextId, deleted>>
readerVars == <<cursor, seen>>
vars == <<store, podVars, gatewayVars, handler, storeVars, readerVars, faults>>

Attempts == 1 .. MaxAttempts
NoOne == "none"

\* What the gateway makes of a line: an event; a line that is no JSON and is
\* skipped; an event the control plane will never accept (its type is blank,
\* or its text holds a NUL, which jsonb rejects).
Kinds == {"event", "malformed", "unacceptable"}

\* A line is named by attempt and position; attempt 0 names the snapshots.
Lines == (0 .. MaxAttempts) \X Nat
Kind(line) == IF line[1] = 0 THEN "event" ELSE file[line[1]][line[2]]

\* Mutant: the gateway numbers its lines without the attempt.
SourceIDNoAttempt(line) == IF line[1] = 0
                           THEN <<"kubernetes", 0, line[2]>>
                           ELSE <<"gateway", 0, line[2]>>
\* UNIQUE (run_id, source, source_id): attempt-<n>/<sequence> for the gateway,
\* resource-version/<v> for snapshots.
SourceID(line) == IF line[1] = 0
                  THEN <<"kubernetes", 0, line[2]>>
                  ELSE <<"gateway", line[1], line[2]>>

Steps == {"idle", "posted", "found", "mirroring", "inserting", "accepted", "refused"}
Handlings == [step : Steps, line : Lines, id : Nat]
Idle == [step |-> "idle", line |-> <<0, 0>>, id |-> 0]
At(s, line, id) == [step |-> s, line |-> line, id |-> id]

Rows == [id : Nat, key : {"kubernetes", "gateway"} \X (0 .. MaxAttempts) \X Nat, line : Lines]
Journaled(line) == \E r \in journal : r.line = line

----------------------------------------------------------------------------
(* The pod *)

\* Emitter.Emit, or another process of the agent writing to the file.
EmitLine(kind) ==
  /\ harness = "running"
  /\ lines > 0
  /\ lines' = lines - 1
  /\ file' = [file EXCEPT ![attempt] = Append(@, kind)]
  /\ UNCHANGED <<store, attempt, harness, gatewayVars, handler, storeVars, readerVars, faults>>

\* The harness ends, or the operator deletes the pod.
HarnessExit ==
  /\ harness = "running"
  /\ harness' = "exited"
  /\ UNCHANGED <<store, attempt, file, lines, gatewayVars, handler, storeVars, readerVars, faults>>

\* The kubelet then stops the sidecars: RunGateway's context is cancelled, what
\* is left of the file is read without being delivered and RunGateway returns.
GatewayStop ==
  /\ harness = "exited"
  /\ gateway # "stopped"
  /\ gateway' = "stopped"
  /\ conn' = NoOne
  /\ UNCHANGED <<store, podVars, sequence, handler, storeVars, readerVars, faults>>

\* The operator starts the next attempt in a new pod with an empty event file.
NextAttempt ==
  /\ gateway = "stopped"
  /\ attempt < MaxAttempts
  /\ attempt' = attempt + 1
  /\ harness' = "running"
  /\ gateway' = "reading"
  /\ sequence' = 0
  /\ UNCHANGED <<store, file, lines, conn, handler, storeVars, readerVars, faults>>

----------------------------------------------------------------------------
(* The gateway *)

\* RunGateway: the next complete line; deliverGatewayLine skips what is no JSON.
ReadLine ==
  /\ gateway = "reading"
  /\ sequence < Len(file[attempt])
  /\ sequence' = sequence + 1
  /\ gateway' = IF file[attempt][sequence + 1] = "malformed" THEN "reading" ELSE "posting"
  /\ UNCHANGED <<store, podVars, conn, handler, storeVars, readerVars, faults>>

\* forwardGatewayEvent: the POST reaches a handler.  One that reaches nobody is
\* repeated after a pause and changes nothing.
Post(h) ==
  /\ gateway = "posting"
  /\ handler[h] = Idle
  /\ handler' = [handler EXCEPT ![h] = At("posted", <<attempt, sequence>>, 0)]
  /\ gateway' = "waiting"
  /\ conn' = h
  /\ UNCHANGED <<store, podVars, sequence, storeVars, readerVars, faults>>

\* The connection breaks; the handler does not know and goes on.
LoseAnswer ==
  /\ gateway = "waiting"
  /\ faults > 0
  /\ faults' = faults - 1
  /\ gateway' = "posting"
  /\ conn' = NoOne
  /\ UNCHANGED <<store, podVars, sequence, handler, storeVars, readerVars>>

\* Mutant: a refused event is skipped.
AfterAnswerSkipping(step) == "reading"
\* Mutant: a refused event ends the gateway.
AfterAnswerReturning(step) == IF step = "accepted" THEN "reading" ELSE "stopped"
\* 201 and 204 end the delivery, everything else is retried without limit.
AfterAnswer(step) == IF step = "accepted" THEN "reading" ELSE "posting"

Answer(h) ==
  /\ handler[h].step \in {"accepted", "refused"}
  /\ handler' = [handler EXCEPT ![h] = Idle]
  /\ IF conn = h
     THEN gateway' = AfterAnswer(handler[h].step) /\ conn' = NoOne
     ELSE UNCHANGED <<gateway, conn>>
  /\ UNCHANGED <<store, podVars, sequence, storeVars, readerVars, faults>>

\* The gateway process dies and the kubelet restarts it: line one again.
GatewayRestart ==
  /\ gateway # "stopped"
  /\ sequence > 0
  /\ faults > 0
  /\ faults' = faults - 1
  /\ gateway' = "reading"
  /\ sequence' = 0
  /\ conn' = NoOne
  /\ UNCHANGED <<store, podVars, handler, storeVars, readerVars>>

----------------------------------------------------------------------------
(* The control plane *)

\* ingestRunEvent and AppendGatewayEvent up to the insert: the event is
\* validated and the run looked up.
CheckEvent(h) ==
  /\ handler[h].step = "posted"
  /\ handler' = [handler EXCEPT ![h].step =
                   IF Kind(handler[h].line) = "event" /\ runRow THEN "found" ELSE "refused"]
  /\ UNCHANGED <<store, podVars, gatewayVars, storeVars, readerVars, faults>>

\* The store, the token or the database fails this request, or its process ends;
\* an insert that was not committed leaves a gap in the ids.
FailRequest(h) ==
  /\ handler[h].step \in {"posted", "found", "inserting"}
  /\ faults > 0
  /\ faults' = faults - 1
  /\ handler' = [handler EXCEPT ![h].step = "refused"]
  /\ UNCHANGED <<store, podVars, gatewayVars, storeVars, readerVars>>

NewRow(line, id) == [id |-> id, key |-> SourceID(line), line |-> line]

\* Mutant: the in-memory store releases its lock between id and append.
WriteUnlocked(h, line) ==
  /\ nextId' = nextId + 1
  /\ handler' = [handler EXCEPT ![h] = At("inserting", line, nextId)]
  /\ UNCHANGED journal
\* A row is written: at once in memory, with its commit outstanding in Postgres.
Write(h, line) ==
  /\ nextId' = nextId + 1
  /\ IF store = "memory"
     THEN /\ journal' = journal \cup {NewRow(line, nextId)}
          /\ handler' = [handler EXCEPT ![h] = At("accepted", line, 0)]
     ELSE /\ handler' = [handler EXCEPT ![h] = At("inserting", line, nextId)]
          /\ UNCHANGED journal

\* Mutant: the insert does not look for a conflict.
PresentNever(line) == FALSE
\* ON CONFLICT DO NOTHING, and appendEventLocked's search.
Present(line) == \E r \in journal : r.key = SourceID(line)

\* Postgres makes a second insert of a key wait for the first to commit.
KeyIsFree(line) == \A g \in Handlers :
                     handler[g].step = "inserting" => SourceID(handler[g].line) # SourceID(line)

\* insertEvent: the foreign key refuses an event whose run is gone.
InsertEvent(h) ==
  LET line == handler[h].line IN
  /\ handler[h].step = "found"
  /\ KeyIsFree(line)
  /\ \/ /\ ~runRow
        /\ handler' = [handler EXCEPT ![h].step = "refused"]
        /\ UNCHANGED <<journal, nextId>>
     \/ /\ runRow
        /\ Present(line)
        /\ handler' = [handler EXCEPT ![h].step = "accepted"]
        /\ UNCHANGED <<journal, nextId>>
     \/ /\ runRow
        /\ ~Present(line)
        /\ Write(h, line)
  /\ UNCHANGED <<store, podVars, gatewayVars, runRow, deleted, readerVars, faults>>

\* GetRun or ReconcileFromCluster has read the row and the AgentRun.  A version
\* that is in the journal already is not read again: its event is a duplicate.
ReadSnapshot(h, v) ==
  /\ handler[h] = Idle
  /\ runRow
  /\ ~Journaled(<<0, v>>)
  /\ handler' = [handler EXCEPT ![h] = At("mirroring", <<0, v>>, 0)]
  /\ UNCHANGED <<store, podVars, gatewayVars, storeVars, readerVars, faults>>

\* UpsertRunWithEvent: the row is written, back if need be, and the event with it.
WriteSnapshot(h) ==
  LET line == handler[h].line IN
  /\ handler[h].step = "mirroring"
  /\ KeyIsFree(line)
  /\ \/ /\ Present(line)
        /\ runRow' = TRUE
        /\ handler' = [handler EXCEPT ![h] = Idle]
        /\ UNCHANGED <<journal, nextId>>
     \/ /\ ~Present(line)
        /\ runRow' = (runRow \/ store = "memory")
        /\ Write(h, line)
  /\ UNCHANGED <<store, podVars, gatewayVars, deleted, readerVars, faults>>

\* The transaction commits and its row becomes visible.
Commit(h) ==
  LET line == handler[h].line IN
  /\ handler[h].step = "inserting"
  /\ journal' = journal \cup {NewRow(line, handler[h].id)}
  /\ runRow' = TRUE
  /\ handler' = [handler EXCEPT ![h] = At("accepted", line, 0)]
  /\ UNCHANGED <<store, podVars, gatewayVars, nextId, deleted, readerVars, faults>>

\* DeleteRun: the rows go with the run in Postgres (ON DELETE CASCADE), which
\* waits for open inserts; the in-memory store keeps them.
DeleteRun ==
  /\ runRow
  /\ ~deleted
  /\ \A h \in Handlers : handler[h].step # "inserting"
  /\ runRow' = FALSE
  /\ deleted' = TRUE
  /\ journal' = IF store = "memory" THEN journal ELSE {}
  /\ UNCHANGED <<store, podVars, gatewayVars, handler, nextId, readerVars, faults>>

\* ListRunEvents: at most PageLimit rows after the cursor, by ascending id.
Page == LET after == {r \in journal : r.id > cursor}
        IN  {r \in after : Cardinality({q \in after : q.id < r.id}) < PageLimit}

ListRunEvents ==
  /\ runRow
  /\ seen' = seen \cup {r.id : r \in Page}
  /\ \E last \in Page : cursor' = last.id /\ \A r \in Page : r.id <= last.id
  /\ UNCHANGED <<store, podVars, gatewayVars, handler, storeVars, faults>>

----------------------------------------------------------------------------
Init ==
  /\ store \in Stores
  /\ attempt = 1
  /\ harness = "running"
  /\ file = [a \in Attempts |-> <<>>]
  /\ gateway = "reading"
  /\ sequence = 0
  /\ conn = NoOne
  /\ handler = [h \in Handlers |-> Idle]
  /\ runRow = TRUE
  /\ journal = {}
  /\ nextId = 1
  /\ deleted = FALSE
  /\ cursor = 0
  /\ seen = {}
  /\ lines = MaxLines
  /\ faults = MaxFaults

GatewayStep == ReadLine \/ \E h \in Handlers : Post(h) \/ Answer(h)

HandlerStep(h) == CheckEvent(h) \/ InsertEvent(h) \/ WriteSnapshot(h) \/ Commit(h) \/ Answer(h)

Next ==
  \/ \E k \in Kinds : EmitLine(k)
  \/ HarnessExit \/ GatewayStop \/ NextAttempt
  \/ ReadLine \/ LoseAnswer \/ GatewayRestart
  \/ \E h \in Handlers : \/ Post(h) \/ Answer(h)
                         \/ CheckEvent(h) \/ FailRequest(h) \/ InsertEvent(h)
                         \/ WriteSnapshot(h) \/ Commit(h)
                         \/ \E v \in 1 .. MaxSnapshots : ReadSnapshot(h, v)
  \/ DeleteRun \/ ListRunEvents

Spec == Init /\ [][Next]_vars

\* The gateway retries without limit and handlers finish what they started.
FairSpec == Spec /\ WF_vars(GatewayStep) /\ \A h \in Handlers : WF_vars(HandlerStep(h))

----------------------------------------------------------------------------
TypeOK ==
  /\ store \in Stores
  /\ attempt \in Attempts
  /\ harness \in {"running", "exited"}
  /\ file \in [Attempts -> Seq(Kinds)]
  /\ gateway \in {"reading", "posting", "waiting", "stopped"}
  /\ sequence \in 0 .. Len(file[attempt])
  /\ IF gateway = "waiting" THEN conn \in Handlers ELSE conn = NoOne
  /\ handler \in [Handlers -> Handlings]
  /\ runRow \in BOOLEAN /\ deleted \in BOOLEAN
  /\ journal \subseteq Rows
  /\ nextId \in Nat /\ cursor \in Nat /\ seen \subseteq Nat
  /\ lines \in Nat /\ faults \in Nat

\* gateway.go:22-25, "the durable journal accepts each event exactly once":
\* however often a line is posted, by restarts, retries and handlers that
\* outlive their connection, the journal holds it at most once.
JournaledOnce == \A q, r \in journal : q.line = r.line => q = r

\* Of every attempt the journal holds the events up to some point, in the order
\* in which they were written, whichever of its handlers wrote them and
\* whatever was replayed; only a tail can be missing.
JournalIsAPrefix ==
  ~deleted =>
    \A r \in journal : r.line[1] # 0 =>
      \A m \in 1 .. r.line[2] - 1 :
        file[r.line[1]][m] = "event" =>
          \E q \in journal : q.line = <<r.line[1], m>> /\ q.id < r.id

\* The gateway never moves past an event the journal does not hold: an answer
\* 204 means that this very line is there, not one of another attempt.
PassedIsJournaled ==
  (~deleted /\ gateway # "stopped") =>
    \A m \in 1 .. sequence :
      (file[attempt][m] = "event" /\ (m < sequence \/ gateway = "reading"))
        => Journaled(<<attempt, m>>)

\* client.go:140, entries strictly after the cursor: on the in-memory store a
\* reader that always passes the last id it was shown misses no row.
MemoryReaderMissesNothing ==
  store = "memory" => \A r \in journal : r.id <= cursor => r.id \in seen

\* forwardGatewayEvent's endless retry: the gateway of a pod that stays up has,
\* again and again, delivered every event written so far, unless the run is
\* deleted or a line before the event can never be accepted.
CaughtUp ==
  \A n \in 1 .. Len(file[attempt]) :
    (file[attempt][n] = "event" /\ \A m \in 1 .. n - 1 : file[attempt][m] # "unacceptable")
      => Journaled(<<attempt, n>>)

EveryEventArrives == []<>(CaughtUp \/ deleted \/ harness = "exited")

=============================================================================
