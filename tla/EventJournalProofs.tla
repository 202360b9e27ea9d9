------------------------- MODULE EventJournalProofs -------------------------
(***************************************************************************)
(* Proofs that the journal takes each event once, in order and without     *)
(* gaps, for every number of attempts, lines, handlers and faults.         *)
(*                                                                         *)
(* The invariant that carries them follows a line from the gateway to the  *)
(* row.  Whoever is at work on a line (the gateway, a handler that has not *)
(* answered, a transaction that has not committed) knows that every event  *)
(* before it is committed already, with a smaller id.  An orphaned handler *)
(* keeps that knowledge after the gateway has left it, because the journal *)
(* only grows until the run is deleted.                                    *)
(***************************************************************************)
EXTENDS EventJournal, FiniteSetTheorems, TLAPS

\* A line some pod has written.
Written(line) == /\ line[1] \in Attempts
                 /\ line[2] \in 1 .. Len(file[line[1]])

\* Every event before the line has a row with an id below the bound.
BeforeIn(rows, f, line, bound) ==
  \A m \in 1 .. line[2] - 1 :
    f[line[1]][m] = "event" => \E q \in rows : q.line = <<line[1], m>> /\ q.id < bound
Before(line, bound) == BeforeIn(journal, file, line, bound)

OnGatewayLine(h) == handler[h].step # "idle" /\ handler[h].line[1] # 0

\* Handlers work on written lines, and past the check on events only; mirrors
\* work on snapshots.
HandlersOnLines ==
  \A h \in Handlers :
    /\ handler[h].step = "mirroring" => handler[h].line[1] = 0
    /\ OnGatewayLine(h) => Written(handler[h].line)
    /\ OnGatewayLine(h) /\ handler[h].step \in {"found", "inserting", "accepted"}
         => file[handler[h].line[1]][handler[h].line[2]] = "event"

\* What a handler knows of the events before its line.
HandlersInOrder ==
  ~deleted => \A h \in Handlers :
    /\ OnGatewayLine(h) => Before(handler[h].line, nextId)
    /\ OnGatewayLine(h) /\ handler[h].step = "inserting" => Before(handler[h].line, handler[h].id)
    /\ OnGatewayLine(h) /\ handler[h].step = "accepted" => Journaled(handler[h].line)

\* Rows are events with their identifier; ids come from the sequence.
RowsAreEvents ==
  \A r \in journal :
    /\ r.key = SourceID(r.line)
    /\ r.id < nextId
    /\ r.line[1] # 0 => Written(r.line) /\ file[r.line[1]][r.line[2]] = "event"

\* A transaction holds its identifier for itself.
InsertsAreAlone ==
  \A h \in Handlers : handler[h].step = "inserting" =>
    /\ handler[h].id < nextId
    /\ \A r \in journal : r.line # handler[h].line
    /\ \A g \in Handlers : handler[g].step = "inserting" /\ g # h
         => handler[g].line # handler[h].line

\* The gateway delivers the line it read last.
GatewayOnLine ==
  /\ gateway \in {"posting", "waiting"} => sequence > 0
  /\ gateway = "waiting" => /\ handler[conn].line = <<attempt, sequence>>
                            /\ handler[conn].step \in {"posted", "found", "inserting",
                                                       "accepted", "refused"}

\* The attempts to come have written nothing.
FutureIsEmpty == \A a \in Attempts : a > attempt => file[a] = <<>>

IndInv == /\ TypeOK /\ HandlersOnLines /\ HandlersInOrder /\ RowsAreEvents
          /\ InsertsAreAlone /\ GatewayOnLine /\ FutureIsEmpty
          /\ JournaledOnce /\ JournalIsAPrefix /\ PassedIsJournaled

----------------------------------------------------------------------------
\* The identifier of an event names its line, attempt included.
LEMMA SourceIDIsInjective ==
  ASSUME NEW x \in Lines, NEW y \in Lines, SourceID(x) = SourceID(y)
  PROVE  x = y
BY DEF SourceID, Lines

LEMMA InitIndInv == Init => IndInv
<1> SUFFICES ASSUME Init PROVE IndInv
  OBVIOUS
<1>1. TypeOK
  <2>1. Idle \in Handlings
    BY JournalAssumption DEF Idle, Handlings, Lines, Steps
  <2>2. handler \in [Handlers -> Handlings]
    BY <2>1 DEF Init
  <2>3. file \in [Attempts -> Seq(Kinds)] /\ 1 \in Attempts /\ file[1] = <<>>
    BY JournalAssumption DEF Init, Attempts
  <2>4. sequence \in 0 .. Len(file[attempt])
    BY <2>3 DEF Init
  <2> QED BY <2>2, <2>3, <2>4, JournalAssumption DEF Init, TypeOK
<1>2. HandlersOnLines /\ HandlersInOrder /\ InsertsAreAlone
  BY DEF Init, HandlersOnLines, HandlersInOrder, InsertsAreAlone, OnGatewayLine, Idle
<1>3. RowsAreEvents /\ JournaledOnce /\ JournalIsAPrefix
  BY DEF Init, RowsAreEvents, JournaledOnce, JournalIsAPrefix
<1>4. GatewayOnLine /\ FutureIsEmpty /\ PassedIsJournaled
  BY DEF Init, GatewayOnLine, FutureIsEmpty, PassedIsJournaled
<1> QED BY <1>1, <1>2, <1>3, <1>4 DEF IndInv

----------------------------------------------------------------------------
\* Steps that touch neither the files nor the rows keep what is said of rows.
LEMMA RowsFrame ==
  ASSUME IndInv, UNCHANGED <<file, storeVars>>
  PROVE  RowsAreEvents' /\ JournaledOnce' /\ JournalIsAPrefix'
BY DEF IndInv, storeVars, RowsAreEvents, JournaledOnce, JournalIsAPrefix, Written, SourceID

\* Steps that leave the handlers alone as well keep what is said of handlers.
LEMMA HandlersFrame ==
  ASSUME IndInv, UNCHANGED <<file, storeVars, handler>>
  PROVE  HandlersOnLines' /\ HandlersInOrder' /\ InsertsAreAlone'
<1>1. HandlersOnLines'
  BY DEF IndInv, HandlersOnLines, OnGatewayLine, Written
<1>2. HandlersInOrder'
  BY DEF IndInv, storeVars, HandlersInOrder, OnGatewayLine, Before, BeforeIn, Journaled
<1>3. InsertsAreAlone'
  BY DEF IndInv, storeVars, InsertsAreAlone
<1> QED BY <1>1, <1>2, <1>3

LEMMA HarnessExitKeeps == ASSUME IndInv, HarnessExit PROVE IndInv'
<1> USE DEF HarnessExit, gatewayVars, storeVars, readerVars
<1>1. TypeOK'
  BY DEF IndInv, TypeOK
<1>2. GatewayOnLine' /\ FutureIsEmpty' /\ PassedIsJournaled'
  BY DEF IndInv, GatewayOnLine, FutureIsEmpty, PassedIsJournaled, Journaled
<1> QED BY <1>1, <1>2, RowsFrame, HandlersFrame DEF IndInv

LEMMA GatewayStopKeeps == ASSUME IndInv, GatewayStop PROVE IndInv'
<1> USE DEF GatewayStop, podVars, storeVars, readerVars
<1>1. TypeOK'
  BY DEF IndInv, TypeOK
<1>2. GatewayOnLine' /\ FutureIsEmpty' /\ PassedIsJournaled'
  BY DEF IndInv, GatewayOnLine, FutureIsEmpty, PassedIsJournaled
<1> QED BY <1>1, <1>2, RowsFrame, HandlersFrame DEF IndInv

LEMMA NextAttemptKeeps == ASSUME IndInv, NextAttempt PROVE IndInv'
<1> USE DEF NextAttempt, storeVars, readerVars
<1>1. attempt' \in Attempts
  BY JournalAssumption DEF IndInv, TypeOK, Attempts
<1>2. TypeOK'
  <2>1. sequence' \in 0 .. Len(file[attempt'])
    BY <1>1 DEF IndInv, TypeOK
  <2> QED BY <1>1, <2>1 DEF IndInv, TypeOK
<1>3. GatewayOnLine' /\ PassedIsJournaled'
  BY DEF GatewayOnLine, PassedIsJournaled
<1>4. FutureIsEmpty'
  BY <1>1 DEF IndInv, TypeOK, FutureIsEmpty, Attempts
<1> QED BY <1>2, <1>3, <1>4, RowsFrame, HandlersFrame DEF IndInv

LEMMA ReadLineKeeps == ASSUME IndInv, ReadLine PROVE IndInv'
<1> USE DEF ReadLine, podVars, storeVars, readerVars
<1>1. TypeOK'
  BY DEF IndInv, TypeOK
<1>2. GatewayOnLine' /\ FutureIsEmpty'
  BY DEF IndInv, TypeOK, GatewayOnLine, FutureIsEmpty
<1>3. PassedIsJournaled'
  <2> SUFFICES ASSUME ~deleted, NEW m \in 1 .. sequence + 1, file[attempt][m] = "event",
                      m < sequence + 1 \/ gateway' = "reading"
               PROVE  Journaled(<<attempt, m>>)
    BY DEF PassedIsJournaled, Journaled
  <2>1. sequence \in Nat
    BY DEF IndInv, TypeOK
  <2>2. m # sequence + 1
    BY <2>1
  <2>3. m \in 1 .. sequence
    BY <2>1, <2>2
  <2> QED BY <2>3 DEF IndInv, PassedIsJournaled
<1> QED BY <1>1, <1>2, <1>3, RowsFrame, HandlersFrame DEF IndInv

LEMMA LoseAnswerKeeps == ASSUME IndInv, LoseAnswer PROVE IndInv'
<1> USE DEF LoseAnswer, podVars, storeVars, readerVars
<1>1. TypeOK'
  BY DEF IndInv, TypeOK
<1>2. GatewayOnLine' /\ FutureIsEmpty' /\ PassedIsJournaled'
  BY DEF IndInv, GatewayOnLine, FutureIsEmpty, PassedIsJournaled, Journaled
<1> QED BY <1>1, <1>2, RowsFrame, HandlersFrame DEF IndInv

LEMMA GatewayRestartKeeps == ASSUME IndInv, GatewayRestart PROVE IndInv'
<1> USE DEF GatewayRestart, podVars, storeVars, readerVars
<1>1. TypeOK'
  BY DEF IndInv, TypeOK
<1>2. GatewayOnLine' /\ FutureIsEmpty' /\ PassedIsJournaled'
  BY DEF IndInv, GatewayOnLine, FutureIsEmpty, PassedIsJournaled
<1> QED BY <1>1, <1>2, RowsFrame, HandlersFrame DEF IndInv

LEMMA ListRunEventsKeeps == ASSUME IndInv, ListRunEvents PROVE IndInv'
<1> USE DEF ListRunEvents, podVars, gatewayVars, storeVars
<1>1. {r.id : r \in Page} \subseteq Nat
  BY DEF IndInv, TypeOK, Page, Rows
<1>2. cursor' \in Nat
  BY <1>1
<1>3. TypeOK'
  BY <1>1, <1>2 DEF IndInv, TypeOK
<1>4. GatewayOnLine' /\ FutureIsEmpty' /\ PassedIsJournaled'
  BY DEF IndInv, GatewayOnLine, FutureIsEmpty, PassedIsJournaled, Journaled
<1> QED BY <1>3, <1>4, RowsFrame, HandlersFrame DEF IndInv

\* What was written stays as it is when a line is appended.
LEMMA AppendKeepsLines ==
  ASSUME IndInv, NEW k \in Kinds, EmitLine(k)
  PROVE  /\ file' \in [Attempts -> Seq(Kinds)]
         /\ \A a \in Attempts : Len(file[a]) \in Nat /\ Len(file[a]) <= Len(file'[a])
         /\ \A a \in Attempts : \A m \in 1 .. Len(file[a]) : file'[a][m] = file[a][m]
         /\ \A a \in Attempts : a # attempt => file'[a] = file[a]
<1>1. attempt \in Attempts /\ file \in [Attempts -> Seq(Kinds)]
  BY DEF IndInv, TypeOK
<1>2. file' = [file EXCEPT ![attempt] = Append(file[attempt], k)]
  BY DEF EmitLine
<1>3. file[attempt] \in Seq(Kinds)
  BY <1>1
<1>4. /\ Append(file[attempt], k) \in Seq(Kinds)
      /\ Len(Append(file[attempt], k)) = Len(file[attempt]) + 1
      /\ \A m \in 1 .. Len(file[attempt]) : Append(file[attempt], k)[m] = file[attempt][m]
  BY <1>3
<1>5. file'[attempt] = Append(file[attempt], k) /\ \A a \in Attempts : a # attempt => file'[a] = file[a]
  BY <1>1, <1>2
<1>6. \A a \in Attempts : Len(file[a]) \in Nat
  BY <1>1
<1>7. file' \in [Attempts -> Seq(Kinds)]
  BY <1>1, <1>2, <1>4
<1>8. \A a \in Attempts : Len(file[a]) <= Len(file'[a])
  BY <1>4, <1>5, <1>6
<1>9. \A a \in Attempts : \A m \in 1 .. Len(file[a]) : file'[a][m] = file[a][m]
  BY <1>4, <1>5
<1> QED BY <1>5, <1>6, <1>7, <1>8, <1>9

LEMMA EmitLineKeeps == ASSUME IndInv, NEW k \in Kinds, EmitLine(k) PROVE IndInv'
<1> USE DEF EmitLine, gatewayVars, storeVars, readerVars
<1>0. /\ file' \in [Attempts -> Seq(Kinds)]
      /\ \A a \in Attempts : Len(file[a]) \in Nat /\ Len(file[a]) <= Len(file'[a])
      /\ \A a \in Attempts : \A m \in 1 .. Len(file[a]) : file'[a][m] = file[a][m]
      /\ \A a \in Attempts : a # attempt => file'[a] = file[a]
  BY AppendKeepsLines
<1>1. TypeOK'
  <2>1. sequence' \in 0 .. Len(file'[attempt'])
    BY <1>0 DEF IndInv, TypeOK
  <2> QED BY <1>0, <2>1 DEF IndInv, TypeOK
<1>2. \A line \in Lines : Written(line) =>
        /\ Written(line)'
        /\ \A m \in 1 .. line[2] : file'[line[1]][m] = file[line[1]][m]
  BY <1>0 DEF Written, Lines
<1>3. \A line \in Lines : \A b \in Nat : Written(line) /\ Before(line, b) => Before(line, b)'
  <2> SUFFICES ASSUME NEW line \in Lines, NEW b \in Nat, Written(line), Before(line, b),
                      NEW m \in 1 .. line[2] - 1, file'[line[1]][m] = "event"
               PROVE  \E q \in journal : q.line = <<line[1], m>> /\ q.id < b
    BY DEF Before, BeforeIn
  <2>1. m \in 1 .. line[2]
    BY DEF Lines
  <2>2. file[line[1]][m] = "event"
    BY <1>2, <2>1
  <2> QED BY <2>2 DEF Before, BeforeIn
<1>4. \A h \in Handlers : handler[h].line \in Lines /\ handler[h].id \in Nat
  BY DEF IndInv, TypeOK, Handlings
<1>5. HandlersOnLines'
  BY <1>2, <1>4 DEF IndInv, HandlersOnLines, OnGatewayLine, Lines, Written
<1>6. HandlersInOrder'
  <2> SUFFICES ASSUME ~deleted, NEW h \in Handlers, OnGatewayLine(h)
               PROVE  /\ Before(handler[h].line, nextId)'
                      /\ handler[h].step = "inserting" => Before(handler[h].line, handler[h].id)'
                      /\ handler[h].step = "accepted" => Journaled(handler[h].line)'
    BY DEF HandlersInOrder, OnGatewayLine
  <2>1. Written(handler[h].line)
    BY DEF IndInv, HandlersOnLines
  <2>2. nextId \in Nat
    BY DEF IndInv, TypeOK
  <2>3. Before(handler[h].line, nextId)'
    <3>1. Before(handler[h].line, nextId)
      BY DEF IndInv, HandlersInOrder
    <3>2. PICK x \in Lines, b \in Nat : x = handler[h].line /\ b = nextId
      BY <1>4, <2>2
    <3>3. Before(x, b)'
      BY <1>3, <2>1, <3>1, <3>2
    <3>4. x = handler'[h].line /\ b = nextId'
      BY <3>2
    <3> QED BY <3>3, <3>4 DEF Before, BeforeIn
  <2>4. handler[h].step = "inserting" => Before(handler[h].line, handler[h].id)'
    <3> HAVE handler[h].step = "inserting"
    <3>1. Before(handler[h].line, handler[h].id)
      BY DEF IndInv, HandlersInOrder
    <3>2. PICK x \in Lines, b \in Nat : x = handler[h].line /\ b = handler[h].id
      BY <1>4
    <3>3. Before(x, b)'
      BY <1>3, <2>1, <3>1, <3>2
    <3>4. x = handler'[h].line /\ b = handler'[h].id
      BY <3>2
    <3> QED BY <3>3, <3>4 DEF Before, BeforeIn
  <2>5. handler[h].step = "accepted" => Journaled(handler[h].line)'
    BY DEF IndInv, HandlersInOrder, Journaled
  <2> QED BY <2>3, <2>4, <2>5
<1>7. RowsAreEvents' /\ JournaledOnce'
  BY <1>2 DEF IndInv, TypeOK, Rows, RowsAreEvents, JournaledOnce, Lines, Written, SourceID
<1>8. JournalIsAPrefix'
  <2> SUFFICES ASSUME ~deleted, NEW r \in journal, r.line[1] # 0, NEW m \in 1 .. r.line[2] - 1,
                      file'[r.line[1]][m] = "event"
               PROVE  \E q \in journal : q.line = <<r.line[1], m>> /\ q.id < r.id
    BY DEF JournalIsAPrefix
  <2>1. r.line \in Lines /\ Written(r.line)
    BY DEF IndInv, TypeOK, Rows, RowsAreEvents
  <2>2. m \in 1 .. r.line[2]
    BY <2>1 DEF Lines
  <2>3. file[r.line[1]][m] = "event"
    BY <1>2, <2>1, <2>2
  <2> QED BY <2>3 DEF IndInv, JournalIsAPrefix
<1>9. InsertsAreAlone' /\ GatewayOnLine'
  BY DEF IndInv, InsertsAreAlone, GatewayOnLine
<1>10. FutureIsEmpty'
  BY <1>0 DEF IndInv, FutureIsEmpty, TypeOK, Attempts
<1>11. PassedIsJournaled'
  <2>1. \A m \in 1 .. sequence : file'[attempt][m] = file[attempt][m]
    BY <1>0 DEF IndInv, TypeOK
  <2> QED BY <2>1 DEF IndInv, PassedIsJournaled, Journaled
<1> QED BY <1>1, <1>5, <1>6, <1>7, <1>8, <1>9, <1>10, <1>11 DEF IndInv

----------------------------------------------------------------------------
\* What a handler may be said to be doing.
Sound(x) ==
  /\ x.step = "mirroring" => x.line[1] = 0
  /\ x.step # "idle" /\ x.line[1] # 0 =>
       /\ Written(x.line)
       /\ x.step \in {"found", "inserting", "accepted"} => file[x.line[1]][x.line[2]] = "event"
       /\ ~deleted => /\ Before(x.line, nextId)
                      /\ x.step = "inserting" => Before(x.line, x.id)
                      /\ x.step = "accepted" => Journaled(x.line)

LEMMA HandlersAreSound ==
  ASSUME IndInv, NEW h \in Handlers
  PROVE  handler[h] \in Handlings /\ Sound(handler[h])
BY DEF IndInv, TypeOK, HandlersOnLines, HandlersInOrder, OnGatewayLine, Sound

\* A handler moves on without writing.
LEMMA HandlerMoves ==
  ASSUME IndInv, NEW h \in Handlers, NEW x \in Handlings, Sound(x), x.step # "inserting",
         handler' = [handler EXCEPT ![h] = x], UNCHANGED <<file, storeVars>>
  PROVE  /\ handler' \in [Handlers -> Handlings]
         /\ HandlersOnLines' /\ HandlersInOrder' /\ InsertsAreAlone'
         /\ RowsAreEvents' /\ JournaledOnce' /\ JournalIsAPrefix'
<1> USE DEF storeVars
<1>1. handler' \in [Handlers -> Handlings]
  BY DEF IndInv, TypeOK
<1>2. \A g \in Handlers : handler'[g] = IF g = h THEN x ELSE handler[g]
  BY DEF IndInv, TypeOK
<1>3. \A g \in Handlers : Sound(handler'[g])
  BY <1>2, HandlersAreSound
<1>4. HandlersOnLines'
  BY <1>3 DEF HandlersOnLines, OnGatewayLine, Sound, Written
<1>5. HandlersInOrder'
  BY <1>3 DEF HandlersInOrder, OnGatewayLine, Sound, Before, BeforeIn, Journaled
<1>6. InsertsAreAlone'
  BY <1>2 DEF IndInv, InsertsAreAlone
<1> QED BY <1>1, <1>4, <1>5, <1>6, RowsFrame

LEMMA PostKeeps == ASSUME IndInv, NEW h \in Handlers, Post(h) PROVE IndInv'
<1> USE DEF Post, podVars, storeVars, readerVars
<1> DEFINE x == At("posted", <<attempt, sequence>>, 0)
<1>1. sequence \in 1 .. Len(file[attempt]) /\ attempt \in Attempts /\ sequence \in Nat
  BY DEF IndInv, TypeOK, GatewayOnLine
<1>2. x \in Handlings
  BY <1>1, JournalAssumption DEF At, Handlings, Steps, Lines, Attempts
<1>3. ~deleted => Before(<<attempt, sequence>>, nextId)
  <2> SUFFICES ASSUME ~deleted, NEW m \in 1 .. sequence - 1, file[attempt][m] = "event"
               PROVE  \E q \in journal : q.line = <<attempt, m>> /\ q.id < nextId
    BY DEF Before, BeforeIn
  <2>1. Journaled(<<attempt, m>>)
    BY <1>1 DEF IndInv, PassedIsJournaled
  <2> QED BY <2>1 DEF IndInv, RowsAreEvents, Journaled
<1>4. Sound(x)
  BY <1>1, <1>3 DEF At, Sound, Written
<1>5. x.step # "inserting"
  BY DEF At
<1>6. /\ handler' \in [Handlers -> Handlings]
      /\ HandlersOnLines' /\ HandlersInOrder' /\ InsertsAreAlone'
      /\ RowsAreEvents' /\ JournaledOnce' /\ JournalIsAPrefix'
  BY <1>2, <1>4, <1>5, HandlerMoves
<1>7. TypeOK'
  BY <1>6 DEF IndInv, TypeOK
<1>8. GatewayOnLine'
  <2>1. handler'[h] = x
    BY DEF IndInv, TypeOK
  <2> QED BY <1>1, <2>1 DEF GatewayOnLine, At
<1>9. FutureIsEmpty' /\ PassedIsJournaled'
  BY DEF IndInv, FutureIsEmpty, PassedIsJournaled, Journaled
<1> QED BY <1>6, <1>7, <1>8, <1>9 DEF IndInv

LEMMA AnswerKeeps == ASSUME IndInv, NEW h \in Handlers, Answer(h) PROVE IndInv'
<1> USE DEF Answer, podVars, storeVars, readerVars
<1>1. Idle \in Handlings /\ Sound(Idle) /\ Idle.step # "inserting"
  BY JournalAssumption DEF Idle, Handlings, Steps, Lines, Sound
<1>2. /\ handler' \in [Handlers -> Handlings]
      /\ HandlersOnLines' /\ HandlersInOrder' /\ InsertsAreAlone'
      /\ RowsAreEvents' /\ JournaledOnce' /\ JournalIsAPrefix'
  BY <1>1, HandlerMoves
<1>3. FutureIsEmpty'
  BY DEF IndInv, FutureIsEmpty
<1>4. CASE conn # h
  <2>1. TypeOK'
    BY <1>2, <1>4 DEF IndInv, TypeOK
  <2>2. GatewayOnLine' /\ PassedIsJournaled'
    BY <1>4 DEF IndInv, TypeOK, GatewayOnLine, PassedIsJournaled, Journaled
  <2> QED BY <1>2, <1>3, <2>1, <2>2 DEF IndInv
<1>5. CASE conn = h
  <2>1. gateway = "waiting"
    BY <1>5, JournalAssumption DEF IndInv, TypeOK, NoOne
  <2>2. TypeOK'
    BY <1>2, <1>5 DEF IndInv, TypeOK, AfterAnswer
  <2>3. GatewayOnLine'
    BY <1>5, <2>1 DEF IndInv, GatewayOnLine, AfterAnswer
  <2>4. handler[h].line = <<attempt, sequence>> /\ sequence \in Nat /\ attempt \in Attempts
    BY <1>5, <2>1 DEF IndInv, GatewayOnLine, TypeOK
  <2>5. ~deleted /\ handler[h].step = "accepted" => Journaled(<<attempt, sequence>>)
    BY <2>4, HandlersAreSound DEF Sound, Attempts
  <2>6. PassedIsJournaled'
    <3> SUFFICES ASSUME ~deleted, NEW m \in 1 .. sequence, file[attempt][m] = "event",
                        m < sequence \/ gateway' = "reading"
                 PROVE  Journaled(<<attempt, m>>)
      BY DEF PassedIsJournaled, Journaled
    <3>1. CASE m < sequence
      BY <2>1, <3>1 DEF IndInv, PassedIsJournaled
    <3>2. CASE m = sequence
      BY <1>5, <2>4, <2>5, <3>2 DEF AfterAnswer
    <3> QED BY <2>4, <3>1, <3>2
  <2> QED BY <1>2, <1>3, <2>2, <2>3, <2>6 DEF IndInv
<1> QED BY <1>4, <1>5

\* The gateway's own view survives every step of a handler that stays on its
\* line and takes no row away.
LEMMA GatewayView ==
  ASSUME IndInv, NEW h \in Handlers, NEW x \in Handlings,
         handler' = [handler EXCEPT ![h] = x], x.line = handler[h].line \/ conn # h,
         conn = h => x.step \in {"posted", "found", "inserting", "accepted", "refused"},
         UNCHANGED <<podVars, gatewayVars, deleted>>, journal \subseteq journal'
  PROVE  GatewayOnLine' /\ FutureIsEmpty' /\ PassedIsJournaled'
<1> USE DEF podVars, gatewayVars
<1>1. GatewayOnLine'
  BY DEF IndInv, TypeOK, GatewayOnLine
<1>2. FutureIsEmpty' /\ PassedIsJournaled'
  BY DEF IndInv, FutureIsEmpty, PassedIsJournaled, Journaled
<1> QED BY <1>1, <1>2

\* Only handlers at work on a post are waited for.
LEMMA NobodyWaits ==
  ASSUME IndInv, NEW h \in Handlers, handler[h].step \in {"idle", "mirroring"}
  PROVE  conn # h
BY JournalAssumption DEF IndInv, TypeOK, GatewayOnLine, NoOne

\* A handler that changes nothing but its step, to one that asserts nothing new.
LEMMA StepKeeps ==
  ASSUME IndInv, NEW h \in Handlers, NEW st \in Steps \ {"inserting", "idle"},
         handler' = [handler EXCEPT ![h].step = st], handler[h].step # "idle",
         Sound([handler[h] EXCEPT !.step = st]), conn = h => st # "mirroring",
         UNCHANGED <<store, podVars, gatewayVars, storeVars, readerVars>>,
         faults' \in Nat
  PROVE  IndInv'
<1> USE DEF podVars, gatewayVars, storeVars, readerVars
<1> DEFINE x == [handler[h] EXCEPT !.step = st]
<1>1. handler[h] \in Handlings
  BY HandlersAreSound
<1>2. x \in Handlings /\ x.step = st /\ x.line = handler[h].line
  BY <1>1 DEF Handlings
<1>3. handler' = [handler EXCEPT ![h] = x]
  BY DEF IndInv, TypeOK
<1> HIDE DEF x
<1>4. /\ handler' \in [Handlers -> Handlings]
      /\ HandlersOnLines' /\ HandlersInOrder' /\ InsertsAreAlone'
      /\ RowsAreEvents' /\ JournaledOnce' /\ JournalIsAPrefix'
  BY <1>2, <1>3, HandlerMoves DEF x
<1>5. GatewayOnLine' /\ FutureIsEmpty' /\ PassedIsJournaled'
  BY <1>2, <1>3, GatewayView DEF Steps
<1>6. TypeOK'
  BY <1>4 DEF IndInv, TypeOK
<1> QED BY <1>4, <1>5, <1>6 DEF IndInv

LEMMA CheckEventKeeps == ASSUME IndInv, NEW h \in Handlers, CheckEvent(h) PROVE IndInv'
<1> DEFINE st == IF Kind(handler[h].line) = "event" /\ runRow THEN "found" ELSE "refused"
<1>1. handler[h] \in Handlings /\ Sound(handler[h])
  BY HandlersAreSound
<1>2. Sound([handler[h] EXCEPT !.step = st])
  BY <1>1 DEF CheckEvent, Sound, Kind, Handlings
<1>3. st \in Steps \ {"inserting", "idle"} /\ st # "mirroring"
  BY DEF Steps
<1>4. handler' = [handler EXCEPT ![h].step = st] /\ handler[h].step # "idle"
  BY DEF CheckEvent
<1>5. UNCHANGED <<store, podVars, gatewayVars, storeVars, readerVars>> /\ faults' \in Nat
  BY DEF CheckEvent, IndInv, TypeOK
<1> HIDE DEF st
<1> QED BY <1>2, <1>3, <1>4, <1>5, StepKeeps

LEMMA FailRequestKeeps == ASSUME IndInv, NEW h \in Handlers, FailRequest(h) PROVE IndInv'
<1>1. handler[h] \in Handlings /\ Sound(handler[h])
  BY HandlersAreSound
<1>2. Sound([handler[h] EXCEPT !.step = "refused"])
  BY <1>1 DEF FailRequest, Sound, Handlings
<1>3. handler' = [handler EXCEPT ![h].step = "refused"] /\ handler[h].step # "idle"
  BY DEF FailRequest
<1>4. UNCHANGED <<store, podVars, gatewayVars, storeVars, readerVars>> /\ faults' \in Nat
  BY DEF FailRequest, IndInv, TypeOK
<1>5. "refused" \in Steps \ {"inserting", "idle"}
  BY DEF Steps
<1> QED BY <1>2, <1>3, <1>4, <1>5, StepKeeps

LEMMA ReadSnapshotKeeps ==
  ASSUME IndInv, NEW h \in Handlers, NEW v \in 1 .. MaxSnapshots, ReadSnapshot(h, v)
  PROVE  IndInv'
<1> USE DEF ReadSnapshot, podVars, gatewayVars, storeVars, readerVars
<1> DEFINE x == At("mirroring", <<0, v>>, 0)
<1>1. x \in Handlings /\ Sound(x) /\ x.step # "inserting"
  BY JournalAssumption DEF At, Handlings, Steps, Lines, Sound
<1>2. conn # h
  BY NobodyWaits DEF Idle
<1> HIDE DEF x
<1>3. /\ handler' \in [Handlers -> Handlings]
      /\ HandlersOnLines' /\ HandlersInOrder' /\ InsertsAreAlone'
      /\ RowsAreEvents' /\ JournaledOnce' /\ JournalIsAPrefix'
  BY <1>1, HandlerMoves DEF x
<1>4. GatewayOnLine' /\ FutureIsEmpty' /\ PassedIsJournaled'
  BY <1>1, <1>2, GatewayView DEF x
<1>5. TypeOK'
  BY <1>3 DEF IndInv, TypeOK
<1> QED BY <1>3, <1>4, <1>5 DEF IndInv

----------------------------------------------------------------------------
\* Nobody else has, or is about to have, a row for a line whose identifier is
\* neither present nor held.
LEMMA FreeLine ==
  ASSUME IndInv, NEW line \in Lines, KeyIsFree(line), ~Present(line)
  PROVE  /\ \A r \in journal : r.line # line
         /\ \A g \in Handlers : handler[g].step = "inserting" => handler[g].line # line
BY DEF IndInv, KeyIsFree, Present, RowsAreEvents

\* What is before a line stays before it while rows are added.
LEMMA BeforeGrows ==
  ASSUME NEW rows, NEW more, rows \subseteq more, NEW f, NEW line, NEW b \in Nat, NEW c \in Nat,
         b <= c, \A r \in rows : r.id \in Nat, BeforeIn(rows, f, line, b)
  PROVE  BeforeIn(more, f, line, c)
BY DEF BeforeIn

\* A transaction has its id and has not committed.
LEMMA InsertBegins ==
  ASSUME IndInv, NEW h \in Handlers, handler[h].step \in {"found", "mirroring"},
         KeyIsFree(handler[h].line), ~Present(handler[h].line),
         nextId' = nextId + 1,
         handler' = [handler EXCEPT ![h] = At("inserting", handler[h].line, nextId)],
         UNCHANGED <<store, podVars, gatewayVars, journal, deleted, readerVars, faults>>,
         runRow' \in BOOLEAN
  PROVE  IndInv'
<1> USE DEF podVars, gatewayVars, readerVars
<1> DEFINE x == At("inserting", handler[h].line, nextId)
<1>1. handler[h] \in Handlings /\ Sound(handler[h]) /\ nextId \in Nat
  BY HandlersAreSound DEF IndInv, TypeOK
<1>2. x \in Handlings /\ x.step = "inserting" /\ x.line = handler[h].line /\ x.id = nextId
  BY <1>1 DEF At, Handlings, Steps
<1>3. handler' \in [Handlers -> Handlings] /\ \A g \in Handlers : handler'[g] = IF g = h THEN x ELSE handler[g]
  BY <1>2 DEF IndInv, TypeOK
<1>4. TypeOK'
  BY <1>1, <1>3 DEF IndInv, TypeOK
<1>5. \A line : Before(line, nextId) => Before(line, nextId')
  <2>1. \A r \in journal : r.id \in Nat
    BY DEF IndInv, TypeOK, Rows
  <2> QED BY <1>1, <2>1, BeforeGrows DEF Before
<1>6. x.line[1] # 0 => /\ Written(x.line)
                       /\ file[x.line[1]][x.line[2]] = "event"
                       /\ ~deleted => Before(x.line, nextId)
  BY <1>1, <1>2 DEF Sound
<1> HIDE DEF x
<1>7. HandlersOnLines'
  BY <1>3, <1>6, <1>2 DEF IndInv, HandlersOnLines, OnGatewayLine, Written
<1>8. HandlersInOrder'
  <2> SUFFICES ASSUME ~deleted, NEW g \in Handlers, handler'[g].step # "idle", handler'[g].line[1] # 0
               PROVE  /\ Before(handler'[g].line, nextId')
                      /\ handler'[g].step = "inserting" => Before(handler'[g].line, handler'[g].id)
                      /\ handler'[g].step = "accepted" => Journaled(handler'[g].line)
    BY DEF HandlersInOrder, OnGatewayLine, Before, BeforeIn, Journaled
  <2>1. CASE g = h
    BY <1>2, <1>3, <1>5, <1>6, <2>1
  <2>2. CASE g # h
    BY <1>3, <1>5, <2>2 DEF IndInv, HandlersInOrder, OnGatewayLine
  <2> QED BY <2>1, <2>2
<1>9. RowsAreEvents' /\ JournaledOnce' /\ JournalIsAPrefix'
  <2>1. \A r \in journal : r.id \in Nat
    BY DEF IndInv, TypeOK, Rows
  <2>2. RowsAreEvents'
    <3> SUFFICES ASSUME NEW r \in journal
                 PROVE  /\ r.key = SourceID(r.line)
                        /\ r.id < nextId'
                        /\ r.line[1] # 0 => Written(r.line) /\ file[r.line[1]][r.line[2]] = "event"
      BY DEF RowsAreEvents, Written, SourceID
    <3> QED BY <1>1, <2>1 DEF IndInv, RowsAreEvents
  <2>3. JournaledOnce' /\ JournalIsAPrefix'
    BY DEF IndInv, JournaledOnce, JournalIsAPrefix
  <2> QED BY <2>2, <2>3
<1>10. InsertsAreAlone'
  <2>1. handler[h].line \in Lines
    BY <1>1 DEF Handlings
  <2>2. /\ \A r \in journal : r.line # x.line
        /\ \A g \in Handlers : handler[g].step = "inserting" => handler[g].line # x.line
    BY <1>2, <2>1, FreeLine
  <2>3. \A g \in Handlers : handler[g].id \in Nat
    BY DEF IndInv, TypeOK, Handlings
  <2> QED BY <1>1, <1>2, <1>3, <2>2, <2>3 DEF IndInv, InsertsAreAlone
<1>11. GatewayOnLine' /\ FutureIsEmpty' /\ PassedIsJournaled'
  BY <1>2, GatewayView DEF x
<1> QED BY <1>4, <1>7, <1>8, <1>9, <1>10, <1>11 DEF IndInv

\* A row becomes visible, at the end of a transaction or at once.
LEMMA RowAppears ==
  ASSUME IndInv, NEW h \in Handlers, NEW id \in Nat, id < nextId',
         handler[h].step \in {"found", "mirroring", "inserting"},
         \A r \in journal : r.line # handler[h].line,
         \A g \in Handlers : handler[g].step = "inserting" /\ g # h
            => handler[g].line # handler[h].line,
         handler[h].line[1] # 0 /\ ~deleted => Before(handler[h].line, id),
         nextId' \in {nextId, nextId + 1},
         journal' = journal \cup {NewRow(handler[h].line, id)},
         handler' = [handler EXCEPT ![h] = At("accepted", handler[h].line, 0)],
         UNCHANGED <<store, podVars, gatewayVars, deleted, readerVars, faults>>,
         runRow' \in BOOLEAN
  PROVE  IndInv'
<1> USE DEF podVars, gatewayVars, readerVars
<1> DEFINE x == At("accepted", handler[h].line, 0)
           row == NewRow(handler[h].line, id)
<1>1. handler[h] \in Handlings /\ Sound(handler[h]) /\ nextId \in Nat
  BY HandlersAreSound DEF IndInv, TypeOK
<1>2. x \in Handlings /\ x.step = "accepted" /\ x.line = handler[h].line
  BY <1>1 DEF At, Handlings, Steps
<1>3. handler' \in [Handlers -> Handlings] /\ \A g \in Handlers : handler'[g] = IF g = h THEN x ELSE handler[g]
  BY <1>2 DEF IndInv, TypeOK
<1>4. /\ row \in Rows /\ row.id = id /\ row.line = handler[h].line
      /\ row.key = SourceID(handler[h].line)
  BY <1>1, JournalAssumption DEF NewRow, Rows, SourceID, Handlings, Lines
<1>5. handler[h].line[1] # 0 => /\ Written(handler[h].line)
                                /\ file[handler[h].line[1]][handler[h].line[2]] = "event"
                                /\ ~deleted => Before(handler[h].line, nextId)
  BY <1>1 DEF Sound
<1>6. nextId <= nextId' /\ nextId' \in Nat
  BY <1>1
<1> HIDE DEF x, row
<1>7. TypeOK'
  BY <1>3, <1>4, <1>6 DEF IndInv, TypeOK, row
<1>8. HandlersOnLines'
  BY <1>2, <1>3, <1>5 DEF IndInv, HandlersOnLines, OnGatewayLine, Written
<1>9. \A r \in journal : r.id \in Nat /\ r.id < nextId
  BY DEF IndInv, TypeOK, Rows, RowsAreEvents
<1>10. \A line : Before(line, nextId) => BeforeIn(journal', file, line, nextId')
  BY <1>1, <1>6, <1>9, BeforeGrows DEF Before
<1>11. HandlersInOrder'
  <2> SUFFICES ASSUME ~deleted, NEW g \in Handlers, handler'[g].step # "idle", handler'[g].line[1] # 0
               PROVE  /\ Before(handler[g].line, nextId)'
                      /\ handler'[g].step = "inserting" => Before(handler[g].line, handler[g].id)'
                      /\ handler'[g].step = "accepted" => Journaled(handler[g].line)'
    BY DEF HandlersInOrder, OnGatewayLine
  <2>1. CASE g = h
    <3>1. Journaled(handler[g].line)'
      BY <1>2, <1>3, <1>4, <2>1 DEF Journaled, row
    <3>2. Before(handler[h].line, nextId)
      BY <1>2, <1>3, <1>5, <2>1
    <3>3. handler'[g].line = handler[h].line /\ handler'[g].step = "accepted"
      BY <1>2, <1>3, <2>1
    <3>4. Before(handler[g].line, nextId)'
      BY <1>10, <2>1, <3>2, <3>3 DEF Before
    <3> QED BY <3>1, <3>3, <3>4
  <2>2. CASE g # h
    <3>1. handler'[g] = handler[g]
      BY <1>3, <2>2
    <3>2. Before(handler[g].line, nextId)
      BY <3>1 DEF IndInv, HandlersInOrder, OnGatewayLine
    <3>3. Before(handler[g].line, nextId)'
      BY <1>10, <3>1, <3>2 DEF Before
    <3>4. handler[g].step = "inserting" => Before(handler[g].line, handler[g].id)
      BY <3>1 DEF IndInv, HandlersInOrder, OnGatewayLine
    <3>5. handler[g].step = "inserting" => Before(handler[g].line, handler[g].id)'
      BY <3>1, <3>4 DEF Before, BeforeIn
    <3>6. handler[g].step = "accepted" => Journaled(handler[g].line)'
      BY <3>1 DEF IndInv, HandlersInOrder, OnGatewayLine, Journaled
    <3> QED BY <3>1, <3>3, <3>5, <3>6
  <2> QED BY <2>1, <2>2
<1>12. RowsAreEvents'
  <2> SUFFICES ASSUME NEW r \in journal \cup {row}
               PROVE  /\ r.key = SourceID(r.line)
                      /\ r.id < nextId'
                      /\ r.line[1] # 0 => Written(r.line) /\ file[r.line[1]][r.line[2]] = "event"
    BY DEF RowsAreEvents, Written, SourceID, row
  <2>1. CASE r = row
    BY <1>4, <1>5, <2>1
  <2>2. CASE r \in journal
    BY <1>1, <1>6, <1>9, <2>2 DEF IndInv, RowsAreEvents
  <2> QED BY <2>1, <2>2
<1>13. JournaledOnce'
  BY <1>4 DEF IndInv, JournaledOnce, row
<1>14. JournalIsAPrefix'
  <2> SUFFICES ASSUME ~deleted, NEW r \in journal \cup {row}, r.line[1] # 0,
                      NEW m \in 1 .. r.line[2] - 1, file[r.line[1]][m] = "event"
               PROVE  \E q \in journal : q.line = <<r.line[1], m>> /\ q.id < r.id
    BY DEF JournalIsAPrefix, row
  <2>1. CASE r = row
    BY <1>4, <2>1 DEF Before, BeforeIn
  <2>2. CASE r \in journal
    BY <2>2 DEF IndInv, JournalIsAPrefix
  <2> QED BY <2>1, <2>2
<1>15. InsertsAreAlone'
  <2>1. \A g \in Handlers : handler[g].id \in Nat
    BY DEF IndInv, TypeOK, Handlings
  <2> QED BY <1>1, <1>2, <1>3, <1>4, <1>6, <2>1 DEF IndInv, InsertsAreAlone, row
<1>16. GatewayOnLine' /\ FutureIsEmpty' /\ PassedIsJournaled'
  BY <1>2, GatewayView DEF x
<1> QED BY <1>7, <1>8, <1>11, <1>12, <1>13, <1>14, <1>15, <1>16 DEF IndInv

LEMMA InsertEventKeeps == ASSUME IndInv, NEW h \in Handlers, InsertEvent(h) PROVE IndInv'
<1> USE DEF podVars, gatewayVars, readerVars
<1>1. handler[h] \in Handlings /\ Sound(handler[h]) /\ handler[h].line \in Lines /\ nextId \in Nat
  BY HandlersAreSound DEF Handlings, IndInv, TypeOK
<1>2. handler[h].step = "found" /\ KeyIsFree(handler[h].line) /\ faults' \in Nat
      /\ UNCHANGED <<store, podVars, gatewayVars, runRow, deleted, readerVars, faults>>
  BY DEF InsertEvent, IndInv, TypeOK
<1>3. CASE ~runRow /\ handler' = [handler EXCEPT ![h].step = "refused"] /\ UNCHANGED <<journal, nextId>>
  <2>1. Sound([handler[h] EXCEPT !.step = "refused"])
    BY <1>1, <1>2 DEF Sound, Handlings
  <2>2. "refused" \in Steps \ {"inserting", "idle"}
    BY DEF Steps
  <2> QED BY <1>2, <1>3, <2>1, <2>2, StepKeeps DEF storeVars
<1>4. CASE Present(handler[h].line) /\ handler' = [handler EXCEPT ![h].step = "accepted"]
           /\ UNCHANGED <<journal, nextId>>
  <2>1. Journaled(handler[h].line)
    <3>1. PICK r \in journal : r.key = SourceID(handler[h].line)
      BY <1>4 DEF Present
    <3>2. r.line \in Lines /\ r.key = SourceID(r.line)
      BY DEF IndInv, TypeOK, Rows, RowsAreEvents
    <3> QED BY <1>1, <3>1, <3>2, SourceIDIsInjective DEF Journaled
  <2>2. Sound([handler[h] EXCEPT !.step = "accepted"])
    BY <1>1, <1>2, <2>1 DEF Sound, Handlings
  <2>3. "accepted" \in Steps \ {"inserting", "idle"}
    BY DEF Steps
  <2> QED BY <1>2, <1>4, <2>2, <2>3, StepKeeps DEF storeVars
<1>5. CASE ~Present(handler[h].line) /\ Write(h, handler[h].line)
  <2>1. runRow' \in BOOLEAN
    BY <1>2 DEF IndInv, TypeOK
  <2>2. CASE store = "memory"
    <3>1. handler[h].line[1] # 0 /\ ~deleted => Before(handler[h].line, nextId)
      BY <1>1, <1>2 DEF Sound
    <3>2. nextId < nextId' /\ nextId' \in {nextId, nextId + 1}
      BY <1>1, <1>5 DEF Write
    <3> QED BY <1>1, <1>2, <1>5, <2>1, <2>2, <3>1, <3>2, FreeLine, RowAppears DEF Write
  <2>3. CASE store # "memory"
    BY <1>2, <1>5, <2>1, <2>3, InsertBegins DEF Write
  <2> QED BY <2>2, <2>3
<1> QED BY <1>3, <1>4, <1>5 DEF InsertEvent

LEMMA WriteSnapshotKeeps == ASSUME IndInv, NEW h \in Handlers, WriteSnapshot(h) PROVE IndInv'
<1> USE DEF podVars, gatewayVars, readerVars
<1>1. handler[h] \in Handlings /\ Sound(handler[h]) /\ handler[h].line \in Lines /\ nextId \in Nat
  BY HandlersAreSound DEF Handlings, IndInv, TypeOK
<1>2. handler[h].step = "mirroring" /\ KeyIsFree(handler[h].line)
      /\ UNCHANGED <<store, podVars, gatewayVars, deleted, readerVars, faults>>
  BY DEF WriteSnapshot
<1>3. CASE Present(handler[h].line) /\ runRow' = TRUE /\ handler' = [handler EXCEPT ![h] = Idle]
           /\ UNCHANGED <<journal, nextId>>
  <2>1. Idle \in Handlings /\ Sound(Idle) /\ Idle.step # "inserting"
    BY JournalAssumption DEF Idle, Handlings, Steps, Lines, Sound
  <2>2. conn # h
    BY <1>2, NobodyWaits
  <2>3. handler' \in [Handlers -> Handlings] /\ \A g \in Handlers : handler'[g] = IF g = h THEN Idle ELSE handler[g]
    BY <1>3, <2>1 DEF IndInv, TypeOK
  <2>4. TypeOK'
    BY <1>2, <1>3, <2>3 DEF IndInv, TypeOK
  <2>5. HandlersOnLines'
    BY <1>2, <2>3 DEF IndInv, HandlersOnLines, OnGatewayLine, Written, Idle
  <2>6. HandlersInOrder'
    BY <1>2, <1>3, <2>3 DEF IndInv, HandlersInOrder, OnGatewayLine, Before, BeforeIn, Journaled, Idle
  <2>7. InsertsAreAlone'
    BY <1>3, <2>3 DEF IndInv, InsertsAreAlone, Idle
  <2>8. RowsAreEvents' /\ JournaledOnce' /\ JournalIsAPrefix'
    BY <1>2, <1>3 DEF IndInv, RowsAreEvents, JournaledOnce, JournalIsAPrefix, Written, SourceID
  <2>9. GatewayOnLine' /\ FutureIsEmpty' /\ PassedIsJournaled'
    BY <1>2, <1>3, <2>1, <2>2, GatewayView
  <2> QED BY <2>4, <2>5, <2>6, <2>7, <2>8, <2>9 DEF IndInv
<1>4. CASE ~Present(handler[h].line) /\ runRow' = (runRow \/ store = "memory") /\ Write(h, handler[h].line)
  <2>1. runRow' \in BOOLEAN
    BY <1>4
  <2>2. CASE store = "memory"
    <3>1. handler[h].line[1] = 0
      BY <1>1, <1>2 DEF Sound
    <3>2. nextId < nextId' /\ nextId' \in {nextId, nextId + 1}
      BY <1>1, <1>4 DEF Write
    <3> QED BY <1>1, <1>2, <1>4, <2>1, <2>2, <3>1, <3>2, FreeLine, RowAppears DEF Write
  <2>3. CASE store # "memory"
    BY <1>2, <1>4, <2>1, <2>3, InsertBegins DEF Write
  <2> QED BY <2>2, <2>3
<1> QED BY <1>3, <1>4 DEF WriteSnapshot

LEMMA CommitKeeps == ASSUME IndInv, NEW h \in Handlers, Commit(h) PROVE IndInv'
<1> USE DEF podVars, gatewayVars, readerVars
<1>1. handler[h] \in Handlings /\ Sound(handler[h]) /\ handler[h].id \in Nat /\ nextId \in Nat
  BY HandlersAreSound DEF Handlings, IndInv, TypeOK
<1>2. /\ handler[h].step = "inserting" /\ nextId' = nextId /\ runRow' \in BOOLEAN
      /\ journal' = journal \cup {NewRow(handler[h].line, handler[h].id)}
      /\ handler' = [handler EXCEPT ![h] = At("accepted", handler[h].line, 0)]
      /\ UNCHANGED <<store, podVars, gatewayVars, deleted, readerVars, faults>>
  BY DEF Commit
<1>3. /\ handler[h].id < nextId
      /\ \A r \in journal : r.line # handler[h].line
      /\ \A g \in Handlers : handler[g].step = "inserting" /\ g # h
            => handler[g].line # handler[h].line
  BY <1>2 DEF IndInv, InsertsAreAlone
<1>4. handler[h].line[1] # 0 /\ ~deleted => Before(handler[h].line, handler[h].id)
  BY <1>1, <1>2 DEF Sound
<1> QED BY <1>1, <1>2, <1>3, <1>4, RowAppears

LEMMA DeleteRunKeeps == ASSUME IndInv, DeleteRun PROVE IndInv'
<1> USE DEF DeleteRun, podVars, gatewayVars, readerVars
<1>1. journal' \subseteq journal
  OBVIOUS
<1>2. TypeOK'
  BY <1>1 DEF IndInv, TypeOK
<1>3. HandlersOnLines' /\ HandlersInOrder' /\ InsertsAreAlone'
  BY DEF IndInv, HandlersOnLines, HandlersInOrder, InsertsAreAlone, OnGatewayLine, Written
<1>4. RowsAreEvents' /\ JournaledOnce' /\ JournalIsAPrefix'
  BY <1>1 DEF IndInv, RowsAreEvents, JournaledOnce, JournalIsAPrefix, Written, SourceID
<1>5. GatewayOnLine' /\ FutureIsEmpty' /\ PassedIsJournaled'
  BY DEF IndInv, GatewayOnLine, FutureIsEmpty, PassedIsJournaled
<1> QED BY <1>2, <1>3, <1>4, <1>5 DEF IndInv

----------------------------------------------------------------------------
LEMMA NextKeeps == ASSUME IndInv, [Next]_vars PROVE IndInv'
<1>1. CASE UNCHANGED vars
  <2> USE <1>1 DEF vars, podVars, gatewayVars, storeVars, readerVars
  <2>1. TypeOK' /\ GatewayOnLine' /\ FutureIsEmpty' /\ PassedIsJournaled'
    BY DEF IndInv, TypeOK, GatewayOnLine, FutureIsEmpty, PassedIsJournaled, Journaled
  <2> QED BY <2>1, RowsFrame, HandlersFrame DEF IndInv
<1>2. CASE \E k \in Kinds : EmitLine(k)
  BY <1>2, EmitLineKeeps
<1>3. CASE HarnessExit \/ GatewayStop \/ NextAttempt
  BY <1>3, HarnessExitKeeps, GatewayStopKeeps, NextAttemptKeeps
<1>4. CASE ReadLine \/ LoseAnswer \/ GatewayRestart
  BY <1>4, ReadLineKeeps, LoseAnswerKeeps, GatewayRestartKeeps
<1>5. CASE \E h \in Handlers : Post(h) \/ Answer(h) \/ CheckEvent(h) \/ FailRequest(h)
  BY <1>5, PostKeeps, AnswerKeeps, CheckEventKeeps, FailRequestKeeps
<1>6. CASE \E h \in Handlers : InsertEvent(h) \/ WriteSnapshot(h) \/ Commit(h)
  BY <1>6, InsertEventKeeps, WriteSnapshotKeeps, CommitKeeps
<1>7. CASE \E h \in Handlers : \E v \in 1 .. MaxSnapshots : ReadSnapshot(h, v)
  BY <1>7, ReadSnapshotKeeps
<1>8. CASE DeleteRun \/ ListRunEvents
  BY <1>8, DeleteRunKeeps, ListRunEventsKeeps
<1> QED BY <1>1, <1>2, <1>3, <1>4, <1>5, <1>6, <1>7, <1>8 DEF Next

\* The invariant that carries the theorems holds in every state.
THEOREM Inductive == Spec => []IndInv
BY InitIndInv, NextKeeps, PTL DEF Spec

\* Every state of files, gateway, handlers and journal has its type, and the
\* gateway waits exactly when it has a handler to wait for.
THEOREM TypeCorrect == Spec => []TypeOK
<1>1. IndInv => TypeOK
  BY DEF IndInv
<1> QED BY <1>1, Inductive, PTL

\* insertEvent and appendEventLocked: no number of restarts, lost answers and
\* concurrent handlers puts a line into the journal twice.
THEOREM OnceOnly == Spec => []JournaledOnce
<1>1. IndInv => JournaledOnce
  BY DEF IndInv
<1> QED BY <1>1, Inductive, PTL

\* RunGateway's one-at-a-time delivery: what the journal holds of an attempt is
\* a prefix of its events, in order of id, for every number of attempts.
THEOREM InOrderWithoutGaps == Spec => []JournalIsAPrefix
<1>1. IndInv => JournalIsAPrefix
  BY DEF IndInv
<1> QED BY <1>1, Inductive, PTL

\* forwardGatewayEvent returns only for events that are in the journal.
THEOREM NothingIsSkipped == Spec => []PassedIsJournaled
<1>1. IndInv => PassedIsJournaled
  BY DEF IndInv
<1> QED BY <1>1, Inductive, PTL

----------------------------------------------------------------------------
(* The reader *)

\* In memory no row is outstanding, so every row to come has an id above the
\* cursor; and a page leaves out nothing between two cursors.
ReaderInv ==
  /\ IsFiniteSet(journal)
  /\ store = "memory" => \A h \in Handlers : handler[h].step # "inserting"
  /\ cursor < nextId
  /\ MemoryReaderMissesNothing

\* A page that reaches a row holds every row between the cursor and it.
LEMMA PageIsContiguous ==
  ASSUME IsFiniteSet(journal), NEW r \in journal, NEW last \in Page, TypeOK,
         r.id > cursor, r.id <= last.id
  PROVE  r \in Page
<1> DEFINE after == {q \in journal : q.id > cursor}
           below(x) == {q \in after : q.id < x.id}
<1>1. \A q \in journal : q.id \in Nat
  BY DEF TypeOK, Rows
<1>2. IsFiniteSet(below(last))
  BY FS_Subset
<1>3. below(r) \in SUBSET below(last)
  BY <1>1 DEF Page, TypeOK
<1>4. Cardinality(below(r)) <= Cardinality(below(last))
  BY <1>2, <1>3, FS_Subset
<1>5. IsFiniteSet(below(r)) /\ Cardinality(below(r)) \in Nat /\ Cardinality(below(last)) \in Nat
  BY <1>2, <1>3, FS_Subset, FS_CardinalityType
<1>6. Cardinality(below(last)) < PageLimit
  BY DEF Page
<1>7. Cardinality(below(r)) < PageLimit
  BY <1>4, <1>5, <1>6, JournalAssumption
<1> QED BY <1>7 DEF Page

\* Steps that leave the journal, the ids and the reader alone.
LEMMA ReaderFrame ==
  ASSUME ReaderInv, UNCHANGED <<store, journal, nextId, readerVars>>,
         store = "memory" => \A h \in Handlers : handler'[h].step # "inserting"
  PROVE  ReaderInv'
BY DEF ReaderInv, MemoryReaderMissesNothing, readerVars

\* A new row's id is above every cursor.
LEMMA WriteKeepsReader ==
  ASSUME IndInv, ReaderInv, NEW h \in Handlers, NEW line, Write(h, line), UNCHANGED <<store, readerVars>>
  PROVE  ReaderInv'
<1>0. nextId \in Nat /\ cursor \in Nat /\ handler \in [Handlers -> Handlings]
  BY DEF IndInv, TypeOK
<1>1. CASE store = "memory"
  <2>1. journal' = journal \cup {NewRow(line, nextId)}
    BY <1>1 DEF Write
  <2>2. IsFiniteSet(journal')
    BY <2>1, FS_AddElement DEF ReaderInv
  <2>3. \A g \in Handlers : handler'[g].step # "inserting"
    BY <1>0, <1>1 DEF Write, At, ReaderInv
  <2>4. MemoryReaderMissesNothing'
    BY <1>0, <2>1 DEF ReaderInv, MemoryReaderMissesNothing, NewRow, readerVars
  <2> QED BY <1>0, <2>2, <2>3, <2>4 DEF ReaderInv, Write, readerVars
<1>2. CASE store # "memory"
  BY <1>0, <1>2 DEF Write, ReaderInv, MemoryReaderMissesNothing, readerVars
<1> QED BY <1>1, <1>2

\* The cursor moves to the end of a page that has no holes.
LEMMA ListKeepsReader ==
  ASSUME IndInv, ReaderInv, ListRunEvents
  PROVE  ReaderInv'
<1>0. TypeOK /\ cursor \in Nat /\ nextId \in Nat
  BY DEF IndInv, TypeOK
<1>1. PICK last \in Page : cursor' = last.id /\ \A r \in Page : r.id <= last.id
  BY DEF ListRunEvents
<1>2. last \in journal /\ last.id < nextId
  BY <1>1 DEF Page, IndInv, RowsAreEvents
<1>3. cursor' < nextId'
  BY <1>1, <1>2 DEF ListRunEvents, storeVars
<1>4. MemoryReaderMissesNothing'
  <2> SUFFICES ASSUME store = "memory", NEW r \in journal, r.id <= last.id PROVE r.id \in seen'
    BY <1>1 DEF MemoryReaderMissesNothing, ListRunEvents, storeVars
  <2>1. CASE r.id <= cursor
    BY <2>1 DEF ReaderInv, MemoryReaderMissesNothing, ListRunEvents
  <2>2. CASE r.id > cursor
    <3>1. r \in Page
      BY <1>0, <2>2, PageIsContiguous DEF ReaderInv
    <3> QED BY <3>1 DEF ListRunEvents
  <2>3. r.id \in Nat
    BY <1>0 DEF TypeOK, Rows
  <2> QED BY <1>0, <2>1, <2>2, <2>3
<1> QED BY <1>3, <1>4 DEF ReaderInv, ListRunEvents, storeVars

LEMMA ReaderStep == IndInv /\ ReaderInv /\ [Next]_vars => ReaderInv'
<1> SUFFICES ASSUME IndInv, ReaderInv, [Next]_vars PROVE ReaderInv'
  OBVIOUS
<1>0. handler \in [Handlers -> Handlings]
  BY DEF IndInv, TypeOK
<1>1. CASE UNCHANGED vars
  BY <1>1, ReaderFrame DEF vars, storeVars, ReaderInv
<1>2. CASE (\E k \in Kinds : EmitLine(k)) \/ HarnessExit \/ GatewayStop \/ NextAttempt
             \/ ReadLine \/ LoseAnswer \/ GatewayRestart
  BY <1>2, ReaderFrame DEF EmitLine, HarnessExit, GatewayStop, NextAttempt, ReadLine, LoseAnswer,
                           GatewayRestart, storeVars, ReaderInv
<1>3. ASSUME NEW h \in Handlers, Post(h) \/ Answer(h) \/ CheckEvent(h) \/ FailRequest(h)
                                 \/ \E v \in 1 .. MaxSnapshots : ReadSnapshot(h, v)
      PROVE  ReaderInv'
  <2>1. UNCHANGED <<store, journal, nextId, readerVars>>
    BY <1>3 DEF Post, Answer, CheckEvent, FailRequest, ReadSnapshot, storeVars
  <2>2. \A g \in Handlers : handler'[g].step = "inserting" => handler[g].step = "inserting"
    <3>1. CASE Post(h)
      BY <1>0, <3>1 DEF Post, At, Handlings
    <3>2. CASE Answer(h)
      BY <1>0, <3>2 DEF Answer, Idle, Handlings
    <3>3. CASE CheckEvent(h)
      <4>1. PICK s \in {"found", "refused"} : handler' = [handler EXCEPT ![h].step = s]
        BY <3>3 DEF CheckEvent
      <4> QED BY <1>0, <4>1 DEF Handlings
    <3>4. CASE FailRequest(h)
      BY <1>0, <3>4 DEF FailRequest, Handlings
    <3>5. CASE \E v \in 1 .. MaxSnapshots : ReadSnapshot(h, v)
      <4>1. PICK v \in 1 .. MaxSnapshots : ReadSnapshot(h, v)
        BY <3>5
      <4> QED BY <1>0, <4>1 DEF ReadSnapshot, At, Handlings
    <3> QED BY <1>3, <3>1, <3>2, <3>3, <3>4, <3>5
  <2> QED BY <2>1, <2>2, ReaderFrame DEF ReaderInv
<1>4. ASSUME NEW h \in Handlers, InsertEvent(h) \/ WriteSnapshot(h)
      PROVE  ReaderInv'
  <2> DEFINE line == handler[h].line
  <2>1. UNCHANGED <<store, readerVars>>
    BY <1>4 DEF InsertEvent, WriteSnapshot
  <2>2. CASE Write(h, line)
    BY <1>4, <2>1, <2>2, WriteKeepsReader
  <2>3. CASE ~Write(h, line)
    <3>1. UNCHANGED <<journal, nextId>>
      BY <1>4, <2>3 DEF InsertEvent, WriteSnapshot
    <3>2. \A g \in Handlers : handler'[g].step = "inserting" => handler[g].step = "inserting"
      BY <1>0, <1>4, <2>3 DEF InsertEvent, WriteSnapshot, Idle, Handlings
    <3> QED BY <2>1, <3>1, <3>2, ReaderFrame DEF ReaderInv
  <2> QED BY <2>2, <2>3
<1>5. ASSUME NEW h \in Handlers, Commit(h)
      PROVE  ReaderInv'
  <2>1. handler[h].step = "inserting" /\ store # "memory"
    BY <1>5 DEF Commit, ReaderInv
  <2>2. journal' = journal \cup {NewRow(handler[h].line, handler[h].id)} /\ UNCHANGED <<store, nextId, readerVars>>
    BY <1>5 DEF Commit
  <2>3. IsFiniteSet(journal')
    BY <2>2, FS_AddElement DEF ReaderInv
  <2> QED BY <2>1, <2>2, <2>3 DEF ReaderInv, MemoryReaderMissesNothing, readerVars
<1>6. CASE DeleteRun
  <2>1. journal' \in SUBSET journal /\ UNCHANGED <<store, handler, nextId, readerVars>>
    BY <1>6 DEF DeleteRun
  <2>2. IsFiniteSet(journal')
    BY <2>1, FS_Subset DEF ReaderInv
  <2> QED BY <2>1, <2>2 DEF ReaderInv, MemoryReaderMissesNothing, readerVars
<1>7. CASE ListRunEvents
  BY <1>7, ListKeepsReader
<1> QED BY <1>1, <1>2, <1>3, <1>4, <1>5, <1>6, <1>7 DEF Next

\* ListRunEvents of the in-memory store: whatever the size of the pages and
\* however the reader's calls and the writes interleave, it is shown every row
\* its cursor has passed.
THEOREM ReaderMissesNothing == Spec => []MemoryReaderMissesNothing
<1>1. Init => ReaderInv
  BY FS_EmptySet DEF Init, ReaderInv, MemoryReaderMissesNothing, Idle
<1>2. ReaderInv => MemoryReaderMissesNothing
  BY DEF ReaderInv
<1> QED BY <1>1, <1>2, ReaderStep, Inductive, PTL DEF Spec

=============================================================================
