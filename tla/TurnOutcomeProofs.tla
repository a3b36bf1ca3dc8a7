-------------------------- MODULE TurnOutcomeProofs --------------------------
(***************************************************************************)
(* Proofs about how the turns of ResearchTurns end, for every number of    *)
(* threads, turns and workers: one terminal event each; and, for a client  *)
(* that waits for a turn to end before it begins the next, the life cycle  *)
(* of the session, the row of a running turn, what is on record when the   *)
(* outcome is published, and the sources of a report.                      *)
(*                                                                         *)
(* The invariants stand in the order in which they rest on each other.     *)
(***************************************************************************)
EXTENDS ResearchTurnsProofs

----------------------------------------------------------------------------
(* Without duplicate deliveries a turn is executed once.                   *)

NoDuplicates == "duplicate" \notin Faults

RunsOnce ==
  /\ \A t \in Turns : copies[t] > 0 =>
       copies[t] = 1 /\ sent[t] = <<>> /\ \A w \in Workers : ~RunsTurn(w, t)
  /\ \A v, w \in Workers : wturn[v] = wturn[w] /\ wturn[w] # NoTurn => v = w

LEMMA RunsOnceInit == Init => RunsOnce
BY ConstantsAssumption DEF Init, RunsOnce, RunsTurn

LEMMA RunsOnceStep ==
  NoDuplicates /\ Typed /\ NotYetSent /\ RunsOnce /\ [Next]_vars => RunsOnce'
<1> SUFFICES ASSUME NoDuplicates, Typed, NotYetSent, RunsOnce, [Next]_vars
             PROVE  RunsOnce'
  OBVIOUS
<1> USE ConstantsAssumption DEF RunsOnce, RunsTurn, workVars, rowVars, busVars
<1>1. ASSUME NEW u \in Turns, RequestTouches(u) PROVE RunsOnce'
  <2>1. SUFFICES ASSUME NEW t \in Turns, copies'[t] > 0
                 PROVE  copies'[t] = 1 /\ sent'[t] = <<>> /\ \A w \in Workers : ~RunsTurn(w, t)'
    BY <1>1 DEF RequestTouches
  <2>2. CASE copies'[t] = copies[t]
    BY <1>1, <2>1, <2>2 DEF RequestTouches
  <2>3. CASE t = u /\ apc[t] = "send" /\ copies'[t] \in Deliveries
    BY <1>1, <2>1, <2>3 DEF RequestTouches, NotYetSent, PreSend, NoDuplicates, Deliveries
  <2>4. QED BY <1>1, <2>2, <2>3 DEF RequestTouches
<1>2. ASSUME NEW w \in Workers, WorkerTouches(w) PROVE RunsOnce'
  <2>1. PICK u \in Turns : TakesTurn(w, u) \/ WorksOn(w, u)
    BY <1>2 DEF WorkerTouches
  <2>2. \A v \in Workers \ {w} : wpc'[v] = wpc[v] /\ wturn'[v] = wturn[v]
    BY <1>2 DEF WorkerTouches
  <2>3. CASE TakesTurn(w, u)
    <3>1. copies[u] = 1 /\ copies'[u] = 0 /\ \A v \in Workers : wturn[v] # u
      BY <2>3 DEF TakesTurn, Typed, TypeOK
    <3>2. \A t \in Turns \ {u} : copies'[t] = copies[t]
      BY <2>3 DEF TakesTurn, Typed, TypeOK
    <3>3. QED BY <2>2, <2>3, <3>1, <3>2 DEF TakesTurn
  <2>4. CASE WorksOn(w, u)
    <3>1. copies[u] = 0
      <4>1. wturn[w] = u
        BY <2>4 DEF WorksOn
      <4>2. copies[u] \in 0..2
        BY DEF Typed, TypeOK
      <4>3. QED BY <4>1, <4>2
    <3>2. ASSUME NEW t \in Turns, copies'[t] > 0
          PROVE  copies'[t] = 1 /\ sent'[t] = <<>> /\ \A v \in Workers : wturn'[v] # t
      <4>1. t # u /\ copies'[t] = copies[t] /\ sent'[t] = sent[t]
        BY <2>4, <3>1, <3>2 DEF WorksOn
      <4>2. wturn'[w] # t
        BY <2>4, <4>1 DEF WorksOn
      <4>3. QED BY <2>2, <3>2, <4>1, <4>2
    <3>3. \A v \in Workers : wturn'[v] = NoTurn \/ wturn'[v] = wturn[v]
      BY <2>2, <2>4 DEF WorksOn
    <3>4. QED BY <3>2, <3>3
  <2>5. QED BY <2>1, <2>3, <2>4
<1>3. ASSUME NEW th \in Threads, Delete(th) PROVE RunsOnce'
  BY <1>3 DEF Delete
<1>4. CASE UNCHANGED vars
  BY <1>4 DEF vars
<1>5. QED
  BY <1>1, <1>2, <1>3, <1>4, RequestFootprint, WorkerFootprint DEF Next

----------------------------------------------------------------------------
(* One terminal event per turn.                                            *)

ClosesCleanly == "teardown" \notin Faults

\* A worker that is not closing its clients has published no terminal event.
StillOpen ==
  \A w \in Workers : wturn[w] \in Turns /\ wpc[w] # "teardown" =>
    \A i \in 1..Len(sent[wturn[w]]) : sent[wturn[w]][i] \notin Terminal

LEMMA EndsOnceInit == Init => EachTurnEndsOnce /\ StillOpen
BY ConstantsAssumption DEF Init, EachTurnEndsOnce, StillOpen

LEMMA EndsOnceStep ==
  /\ NoDuplicates /\ ClosesCleanly
  /\ Typed /\ RunsOnce /\ EachTurnEndsOnce /\ StillOpen
  /\ [Next]_vars
  => EachTurnEndsOnce' /\ StillOpen'
<1> SUFFICES ASSUME NoDuplicates, ClosesCleanly, Typed, RunsOnce,
                    EachTurnEndsOnce, StillOpen, [Next]_vars
             PROVE  EachTurnEndsOnce' /\ StillOpen'
  OBVIOUS
<1> USE ConstantsAssumption DEF workVars, rowVars, busVars
<1>1. ASSUME NEW u \in Turns, RequestTouches(u) PROVE EachTurnEndsOnce' /\ StillOpen'
  BY <1>1 DEF RequestTouches, EachTurnEndsOnce, StillOpen
<1>2. ASSUME NEW w \in Workers, WorkerTouches(w) PROVE EachTurnEndsOnce' /\ StillOpen'
  <2>1. PICK u \in Turns : TakesTurn(w, u) \/ WorksOn(w, u)
    BY <1>2 DEF WorkerTouches
  <2>2. \A v \in Workers \ {w} : wpc'[v] = wpc[v] /\ wturn'[v] = wturn[v]
    BY <1>2 DEF WorkerTouches
  <2>3. CASE TakesTurn(w, u)
    <3>1. sent' = sent /\ sent[u] = <<>>
      BY <2>3 DEF TakesTurn, RunsOnce
    <3>2. EachTurnEndsOnce'
      BY <3>1 DEF EachTurnEndsOnce
    <3>3. StillOpen'
      BY <2>2, <2>3, <3>1 DEF TakesTurn, StillOpen
    <3>4. QED BY <3>2, <3>3
  <2>4. CASE WorksOn(w, u) /\ sent'[u] = sent[u]
    <3>1. \A t \in Turns : sent'[t] = sent[t]
      BY <2>4 DEF WorksOn
    <3>2. EachTurnEndsOnce'
      BY <3>1 DEF EachTurnEndsOnce
    <3>3. ASSUME NEW v \in Workers, wturn'[v] \in Turns, wpc'[v] # "teardown"
          PROVE  wturn[v] = wturn'[v] /\ wpc[v] # "teardown"
      BY <2>2, <2>4, <3>3 DEF WorksOn, ClosesCleanly
    <3>4. StillOpen'
      BY <3>1, <3>3 DEF StillOpen
    <3>5. QED BY <3>2, <3>4
  <2>5. CASE WorksOn(w, u) /\ \E type \in EventTypes : Emits(w, u, type)
    <3>1. PICK type \in EventTypes : Emits(w, u, type)
      BY <2>5
    <3>2. /\ wturn[w] = u /\ wpc[w] # "teardown"
          /\ sent[u] \in Seq(EventTypes) /\ sent'[u] = Append(sent[u], type)
          /\ type \in Terminal => wpc'[w] \in {"teardown", "idle"}
      BY <2>5, <3>1 DEF WorksOn, Emits, Typed, TypeOK
    <3>3. \A i \in 1..Len(sent[u]) : sent[u][i] \notin Terminal
      BY <3>2 DEF StillOpen
    <3>4. \A i \in 1..Len(sent'[u]) : i = Len(sent'[u]) \/ sent'[u][i] \notin Terminal
      BY <3>2, <3>3, AppendFacts
    <3>5. EachTurnEndsOnce'
      BY <2>5, <3>4 DEF WorksOn, EachTurnEndsOnce
    <3>6. ASSUME NEW v \in Workers, wturn'[v] \in Turns, wpc'[v] # "teardown"
          PROVE  \A i \in 1..Len(sent'[wturn'[v]]) : sent'[wturn'[v]][i] \notin Terminal
      <4>1. CASE v = w
        <5>1. wturn'[w] = u /\ type \notin Terminal
          BY <2>5, <3>2, <3>6, <4>1 DEF WorksOn
        <5>2. QED BY SMTT(20), <3>2, <3>3, <4>1, <5>1, AppendFacts
      <4>2. CASE v # w
        <5>1. wturn[v] # u
          BY <2>2, <3>2, <3>6, <4>2 DEF RunsOnce
        <5>2. QED BY <2>2, <2>5, <3>6, <4>2, <5>1 DEF WorksOn, StillOpen
      <4>3. QED BY <4>1, <4>2
    <3>7. QED BY <3>5, <3>6 DEF StillOpen
  <2>6. QED BY <2>1, <2>3, <2>4, <2>5 DEF WorksOn
<1>3. ASSUME NEW th \in Threads, Delete(th) PROVE EachTurnEndsOnce' /\ StillOpen'
  BY <1>3 DEF Delete, EachTurnEndsOnce, StillOpen
<1>4. CASE UNCHANGED vars
  BY <1>4 DEF vars, EachTurnEndsOnce, StillOpen
<1>5. QED
  BY <1>1, <1>2, <1>3, <1>4, RequestFootprint, WorkerFootprint DEF Next

\* A turn's task that is delivered once, by a worker whose clients close
\* without raising, publishes one terminal event, and publishes it last:
\* run_turn's return after a question, its `except` and _execute's own
\* never end the same turn twice, however requests and turns interleave.
THEOREM OneTerminalEvent ==
  NoDuplicates /\ ClosesCleanly => (Spec => []EachTurnEndsOnce)
<1> SUFFICES ASSUME NoDuplicates, ClosesCleanly PROVE Spec => []EachTurnEndsOnce
  OBVIOUS
<1> DEFINE Inv == Typed /\ NotYetSent /\ RunsOnce /\ EachTurnEndsOnce /\ StillOpen
<1>1. Init => Inv
  BY InitTyped, NotYetSentInit, RunsOnceInit, EndsOnceInit
<1>2. Inv /\ [Next]_vars => Inv'
  BY TypedStep, NotYetSentStep, RunsOnceStep, EndsOnceStep
<1>3. QED BY <1>1, <1>2, PTL DEF Spec

----------------------------------------------------------------------------
(* One turn at a time: a client that begins a turn of a thread when the    *)
(* one before is over, a broker that enqueues and delivers once or says    *)
(* so, and subscriptions that hold.  Postgres, Redis, the graph and the    *)
(* processes may still fail at every step.                                 *)

Sequential ==
  ~Overlapping /\ Faults \cap {"duplicate", "ambiguous", "subscribe"} = {}

Active(t) == apc[t] # "new" /\ ~Over(t)

\* A failed request never enqueued its task.
RaisedUnsent ==
  \A t \in Turns : apc[t] \in Failing =>
    copies[t] = 0 /\ sent[t] = <<>> /\ \A w \in Workers : ~RunsTurn(w, t)

LEMMA RaisedUnsentStep ==
  Sequential /\ Typed /\ NotYetSent /\ RaisedUnsent /\ [Next]_vars => RaisedUnsent'
<1> SUFFICES ASSUME Sequential, Typed, NotYetSent, RaisedUnsent, [Next]_vars,
                    NEW t \in Turns, apc'[t] \in Failing
             PROVE  copies'[t] = 0 /\ sent'[t] = <<>> /\ \A w \in Workers : ~RunsTurn(w, t)'
  BY DEF RaisedUnsent
<1> USE ConstantsAssumption
<1> DEFINE Unsent == copies[t] = 0 /\ sent[t] = <<>> /\ \A w \in Workers : ~RunsTurn(w, t)
<1>1. apc[t] \in PreSend \cup Failing => Unsent
  BY DEF NotYetSent, RaisedUnsent
<1>2. ASSUME NEW u \in Turns, RequestTouches(u) PROVE Unsent'
  <2>1. apc[t] \in PreSend \cup Failing /\ copies'[t] = copies[t]
    BY <1>2 DEF RequestTouches, Sequential
  <2>2. QED BY <1>1, <1>2, <2>1 DEF RequestTouches, RunsTurn, workVars
<1>3. ASSUME NEW w \in Workers, WorkerTouches(w) PROVE Unsent'
  <2>1. Unsent
    BY <1>1, <1>3 DEF WorkerTouches
  <2>2. PICK u \in Turns : TakesTurn(w, u) \/ WorksOn(w, u)
    BY <1>3 DEF WorkerTouches
  <2>3. u # t
    BY <2>1, <2>2 DEF TakesTurn, WorksOn, RunsTurn
  <2>4. copies'[t] = 0 /\ sent'[t] = <<>>
    BY <2>1, <2>2, <2>3 DEF TakesTurn, WorksOn, Typed, TypeOK, busVars
  <2>5. wturn'[w] # t
    BY <2>2, <2>3 DEF TakesTurn, WorksOn
  <2>6. QED BY <1>3, <2>1, <2>4, <2>5 DEF WorkerTouches, RunsTurn
<1>4. ASSUME NEW th \in Threads, Delete(th) PROVE Unsent'
  BY <1>1, <1>4 DEF Delete, apiVars, busVars, workVars, RunsTurn
<1>5. CASE UNCHANGED vars
  BY <1>1, <1>5 DEF vars, RunsTurn
<1>6. QED
  BY <1>2, <1>3, <1>4, <1>5, RequestFootprint, WorkerFootprint DEF Next

\* The one active turn of a thread is the one that began last.
ActiveIsLatest ==
  \A t \in Turns : IF Active(t) THEN latest[ThreadOf[t]] = t
                   ELSE apc[t] = "new" => latest[ThreadOf[t]] # t

\* A turn that is over stays over, and one that has not begun is not active.
LEMMA ActiveOnlyByBegin ==
  ASSUME Typed, [Next]_vars, NEW t \in Turns, Active(t)', ~Active(t)
  PROVE  apc[t] = "new" /\ (Begin(t) \/ RequestStep(t) \/ Abandon(t))
<1> USE ConstantsAssumption DEF Active, Over, Typed, TypeOK
<1>1. ASSUME NEW u \in Turns, RequestTouches(u) PROVE apc[t] = "new" /\ u = t
  <2>1. CASE u = t
    BY <1>1, <2>1 DEF RequestTouches
  <2>2. CASE u # t
    BY <1>1, <2>2 DEF RequestTouches, workVars
  <2>3. QED BY <2>1, <2>2
<1>2. ASSUME NEW w \in Workers, WorkerTouches(w) PROVE FALSE
  <2>1. apc[t] = "over" /\ copies[t] = 0 /\ \A v \in Workers : wturn[v] # t
    BY <1>2 DEF WorkerTouches
  <2>2. PICK u \in Turns : TakesTurn(w, u) \/ WorksOn(w, u)
    BY <1>2 DEF WorkerTouches
  <2>3. u # t
    BY <2>1, <2>2 DEF TakesTurn, WorksOn
  <2>4. copies'[t] = 0 /\ wturn'[w] # t
    BY <2>1, <2>2, <2>3 DEF TakesTurn, WorksOn
  <2>5. QED BY <1>2, <2>1, <2>4 DEF WorkerTouches
<1>3. ASSUME NEW th \in Threads, Delete(th) PROVE FALSE
  BY <1>3 DEF Delete, apiVars, workVars
<1>4. CASE UNCHANGED vars
  BY <1>4 DEF vars
<1>5. QED
  BY <1>1, <1>2, <1>3, <1>4, RequestFootprint, WorkerFootprint DEF Next

LEMMA LatestStep ==
  Sequential /\ Typed /\ ActiveIsLatest /\ [Next]_vars => ActiveIsLatest'
<1> SUFFICES ASSUME Sequential, Typed, ActiveIsLatest, [Next]_vars, NEW t \in Turns
             PROVE  IF Active(t)' THEN latest'[ThreadOf[t]] = t
                    ELSE apc'[t] = "new" => latest'[ThreadOf[t]] # t
  BY DEF ActiveIsLatest
<1> USE ConstantsAssumption
<1>1. CASE apc'[t] = apc[t] /\ latest'[ThreadOf[t]] = latest[ThreadOf[t]]
  BY <1>1, ActiveOnlyByBegin DEF ActiveIsLatest, Active
<1>2. ASSUME NEW u \in Turns, Begin(u) \/ RequestStep(u) \/ Abandon(u)
      PROVE  IF Active(t)' THEN latest'[ThreadOf[t]] = t
             ELSE apc'[t] = "new" => latest'[ThreadOf[t]] # t
  <2>1. RequestTouches(u)
    BY <1>2, RequestFootprint
  <2>2. CASE apc[u] = "new"
    <3>1. MayBegin(u) /\ latest'[ThreadOf[u]] = u
      BY <2>1, <2>2 DEF RequestTouches
    <3>2. CASE t = u
      BY <2>1, <3>1, <3>2 DEF RequestTouches
    <3>3. CASE t # u /\ ThreadOf[t] = ThreadOf[u]
      <4>1. ~Active(t)
        BY <3>1, <3>3 DEF MayBegin, Active, Sequential
      <4>2. apc'[t] = apc[t]
        BY <2>1, <3>3 DEF RequestTouches
      <4>3. ~Active(t)'
        <5>1. copies'[t] = copies[t] /\ UNCHANGED wturn
          BY <2>1, <3>3 DEF RequestTouches, workVars
        <5>2. QED BY <4>1, <4>2, <5>1 DEF Active, Over
      <4>4. QED BY <3>1, <3>3, <4>3
    <3>4. CASE t # u /\ ThreadOf[t] # ThreadOf[u]
      BY <1>1, <2>1, <3>4 DEF RequestTouches
    <3>5. QED BY <3>2, <3>3, <3>4
  <2>3. CASE apc[u] # "new"
    <3>1. latest' = latest
      BY <2>1, <2>3 DEF RequestTouches
    <3>2. CASE t # u
      BY <1>1, <2>1, <3>1, <3>2 DEF RequestTouches
    <3>3. CASE t = u
      <4>1. apc'[t] # "new" /\ Active(t)
        BY <2>1, <2>3, <3>3 DEF RequestTouches, Active, Over
      <4>2. QED BY <3>1, <4>1 DEF ActiveIsLatest
    <3>4. QED BY <3>2, <3>3
  <2>4. QED BY <2>2, <2>3
<1>3. ASSUME NEW w \in Workers, WorkerStep(w) \/ WorkerCrash(w)
      PROVE  apc'[t] = apc[t] /\ latest' = latest
  BY <1>3, WorkerFootprint DEF WorkerTouches
<1>4. ASSUME NEW th \in Threads, Delete(th)
      PROVE  apc'[t] = apc[t] /\ latest' = latest
  BY <1>4 DEF Delete, apiVars
<1>5. CASE UNCHANGED vars
  BY <1>1, <1>5 DEF vars
<1>6. QED
  BY <1>1, <1>2, <1>3, <1>4, <1>5 DEF Next

\* So two turns of a thread are never active together.
LEMMA OneActivePerThread ==
  ASSUME ActiveIsLatest, NEW t \in Turns, NEW u \in Turns,
         Active(t), Active(u), ThreadOf[t] = ThreadOf[u]
  PROVE  t = u
BY DEF ActiveIsLatest

\* The rows of a thread with an active turn are left alone by the steps of
\* every other turn.
LEMMA RequestLeavesRow ==
  ASSUME Typed, ActiveIsLatest, NEW t \in Turns, NEW u \in Turns \ {t},
         Active(t), RequestTouches(u)
  PROVE  Row(t)' = Row(t)
<1>1. CASE apc[u] = "new"
  BY <1>1 DEF RequestTouches, Row
<1>2. CASE apc[u] # "new"
  <2>1. Active(u)
    BY <1>2 DEF RequestTouches, Active, Over
  <2>2. ThreadOf[u] # ThreadOf[t]
    BY <2>1, OneActivePerThread
  <2>3. QED BY <2>2, ConstantsAssumption DEF RequestTouches, Row
<1>3. QED BY <1>1, <1>2

LEMMA WorkerLeavesRow ==
  ASSUME Typed, NotYetSent, ActiveIsLatest, NEW t \in Turns, NEW u \in Turns \ {t},
         NEW w \in Workers, Active(t), TakesTurn(w, u) \/ WorksOn(w, u)
  PROVE  /\ Row(t)' = Row(t) /\ audit'[t] = audit[t]
         /\ report'[ThreadOf[t]] = report[ThreadOf[t]]
         /\ sources'[ThreadOf[t]] = sources[ThreadOf[t]]
<1>1. CASE TakesTurn(w, u)
  BY <1>1 DEF TakesTurn, rowVars, Row
<1>2. CASE WorksOn(w, u)
  <2>1. wturn[w] = u
    BY <1>2 DEF WorksOn
  <2>2. Active(u)
    BY <2>1 DEF Active, Over, NotYetSent, PreSend, RunsTurn
  <2>3. ThreadOf[u] # ThreadOf[t]
    BY <2>2, OneActivePerThread
  <2>4. QED BY <1>2, <2>3, ConstantsAssumption DEF WorksOn, Row
<1>3. QED BY <1>1, <1>2

----------------------------------------------------------------------------
(* The row of a running turn.                                              *)

RowFits(w) ==
  /\ wpc[w] \in {"setup", "touch"} => Row(wturn[w]) \in {"queued", "absent"}
  /\ wpc[w] \in {"clarify", "brief", "supervisor", "publish_source"}
       => Row(wturn[w]) = "queued"
  /\ wpc[w] \in {"publish_running", "writer"} => Row(wturn[w]) = "running"

\* A turn that is about to be taken finds its row queued, or deleted.
RowWaits(t) == apc[t] = "send" \/ copies[t] > 0 => Row(t) \in {"queued", "absent"}

RowFollows == (\A t \in Turns : RowWaits(t)) /\ (\A w \in Workers : RowFits(w))

LEMMA WorkerKeepsRow ==
  ASSUME Typed, NEW w \in Workers, RowFits(w), wpc[w] # "idle",
         WorkerStep(w) \/ WorkerCrash(w)
  PROVE  RowFits(w)'
<1> USE ConstantsAssumption
<1> USE DEF Typed, TypeOK, BusyWorkerHasTurn, RowFits, Row, rowVars, On, Move, Stop
<1>1. CASE Take(w)
  BY <1>1 DEF Take
<1>2. CASE SetUp(w)
  BY <1>2 DEF SetUp
<1>3. CASE TurnTouch(w)
  BY <1>3 DEF TurnTouch, Touch
<1>4. CASE NodeDone(w) \/ PublishSource(w) \/ PublishRunning(w)
  BY <1>4 DEF NodeDone, PublishSource, PublishRunning
<1>5. CASE AddSource(w)
  BY <1>5 DEF AddSource
<1>6. CASE SetRunning(w)
  BY <1>6 DEF SetRunning, SetStatus
<1>7. CASE AskClarification(w) \/ WriteReport(w) \/ RecordOutcome(w) \/ PublishOutcome(w)
  BY <1>7 DEF AskClarification, WriteReport, RecordOutcome, PublishOutcome
<1>8. CASE TurnRaises(w) \/ RecordFailureStatus(w) \/ RecordFailureAudit(w)
  BY <1>8 DEF TurnRaises, RecordFailureStatus, RecordFailureAudit
<1>9. CASE PublishError(w) \/ TearDown(w) \/ EscapesRunTurn(w) \/ WorkerCrash(w)
  BY <1>9 DEF PublishError, TearDown, EscapesRunTurn, WorkerCrash
<1>10. CASE HandlerStatus(w) \/ HandlerAudit(w) \/ HandlerPublish(w) \/ HandlerRaises(w)
  BY <1>10 DEF HandlerStatus, HandlerAudit, HandlerPublish, HandlerRaises
<1>11. QED
  BY <1>1, <1>2, <1>3, <1>4, <1>5, <1>6, <1>7, <1>8, <1>9, <1>10 DEF WorkerStep

\* What the proofs about single turns rest on.
SequentialInv ==
  Typed /\ NotYetSent /\ RunsOnce /\ RaisedUnsent /\ ActiveIsLatest /\ RowFollows

LEMMA RequestFollows ==
  ASSUME Sequential, SequentialInv, NEW u \in Turns, RequestTouches(u)
  PROVE  RowFollows'
<1> USE ConstantsAssumption DEF SequentialInv
<1>1. ASSUME NEW t \in Turns PROVE RowWaits(t)'
  <2>1. CASE t = u
    <3>1. CASE apc'[t] = "send"
      BY <2>1, <3>1 DEF RequestTouches, RowWaits
    <3>2. CASE copies'[t] > 0
      <4>1. apc[t] \notin PreSend \cup Failing \/ apc[t] = "send"
        BY <2>1, <3>2 DEF RequestTouches, NotYetSent, RaisedUnsent
      <4>2. UNCHANGED status
        BY <2>1, <4>1 DEF RequestTouches, PreSend, Failing
      <4>3. apc[t] = "send" \/ copies[t] > 0
        BY <2>1, <3>2 DEF RequestTouches
      <4>4. QED BY <4>2, <4>3 DEF RowFollows, RowWaits, Row
    <3>3. QED BY <3>1, <3>2 DEF RowWaits
  <2>2. CASE t # u
    <3>1. apc'[t] = apc[t] /\ copies'[t] = copies[t]
      BY <1>1, <2>2 DEF RequestTouches
    <3>2. apc[t] = "send" \/ copies[t] > 0 => Active(t)
      BY DEF Active, Over, NotYetSent, PreSend
    <3>3. QED BY <2>2, <3>1, <3>2, RequestLeavesRow DEF RowFollows, RowWaits
  <2>3. QED BY <2>1, <2>2
<1>2. ASSUME NEW w \in Workers PROVE RowFits(w)'
  <2>1. wpc'[w] = wpc[w] /\ wturn'[w] = wturn[w]
    BY DEF RequestTouches, workVars
  <2>2. CASE wturn[w] = NoTurn
    BY <2>1, <2>2 DEF RowFits, Typed, BusyWorkerHasTurn
  <2>3. CASE wturn[w] # NoTurn
    <3>1. wturn[w] \in Turns /\ apc[wturn[w]] \notin PreSend \cup Failing
      BY <2>3 DEF Typed, BusyWorkerHasTurn, NotYetSent, RaisedUnsent, RunsTurn
    <3>2. Active(wturn[w])
      BY <3>1 DEF Active, Over, PreSend
    <3>3. CASE wturn[w] = u
      <4>1. UNCHANGED status
        BY <3>1, <3>3 DEF RequestTouches, PreSend, Failing
      <4>2. QED BY <2>1, <4>1 DEF RowFollows, RowFits, Row
    <3>4. CASE wturn[w] # u
      <4>1. status'[ThreadOf[wturn[w]]] = status[ThreadOf[wturn[w]]]
        BY <3>1, <3>2, <3>4, RequestLeavesRow DEF Row
      <4>2. QED BY <2>1, <4>1 DEF RowFollows, RowFits, Row
    <3>5. QED BY <3>3, <3>4
  <2>4. QED BY <2>2, <2>3
<1>3. QED BY <1>1, <1>2 DEF RowFollows

LEMMA WorkerFollows ==
  ASSUME Sequential, SequentialInv, NEW w \in Workers, WorkerStep(w) \/ WorkerCrash(w)
  PROVE  RowFollows'
<1> USE ConstantsAssumption DEF SequentialInv
<1>1. /\ UNCHANGED apc
      /\ \A v \in Workers \ {w} : wpc'[v] = wpc[v] /\ wturn'[v] = wturn[v]
  BY WorkerFootprint DEF WorkerTouches
<1>2. PICK u \in Turns : TakesTurn(w, u) \/ WorksOn(w, u)
  BY WorkerFootprint DEF WorkerTouches
<1>3. \A t \in Turns : copies'[t] > 0 => copies[t] > 0
  BY <1>2 DEF TakesTurn, WorksOn, Typed, TypeOK
<1>4. CASE TakesTurn(w, u)
  <2>1. UNCHANGED status /\ wturn'[w] = u /\ wpc'[w] = "setup" /\ copies[u] > 0
    BY <1>4 DEF TakesTurn, rowVars
  <2>2. \A t \in Turns : RowWaits(t)'
    BY <1>1, <1>3, <2>1 DEF RowFollows, RowWaits, Row
  <2>3. RowFits(w)'
    BY <2>1 DEF RowFollows, RowWaits, RowFits, Row
  <2>4. \A v \in Workers \ {w} : RowFits(v)'
    BY <1>1, <2>1 DEF RowFollows, RowFits, Row
  <2>5. QED BY <2>2, <2>3, <2>4 DEF RowFollows
<1>5. CASE WorksOn(w, u)
  <2>1. wturn[w] = u /\ wpc[w] # "idle"
    BY <1>5 DEF WorksOn
  <2>2. ASSUME NEW t \in Turns PROVE RowWaits(t)'
    <3>1. CASE apc[t] = "send" \/ copies[t] > 0
      <4>1. Active(t) /\ t # u
        BY <2>1, <3>1 DEF Active, Over, NotYetSent, PreSend, RunsOnce, RunsTurn
      <4>2. Row(t)' = Row(t)
        BY <1>5, <4>1, WorkerLeavesRow
      <4>3. QED BY <1>1, <1>3, <4>2 DEF RowFollows, RowWaits
    <3>2. QED BY <1>1, <1>3, <3>1 DEF RowWaits
  <2>3. RowFits(w)'
    BY <2>1, WorkerKeepsRow DEF RowFollows
  <2>4. ASSUME NEW v \in Workers \ {w} PROVE RowFits(v)'
    <3>1. CASE wturn[v] = NoTurn
      BY <1>1, <3>1 DEF RowFits, Typed, BusyWorkerHasTurn
    <3>2. CASE wturn[v] # NoTurn
      <4>1. wturn[v] \in Turns \ {u}
        BY <2>1, <3>2 DEF Typed, BusyWorkerHasTurn, RunsOnce
      <4>2. Active(wturn[v])
        BY <4>1 DEF Active, Over, NotYetSent, PreSend, RunsTurn
      <4>3. status'[ThreadOf[wturn[v]]] = status[ThreadOf[wturn[v]]]
        BY <1>5, <4>1, <4>2, WorkerLeavesRow DEF Row
      <4>4. QED BY <1>1, <4>3 DEF RowFollows, RowFits, Row
    <3>3. QED BY <3>1, <3>2
  <2>5. QED BY <2>2, <2>3, <2>4 DEF RowFollows
<1>6. QED BY <1>2, <1>4, <1>5

LEMMA DeleteFollows ==
  ASSUME SequentialInv, NEW th \in Threads, Delete(th)
  PROVE  RowFollows'
<1>1. /\ status[th] \notin {"queued", "running", "absent"}
      /\ \A h \in Threads \ {th} : status'[h] = status[h]
      /\ UNCHANGED <<apc, copies, wpc, wturn>>
  BY DEF Delete, InFlight, SequentialInv, Typed, TypeOK, apiVars, workVars
<1>2. \A t \in Turns : RowWaits(t)'
  BY <1>1, ConstantsAssumption DEF SequentialInv, RowFollows, RowWaits, Row
<1>3. ASSUME NEW w \in Workers PROVE RowFits(w)'
  BY <1>1, ConstantsAssumption
     DEF SequentialInv, Typed, BusyWorkerHasTurn, RowFollows, RowFits, Row
<1>4. QED BY <1>2, <1>3 DEF RowFollows

LEMMA SequentialInit == Init => SequentialInv
<1>1. Init => RaisedUnsent /\ ActiveIsLatest /\ RowFollows
  BY ConstantsAssumption
     DEF Init, RaisedUnsent, Failing, ActiveIsLatest, Active, RowFollows, RowWaits, RowFits
<1>2. QED BY <1>1, InitTyped, NotYetSentInit, RunsOnceInit DEF SequentialInv

LEMMA SequentialStep == Sequential /\ SequentialInv /\ [Next]_vars => SequentialInv'
<1> SUFFICES ASSUME Sequential, SequentialInv, [Next]_vars PROVE SequentialInv'
  OBVIOUS
<1>1. Typed' /\ NotYetSent' /\ RunsOnce' /\ RaisedUnsent' /\ ActiveIsLatest'
  BY TypedStep, NotYetSentStep, RunsOnceStep, RaisedUnsentStep, LatestStep
     DEF SequentialInv, Sequential, NoDuplicates
<1>2. RowFollows'
  <2>1. CASE UNCHANGED vars
    BY <2>1 DEF vars, SequentialInv, RowFollows, RowWaits, RowFits, Row
  <2>2. ASSUME NEW t \in Turns, Begin(t) \/ RequestStep(t) \/ Abandon(t) PROVE RowFollows'
    BY <2>2, RequestFollows, RequestFootprint DEF SequentialInv
  <2>3. QED BY <2>1, <2>2, WorkerFollows, DeleteFollows DEF Next
<1>3. QED BY <1>1, <1>2 DEF SequentialInv

\* While a turn runs, its row is there and says so: no request, no other
\* turn and no delete takes it away or overwrites it between run_turn's
\* touch and the write of the outcome.
THEOREM RunningTurnHoldsItsRow == Sequential => (Spec => []RowHeldDuringTurn)
<1> SUFFICES ASSUME Sequential PROVE Spec => []RowHeldDuringTurn
  OBVIOUS
<1>1. SequentialInv => RowHeldDuringTurn
  BY DEF SequentialInv, RowFollows, RowFits, RowHeldDuringTurn
<1>2. QED BY <1>1, SequentialInit, SequentialStep, PTL DEF Spec

----------------------------------------------------------------------------
(* The refinement of SessionLifecycle.                                     *)

LEMMA OthersStayActive ==
  ASSUME Typed, NEW u \in Turns, NEW t \in Turns \ {u},
         RequestTouches(u) \/ \E w \in Workers : WorkerTouches(w) /\ (TakesTurn(w, u) \/ WorksOn(w, u))
  PROVE  Active(t)' <=> Active(t)
<1> USE ConstantsAssumption DEF Active, Over
<1>1. CASE RequestTouches(u)
  BY <1>1 DEF RequestTouches, workVars
<1>2. ASSUME NEW w \in Workers, WorkerTouches(w), TakesTurn(w, u) \/ WorksOn(w, u)
      PROVE  Active(t)' <=> Active(t)
  <2>1. apc'[t] = apc[t] /\ \A v \in Workers \ {w} : wturn'[v] = wturn[v]
    BY <1>2 DEF WorkerTouches
  <2>2. copies'[t] = copies[t] /\ wturn[w] # t /\ wturn'[w] # t
    BY <1>2 DEF TakesTurn, WorksOn, Typed, TypeOK
  <2>3. QED BY <2>1, <2>2
<1>3. QED BY <1>1, <1>2

\* What a step on turn u may write to the row of its thread.
Writes(u) ==
  LET Becomes(s) == status' = [status EXCEPT ![ThreadOf[u]] = s]
  IN  \/ UNCHANGED status
      \/ Active(u) /\ Active(u)' /\ \/ Becomes("queued")
                                    \/ Row(u) = "queued" /\ Becomes("running")
                                    \/ Row(u) = "queued" /\ Becomes("clarifying")
                                    \/ Row(u) = "running" /\ Becomes("done")
      \/ Active(u) /\ Row(u) # "absent" /\ Becomes("failed")

LEMMA WritesAreLifecycleSteps ==
  ASSUME SequentialInv, SequentialInv', NEW u \in Turns, Writes(u),
         \A t \in Turns \ {u} : Active(t)' <=> Active(t)
  PROVE  [Lifecycle!Next]_(Lifecycle!vars)
<1> USE ConstantsAssumption DEF SequentialInv
<1> DEFINE th == ThreadOf[u]
           Becomes(s) == status' = [status EXCEPT ![th] = s]
<1>0. /\ \A h \in Threads : h \in BusyThreads <=> \E t \in Turns : ThreadOf[t] = h /\ Active(t)
      /\ \A h \in Threads : h \in BusyThreads' <=> \E t \in Turns : ThreadOf[t] = h /\ Active(t)'
      /\ BusyThreads \subseteq Threads /\ BusyThreads' \subseteq Threads
  BY DEF BusyThreads, Active
<1>1. th \in Threads /\ status[th] \in Statuses \cup {"absent"}
  BY DEF Typed, TypeOK
<1>2. Active(u) => th \in BusyThreads
  BY <1>0, <1>1
<1>3. ASSUME Active(u)' <=> Active(u) PROVE BusyThreads' = BusyThreads
  <2>1. \A t \in Turns : Active(t)' <=> Active(t)
    BY <1>3
  <2>2. \A h \in Threads : h \in BusyThreads' <=> h \in BusyThreads
    BY <1>0, <2>1
  <2>3. QED BY <1>0, <2>2
<1>5. ASSUME Active(u), ~Active(u)' PROVE BusyThreads' = BusyThreads \ {th}
  <2>1. \A t \in Turns \ {u} : Active(t) => ThreadOf[t] # th
    BY <1>5, OneActivePerThread
  <2>2. \A h \in Threads : h \in BusyThreads' <=> h \in BusyThreads /\ h # th
    BY <1>0, <1>5, <2>1
  <2>3. QED BY <1>0, <2>2
<1>6. ASSUME ~Active(u), Active(u)'
      PROVE  BusyThreads' = BusyThreads \cup {th} /\ th \notin BusyThreads
  <2>1. \A t \in Turns \ {u} : Active(t)' => ThreadOf[t] # th
    BY <1>6 DEF ActiveIsLatest
  <2>2. th \notin BusyThreads
    BY <1>0, <1>1, <1>6, <2>1
  <2>3. \A h \in Threads : h \in BusyThreads' <=> h \in BusyThreads \/ h = th
    BY <1>0, <1>6, <2>1
  <2>4. QED BY <1>0, <1>1, <2>2, <2>3
<1>7. CASE UNCHANGED status
  <2>1. CASE BusyThreads' = BusyThreads
    BY <1>7, <2>1 DEF Lifecycle!vars
  <2>2. CASE Active(u) /\ ~Active(u)'
    <3>1. Lifecycle!Close(th)
      BY <1>5, <1>7, <2>2 DEF Lifecycle!Close
    <3>2. QED BY <1>1, <3>1 DEF Lifecycle!Next
  <2>3. CASE ~Active(u) /\ Active(u)'
    <3>1. Lifecycle!Open(th)
      BY <1>6, <1>7, <2>3 DEF Lifecycle!Open
    <3>2. QED BY <1>1, <3>1 DEF Lifecycle!Next
  <2>4. QED BY <1>3, <2>1, <2>2, <2>3
<1>8. CASE Active(u) /\ Active(u)' /\ \/ Becomes("queued")
                                      \/ Row(u) = "queued" /\ Becomes("running")
                                      \/ Row(u) = "queued" /\ Becomes("clarifying")
                                      \/ Row(u) = "running" /\ Becomes("done")
  <2>1. th \in BusyThreads /\ BusyThreads' = BusyThreads
    BY <1>2, <1>3, <1>8
  <2>2. Lifecycle!Enqueue(th) \/ Lifecycle!Run(th) \/ Lifecycle!Ask(th) \/ Lifecycle!Report(th)
    BY <1>1, <1>8, <2>1
       DEF Row, Statuses, Lifecycle!Enqueue, Lifecycle!Run, Lifecycle!Ask, Lifecycle!Report,
           Lifecycle!Change, Lifecycle!Statuses, Lifecycle!Settled
  <2>3. QED BY <1>1, <2>2 DEF Lifecycle!Next
<1>9. CASE Active(u) /\ Row(u) # "absent" /\ Becomes("failed")
  <2>1. th \in BusyThreads /\ BusyThreads' \in {BusyThreads, BusyThreads \ {th}}
    BY <1>2, <1>3, <1>5, <1>9
  <2>2. Lifecycle!Fail(th)
    BY <1>1, <1>9, <2>1
       DEF Row, Statuses, Lifecycle!Fail, Lifecycle!Change, Lifecycle!Statuses, Lifecycle!Settled
  <2>3. QED BY <1>1, <2>2 DEF Lifecycle!Next
<1>10. QED BY <1>7, <1>8, <1>9 DEF Writes

LEMMA RequestWrites ==
  ASSUME SequentialInv, NEW t \in Turns, Begin(t) \/ RequestStep(t) \/ Abandon(t)
  PROVE  Writes(t)
<1> USE ConstantsAssumption
<1> USE DEF SequentialInv, Typed, TypeOK, Writes, Active, Over, Row, rowVars, Goto, At
<1>1. CASE EnqueueTouch(t)
  BY <1>1 DEF EnqueueTouch, Touch
<1>2. CASE EnqueueStatus(t)
  BY <1>2 DEF EnqueueStatus, SetStatus
<1>3. CASE MarkFailedWrite(t)
  BY <1>3 DEF MarkFailedWrite, SetStatus
<1>4. CASE Begin(t) \/ Subscribe(t) \/ Send(t) \/ SendRaises(t) \/ Abandon(t)
  BY <1>4 DEF Begin, Subscribe, Send, SendRaises, Abandon
<1>5. CASE Relay(t) \/ Unsubscribe(t) \/ RequestRaises(t) \/ MarkFailedRead(t) \/ MarkFailedRaises(t)
  BY <1>5 DEF Relay, Unsubscribe, RequestRaises, MarkFailedRead, MarkFailedRaises
<1>6. QED BY <1>1, <1>2, <1>3, <1>4, <1>5 DEF RequestStep

LEMMA WorkerWrites ==
  ASSUME SequentialInv, NEW w \in Workers, WorkerStep(w) \/ WorkerCrash(w),
         NEW t \in Turns, wturn[w] = t
  PROVE  Writes(t)
<1> USE ConstantsAssumption
<1> USE DEF SequentialInv, Typed, TypeOK, Writes, Row, rowVars, On, Move, Stop
<1>0. /\ Active(t) /\ UNCHANGED apc
      /\ UNCHANGED wturn => Active(t)'
  BY WorkerFootprint DEF Active, Over, NotYetSent, PreSend, RunsTurn, WorkerTouches
<1>1. CASE TurnTouch(w)
  BY <1>0, <1>1 DEF TurnTouch, Touch
<1>2. CASE AskClarification(w)
  BY <1>0, <1>2 DEF AskClarification, SetStatus, RowFollows, RowFits
<1>3. CASE SetRunning(w)
  BY <1>0, <1>3 DEF SetRunning, SetStatus, RowFollows, RowFits
<1>4. CASE WriteReport(w)
  BY <1>0, <1>4 DEF WriteReport, SetReport, SetStatus, RowFollows, RowFits
<1>5. CASE RecordFailureStatus(w)
  BY <1>0, <1>5 DEF RecordFailureStatus, SetStatus
<1>6. CASE HandlerStatus(w)
  BY <1>0, <1>6 DEF HandlerStatus, SetStatus
<1>7. CASE Take(w) \/ SetUp(w) \/ NodeDone(w) \/ AddSource(w) \/ PublishSource(w)
  BY <1>7 DEF Take, SetUp, NodeDone, AddSource, PublishSource
<1>8. CASE PublishRunning(w) \/ RecordOutcome(w) \/ PublishOutcome(w) \/ TurnRaises(w)
  BY <1>8 DEF PublishRunning, RecordOutcome, PublishOutcome, TurnRaises
<1>9. CASE RecordFailureAudit(w) \/ PublishError(w) \/ TearDown(w) \/ EscapesRunTurn(w)
  BY <1>9 DEF RecordFailureAudit, PublishError, TearDown, EscapesRunTurn
<1>10. CASE HandlerAudit(w) \/ HandlerPublish(w) \/ HandlerRaises(w) \/ WorkerCrash(w)
  BY <1>10 DEF HandlerAudit, HandlerPublish, HandlerRaises, WorkerCrash
<1>11. QED
  BY <1>1, <1>2, <1>3, <1>4, <1>5, <1>6, <1>7, <1>8, <1>9, <1>10 DEF WorkerStep

LEMMA DeleteIsLifecycleStep ==
  ASSUME SequentialInv, NEW th \in Threads, Delete(th)
  PROVE  [Lifecycle!Next]_(Lifecycle!vars)
<1>1. BusyThreads' = BusyThreads
  BY DEF Delete, BusyThreads, Over, apiVars, workVars
<1>2. Lifecycle!Delete(th)
  BY <1>1 DEF SequentialInv, Typed, TypeOK, Statuses, InFlight, Delete,
     Lifecycle!Delete, Lifecycle!Change, Lifecycle!Settled
<1>3. QED BY <1>2 DEF Lifecycle!Next

LEMMA LifecycleStep ==
  Sequential /\ SequentialInv /\ [Next]_vars => [Lifecycle!Next]_(Lifecycle!vars)
<1> SUFFICES ASSUME Sequential, SequentialInv, [Next]_vars
             PROVE  [Lifecycle!Next]_(Lifecycle!vars)
  OBVIOUS
<1>1. SequentialInv' /\ Typed
  BY SequentialStep DEF SequentialInv
<1>2. ASSUME NEW u \in Turns, Begin(u) \/ RequestStep(u) \/ Abandon(u)
      PROVE  [Lifecycle!Next]_(Lifecycle!vars)
  <2>1. \A t \in Turns \ {u} : Active(t)' <=> Active(t)
    BY <1>1, <1>2, RequestFootprint, OthersStayActive
  <2>2. Writes(u)
    BY <1>2, RequestWrites
  <2>3. QED BY <1>1, <2>1, <2>2, WritesAreLifecycleSteps
<1>3. ASSUME NEW w \in Workers, WorkerStep(w) \/ WorkerCrash(w)
      PROVE  [Lifecycle!Next]_(Lifecycle!vars)
  <2>1. WorkerTouches(w)
    BY <1>1, <1>3, WorkerFootprint
  <2>2. PICK u \in Turns : TakesTurn(w, u) \/ WorksOn(w, u)
    BY <2>1 DEF WorkerTouches
  <2>3. \A t \in Turns \ {u} : Active(t)' <=> Active(t)
    BY <1>1, <2>1, <2>2, OthersStayActive
  <2>4. Writes(u)
    BY <1>3, <2>2, WorkerWrites DEF TakesTurn, WorksOn, Writes, rowVars
  <2>5. QED BY <1>1, <2>3, <2>4, WritesAreLifecycleSteps
<1>4. CASE UNCHANGED vars
  BY <1>4 DEF vars, Lifecycle!vars, BusyThreads, Over
<1>5. QED
  BY <1>2, <1>3, <1>4, DeleteIsLifecycleStep DEF Next

\* The sessions table implements SessionLifecycle: with requests, broker,
\* workers and handlers hidden behind `busy`, every step is a step of the
\* life cycle the sidebar and the polling client rely on, or leaves the
\* status alone.
THEOREM ImplementsLifecycle == Sequential => (Spec => LifecycleSpec)
<1> SUFFICES ASSUME Sequential PROVE Spec => LifecycleSpec
  OBVIOUS
<1>1. Init => Lifecycle!Init
  BY DEF Init, Lifecycle!Init, BusyThreads
<1>2. SequentialInv /\ [Next]_vars => [Lifecycle!Next]_(Lifecycle!vars)
  BY LifecycleStep
<1>3. QED
  BY <1>1, <1>2, SequentialInit, SequentialStep, PTL DEF Spec, LifecycleSpec, Lifecycle!Spec

----------------------------------------------------------------------------
(* What the row and the audit log say once "done" was published.           *)

LEMMA HasAppend ==
  ASSUME NEW S, NEW s \in Seq(S), NEW e \in S, NEW x
  PROVE  Has(Append(s, e), x) <=> Has(s, x) \/ e = x
<1>1. Len(s) \in Nat
  OBVIOUS
<1>2. ASSUME Has(Append(s, e), x) PROVE Has(s, x) \/ e = x
  BY <1>1, <1>2, AppendFacts DEF Has
<1>3. ASSUME Has(s, x) \/ e = x PROVE Has(Append(s, e), x)
  <2>1. CASE e = x
    <3>1. Len(s) + 1 \in 1..Len(Append(s, e))
      BY <1>1, AppendFacts
    <3>2. QED BY <2>1, <3>1, AppendFacts DEF Has
  <2>2. CASE Has(s, x)
    BY <1>1, <2>2, AppendFacts DEF Has
  <2>3. QED BY <1>3, <2>1, <2>2
<1>4. QED BY <1>2, <1>3

LEMMA PublishHas ==
  ASSUME Typed, NEW t \in Turns, NEW type \in EventTypes, Publish(t, type), NEW x,
         Has(sent'[t], x), type # x
  PROVE  Has(sent[t], x)
<1>1. sent[t] \in Seq(EventTypes) /\ sent'[t] = Append(sent[t], type)
  BY DEF Publish, Typed, TypeOK
<1>2. QED BY <1>1, HasAppend

Reported(t) == Row(t) = "done" /\ report[ThreadOf[t]] = t

Delivered(t) == Row(t) = "absent" \/ (Reported(t) /\ Has(audit[t], "done"))

OutcomeFits(w) ==
  /\ wpc[w] = "audit_done" => Row(wturn[w]) = "absent" \/ Reported(wturn[w])
  /\ wpc[w] = "publish_done" => Delivered(wturn[w])

OutcomeFollows ==
  /\ \A w \in Workers : OutcomeFits(w)
  /\ \A t \in Turns : Has(sent[t], "done") /\ latest[ThreadOf[t]] = t => Delivered(t)

\* Only publish_done announces a report, and closing changes no row.
LEMMA WorkerKeepsOutcome ==
  ASSUME Typed, NEW w \in Workers, OutcomeFits(w), wpc[w] # "idle",
         WorkerStep(w) \/ WorkerCrash(w)
  PROVE  /\ OutcomeFits(w)'
         /\ \/ Has(sent'[wturn[w]], "done") => Has(sent[wturn[w]], "done")
            \/ wpc[w] = "publish_done" /\ UNCHANGED rowVars
         /\ wpc[w] = "teardown" => UNCHANGED rowVars
<1> USE ConstantsAssumption
<1> USE DEF Typed, TypeOK, BusyWorkerHasTurn, OutcomeFits, Delivered, Reported, Row,
            rowVars, busVars, On, Move, Stop
<1>p. ASSUME NEW type \in EventTypes \ {"done"}, Publish(wturn[w], type)
      PROVE  Has(sent'[wturn[w]], "done") => Has(sent[wturn[w]], "done")
  BY <1>p, PublishHas
<1>1. CASE Take(w)
  BY <1>1 DEF Take
<1>2. CASE SetUp(w) \/ TurnTouch(w) \/ AskClarification(w) \/ AddSource(w) \/ SetRunning(w)
  BY <1>2 DEF SetUp, TurnTouch, AskClarification, AddSource, SetRunning
<1>3. CASE NodeDone(w) \/ PublishSource(w)
  BY <1>3, <1>p DEF NodeDone, PublishSource, EventTypes
<1>4. CASE PublishRunning(w) \/ PublishError(w) \/ HandlerPublish(w)
  BY <1>4, <1>p DEF PublishRunning, PublishError, HandlerPublish, EventTypes, Terminal
<1>5. CASE WriteReport(w)
  BY <1>5 DEF WriteReport, SetReport, SetStatus, Exists
<1>6. CASE RecordOutcome(w)
  <2>1. CASE On(w, "audit_clarify")
    BY <1>6, <2>1 DEF RecordOutcome
  <2>2. CASE On(w, "audit_done")
    <3>1. wturn[w] \in Turns /\ audit[wturn[w]] \in Seq(Outcomes)
      BY <2>2
    <3>2. audit'[wturn[w]] = Append(audit[wturn[w]], "done")
      BY <1>6, <2>2, <3>1 DEF RecordOutcome, Record
    <3>3. Has(audit'[wturn[w]], "done")
      <4>1. "done" \in Outcomes
        BY DEF Outcomes
      <4>2. Has(Append(audit[wturn[w]], "done"), "done")
        BY <3>1, <4>1, HasAppend
      <4>3. QED BY <3>2, <4>2
    <3>4. QED BY <1>6, <2>2, <3>3 DEF RecordOutcome
  <2>3. QED BY <1>6, <2>1, <2>2 DEF RecordOutcome
<1>7. CASE PublishOutcome(w)
  BY <1>7, <1>p DEF PublishOutcome, EventTypes, Terminal
<1>8. CASE TurnRaises(w) \/ RecordFailureStatus(w) \/ RecordFailureAudit(w)
  BY <1>8 DEF TurnRaises, RecordFailureStatus, RecordFailureAudit, TurnFaultsAt
<1>9. CASE TearDown(w) \/ EscapesRunTurn(w) \/ WorkerCrash(w)
  BY <1>9 DEF TearDown, EscapesRunTurn, WorkerCrash
<1>10. CASE HandlerStatus(w) \/ HandlerAudit(w) \/ HandlerRaises(w)
  BY <1>10 DEF HandlerStatus, HandlerAudit, HandlerRaises
<1>11. QED
  BY <1>1, <1>2, <1>3, <1>4, <1>5, <1>6, <1>7, <1>8, <1>9, <1>10 DEF WorkerStep

\* What the proofs about outcomes rest on.
OutcomeInv == SequentialInv /\ EachTurnEndsOnce /\ StillOpen /\ OutcomeFollows

LEMMA RequestKeepsOutcome ==
  ASSUME Sequential, OutcomeInv, NEW u \in Turns, RequestTouches(u)
  PROVE  OutcomeFollows'
<1> USE ConstantsAssumption DEF OutcomeInv, SequentialInv
<1>0. UNCHANGED <<report, audit, sent, wpc, wturn>>
  BY DEF RequestTouches, workVars
<1>d. ASSUME NEW t \in Turns, Row(t)' = Row(t)
      PROVE  (Reported(t)' <=> Reported(t)) /\ (Delivered(t)' <=> Delivered(t))
  BY <1>0, <1>d DEF Reported, Delivered, Row
<1>1. ASSUME NEW w \in Workers PROVE OutcomeFits(w)'
  <2>1. CASE wturn[w] = NoTurn
    BY <1>0, <2>1 DEF OutcomeFits, Typed, BusyWorkerHasTurn
  <2>2. CASE wturn[w] # NoTurn
    <3>1. wturn[w] \in Turns /\ apc[wturn[w]] \notin PreSend \cup Failing
      BY <2>2 DEF Typed, BusyWorkerHasTurn, NotYetSent, RaisedUnsent, RunsTurn
    <3>2. status'[ThreadOf[wturn[w]]] = status[ThreadOf[wturn[w]]]
      <4>1. Active(wturn[w])
        BY <3>1 DEF Active, Over, PreSend
      <4>2. CASE wturn[w] = u
        BY <3>1, <4>2 DEF RequestTouches, PreSend, Failing
      <4>3. CASE wturn[w] # u
        BY <3>1, <4>1, <4>3, RequestLeavesRow DEF Row
      <4>4. QED BY <4>2, <4>3
    <3>3. QED BY <1>0, <3>2 DEF OutcomeFollows, OutcomeFits, Delivered, Reported, Row
  <2>3. QED BY <2>1, <2>2
<1>2. ASSUME NEW t \in Turns, Has(sent'[t], "done"), latest'[ThreadOf[t]] = t
      PROVE  Delivered(t)'
  <2>1. Has(sent[t], "done") /\ sent[t] # <<>>
    BY <1>0, <1>2 DEF Has
  <2>2. apc[t] \notin PreSend \cup Failing
    BY <2>1 DEF NotYetSent, RaisedUnsent
  <2>3. Row(t)' = Row(t) /\ latest[ThreadOf[t]] = t
    <3>1. CASE t = u
      BY <1>2, <2>2, <3>1 DEF RequestTouches, Row, PreSend, Failing
    <3>2. CASE t # u /\ ThreadOf[t] # ThreadOf[u]
      BY <1>2, <3>2 DEF RequestTouches, Row
    <3>3. CASE t # u /\ ThreadOf[t] = ThreadOf[u]
      <4>1. apc[u] # "new" /\ latest' = latest
        BY <1>2, <3>3 DEF RequestTouches
      <4>2. Active(u)
        BY <4>1 DEF RequestTouches, Active, Over
      <4>3. QED BY <1>2, <3>3, <4>1, <4>2 DEF ActiveIsLatest
    <3>4. QED BY <3>1, <3>2, <3>3
  <2>4. QED BY <1>d, <2>1, <2>3 DEF OutcomeFollows
<1>3. QED BY <1>1, <1>2 DEF OutcomeFollows

LEMMA WorkerOutcomeStep ==
  ASSUME Sequential, ClosesCleanly, OutcomeInv, NEW w \in Workers, WorkerStep(w) \/ WorkerCrash(w)
  PROVE  OutcomeFollows'
<1> USE ConstantsAssumption DEF OutcomeInv, SequentialInv
<1>1. /\ UNCHANGED latest
      /\ \A v \in Workers \ {w} : wpc'[v] = wpc[v] /\ wturn'[v] = wturn[v]
  BY WorkerFootprint DEF WorkerTouches
<1>2. PICK u \in Turns : TakesTurn(w, u) \/ WorksOn(w, u)
  BY WorkerFootprint DEF WorkerTouches
<1>3. CASE TakesTurn(w, u)
  <2>1. UNCHANGED <<status, report, audit, sent>> /\ wpc'[w] = "setup"
    BY <1>3 DEF TakesTurn, rowVars, busVars
  <2>2. \A v \in Workers : OutcomeFits(v)'
    BY <1>1, <2>1 DEF OutcomeFollows, OutcomeFits, Delivered, Reported, Row
  <2>3. \A t \in Turns : Delivered(t)' <=> Delivered(t)
    BY <2>1 DEF Delivered, Reported, Row
  <2>4. QED BY <1>1, <2>1, <2>2, <2>3 DEF OutcomeFollows
<1>4. CASE WorksOn(w, u)
  <2>1. wturn[w] = u /\ wpc[w] # "idle"
    BY <1>4 DEF WorksOn
  <2>2. Active(u)
    BY <2>1 DEF Active, Over, NotYetSent, PreSend, RunsTurn
  <2>3. /\ OutcomeFits(w)'
        /\ \/ Has(sent'[u], "done") => Has(sent[u], "done")
           \/ wpc[w] = "publish_done" /\ UNCHANGED rowVars
        /\ wpc[w] = "teardown" => UNCHANGED rowVars
    BY <2>1, WorkerKeepsOutcome DEF OutcomeFollows
  <2>4. ASSUME NEW v \in Workers \ {w} PROVE OutcomeFits(v)'
    <3>1. CASE wturn[v] = NoTurn
      BY <1>1, <3>1 DEF OutcomeFits, Typed, BusyWorkerHasTurn
    <3>2. CASE wturn[v] # NoTurn
      <4>1. wturn[v] \in Turns \ {u}
        BY <2>1, <3>2 DEF Typed, BusyWorkerHasTurn, RunsOnce
      <4>2. Active(wturn[v])
        BY <4>1 DEF Active, Over, NotYetSent, PreSend, RunsTurn
      <4>3. /\ status'[ThreadOf[wturn[v]]] = status[ThreadOf[wturn[v]]]
            /\ report'[ThreadOf[wturn[v]]] = report[ThreadOf[wturn[v]]]
            /\ audit'[wturn[v]] = audit[wturn[v]]
        BY <1>4, <4>1, <4>2, WorkerLeavesRow DEF Row
      <4>4. QED BY <1>1, <4>3 DEF OutcomeFollows, OutcomeFits, Delivered, Reported, Row
    <3>3. QED BY <3>1, <3>2
  <2>5. ASSUME NEW t \in Turns, Has(sent'[t], "done"), latest'[ThreadOf[t]] = t
        PROVE  Delivered(t)'
    <3>1. CASE t = u
      <4>1. CASE Has(sent[u], "done")
        <5>1. wpc[w] = "teardown"
          BY <2>1, <4>1 DEF StillOpen, Has, Terminal
        <5>2. UNCHANGED rowVars /\ Delivered(u)
          BY <1>1, <2>3, <2>5, <3>1, <4>1, <5>1 DEF OutcomeFollows
        <5>3. QED BY <3>1, <5>2 DEF Delivered, Reported, Row, rowVars
      <4>2. CASE wpc[w] = "publish_done" /\ UNCHANGED rowVars
        <5>1. Delivered(u)
          BY <2>1, <4>2 DEF OutcomeFollows, OutcomeFits
        <5>2. QED BY <3>1, <4>2, <5>1 DEF Delivered, Reported, Row, rowVars
      <4>3. QED BY <2>3, <2>5, <3>1, <4>1, <4>2
    <3>2. CASE t # u
      <4>1. ThreadOf[t] # ThreadOf[u]
        BY <1>1, <2>2, <2>5, <3>2 DEF ActiveIsLatest
      <4>2. /\ sent'[t] = sent[t] /\ audit'[t] = audit[t]
            /\ status'[ThreadOf[t]] = status[ThreadOf[t]]
            /\ report'[ThreadOf[t]] = report[ThreadOf[t]]
        BY <1>4, <3>2, <4>1 DEF WorksOn
      <4>3. Delivered(t)
        BY <1>1, <2>5, <4>2 DEF OutcomeFollows
      <4>4. QED BY <4>2, <4>3 DEF Delivered, Reported, Row
    <3>3. QED BY <3>1, <3>2
  <2>6. QED BY <2>3, <2>4, <2>5 DEF OutcomeFollows
<1>5. QED BY <1>2, <1>3, <1>4

LEMMA DeleteKeepsOutcome ==
  ASSUME OutcomeInv, NEW th \in Threads, Delete(th)
  PROVE  OutcomeFollows'
<1> USE ConstantsAssumption
<1>1. /\ UNCHANGED <<sent, latest, wpc, wturn>>
      /\ \A h \in Threads : IF h = th THEN status'[h] = "absent"
                            ELSE status'[h] = status[h] /\ report'[h] = report[h]
      /\ \A t \in Turns : ThreadOf[t] # th => audit'[t] = audit[t]
  BY DEF Delete, OutcomeInv, SequentialInv, Typed, TypeOK, apiVars, busVars, workVars
<1>2. \A t \in Turns : Delivered(t) => Delivered(t)'
  BY <1>1 DEF Delivered, Reported, Row
<1>3. ASSUME NEW w \in Workers PROVE OutcomeFits(w)'
  <2>1. wpc[w] \in {"audit_done", "publish_done"} => wturn[w] \in Turns
    BY DEF OutcomeInv, SequentialInv, Typed, BusyWorkerHasTurn
  <2>2. QED
    BY <1>1, <1>2, <2>1 DEF OutcomeInv, OutcomeFollows, OutcomeFits, Reported, Row
<1>4. QED BY <1>1, <1>2, <1>3 DEF OutcomeInv, OutcomeFollows

LEMMA OutcomeStep ==
  Sequential /\ ClosesCleanly /\ OutcomeInv /\ [Next]_vars => OutcomeInv'
<1> SUFFICES ASSUME Sequential, ClosesCleanly, OutcomeInv, [Next]_vars PROVE OutcomeInv'
  OBVIOUS
<1>1. SequentialInv' /\ EachTurnEndsOnce' /\ StillOpen'
  BY SequentialStep, EndsOnceStep DEF OutcomeInv, SequentialInv, Sequential, NoDuplicates
<1>2. OutcomeFollows'
  <2>1. CASE UNCHANGED vars
    BY <2>1 DEF vars, OutcomeInv, OutcomeFollows, OutcomeFits, Delivered, Reported, Row
  <2>2. ASSUME NEW t \in Turns, Begin(t) \/ RequestStep(t) \/ Abandon(t) PROVE OutcomeFollows'
    BY <2>2, RequestKeepsOutcome, RequestFootprint DEF OutcomeInv, SequentialInv
  <2>3. QED BY <2>1, <2>2, WorkerOutcomeStep, DeleteKeepsOutcome DEF Next
<1>3. QED BY <1>1, <1>2 DEF OutcomeInv

\* Once "done" was announced, and until the next turn begins, the session
\* row holds that turn's report and the audit log its outcome, or the user
\* deleted the thread: nobody's late failure handling takes it back.
THEOREM AnnouncedReportStays ==
  Sequential /\ ClosesCleanly => (Spec => []PublishedOutcomeHolds)
<1> SUFFICES ASSUME Sequential, ClosesCleanly PROVE Spec => []PublishedOutcomeHolds
  OBVIOUS
<1>1. Init => OutcomeInv
  <2>1. Init => OutcomeFollows
    BY ConstantsAssumption DEF Init, OutcomeFollows, OutcomeFits, Has
  <2>2. QED BY <2>1, SequentialInit, EndsOnceInit DEF OutcomeInv
<1>2. OutcomeInv => PublishedOutcomeHolds
  BY DEF OutcomeInv, OutcomeFollows, Delivered, Reported, PublishedOutcomeHolds, Exists, Row
<1>3. QED BY <1>1, <1>2, OutcomeStep, PTL DEF Spec

----------------------------------------------------------------------------
(* The sources of a report.                                                *)

Kept(t) == t \in sources[ThreadOf[t]]

\* Until the report is written, what was announced is stored.
SourcesFit(w) ==
  /\ wpc[w] \in {"setup", "touch", "clarify", "brief", "supervisor",
                 "publish_running", "writer"} /\ Has(sent[wturn[w]], "source")
       => Kept(wturn[w])
  /\ wpc[w] = "publish_source" => Kept(wturn[w])

SourcesFollow ==
  /\ \A w \in Workers : SourcesFit(w)
  /\ \A th \in Threads : report[th] # NoTurn => ThreadOf[report[th]] = th
  /\ ReportHasItsSources

\* What a worker does to the sources of its thread and to its report.
KeepsSources(w, t) ==
  /\ sources[ThreadOf[t]] \subseteq sources'[ThreadOf[t]]
  /\ \/ report'[ThreadOf[t]] = report[ThreadOf[t]]
     \/ report'[ThreadOf[t]] = t /\ wpc[w] = "writer" /\ sent'[t] = sent[t]
  /\ Has(sent'[t], "source") => Has(sent[t], "source") \/ wpc[w] = "publish_source"

LEMMA WorkerKeepsSources ==
  ASSUME Typed, NEW w \in Workers, RowFits(w), SourcesFit(w), wpc[w] # "idle",
         WorkerStep(w) \/ WorkerCrash(w)
  PROVE  SourcesFit(w)' /\ KeepsSources(w, wturn[w])
<1> USE ConstantsAssumption
<1> USE DEF Typed, TypeOK, BusyWorkerHasTurn, SourcesFit, KeepsSources, Kept,
            rowVars, busVars, On, Move, Stop
<1>p. ASSUME NEW type \in EventTypes \ {"source"}, Publish(wturn[w], type)
      PROVE  Has(sent'[wturn[w]], "source") => Has(sent[wturn[w]], "source")
  BY <1>p, PublishHas
<1>1. CASE Take(w)
  BY <1>1 DEF Take
<1>2. CASE SetUp(w) \/ TurnTouch(w) \/ AskClarification(w) \/ SetRunning(w)
  BY <1>2 DEF SetUp, TurnTouch, AskClarification, SetRunning
<1>3. CASE NodeDone(w)
  BY <1>3, <1>p DEF NodeDone, EventTypes
<1>4. CASE AddSource(w)
  <2>1. Exists(ThreadOf[wturn[w]])
    BY <1>4 DEF AddSource, RowFits, Row, Exists
  <2>2. QED BY <1>4, <2>1 DEF AddSource
<1>5. CASE PublishSource(w)
  BY <1>5 DEF PublishSource
<1>6. CASE PublishRunning(w) \/ PublishOutcome(w)
  BY <1>6, <1>p DEF PublishRunning, PublishOutcome, EventTypes, Terminal
<1>7. CASE PublishError(w) \/ HandlerPublish(w)
  BY <1>7, <1>p DEF PublishError, HandlerPublish, EventTypes, Terminal
<1>8. CASE WriteReport(w)
  BY <1>8 DEF WriteReport, SetReport
<1>9. CASE RecordOutcome(w) \/ TurnRaises(w) \/ RecordFailureStatus(w) \/ RecordFailureAudit(w)
  BY <1>9 DEF RecordOutcome, TurnRaises, RecordFailureStatus, RecordFailureAudit
<1>10. CASE TearDown(w) \/ EscapesRunTurn(w) \/ WorkerCrash(w)
  BY <1>10 DEF TearDown, EscapesRunTurn, WorkerCrash
<1>11. CASE HandlerStatus(w) \/ HandlerAudit(w) \/ HandlerRaises(w)
  BY <1>11 DEF HandlerStatus, HandlerAudit, HandlerRaises
<1>12. QED
  BY <1>1, <1>2, <1>3, <1>4, <1>5, <1>6, <1>7, <1>8, <1>9, <1>10, <1>11 DEF WorkerStep

LEMMA WorkerSourcesStep ==
  ASSUME Sequential, SequentialInv, SourcesFollow,
         NEW w \in Workers, WorkerStep(w) \/ WorkerCrash(w)
  PROVE  SourcesFollow'
<1> USE ConstantsAssumption DEF SequentialInv
<1>1. \A v \in Workers \ {w} : wpc'[v] = wpc[v] /\ wturn'[v] = wturn[v]
  BY WorkerFootprint DEF WorkerTouches
<1>2. PICK u \in Turns : TakesTurn(w, u) \/ WorksOn(w, u)
  BY WorkerFootprint DEF WorkerTouches
<1>3. CASE TakesTurn(w, u)
  <2>1. UNCHANGED <<report, sources, sent>> /\ wpc'[w] = "setup" /\ wturn'[w] = u
    BY <1>3 DEF TakesTurn, rowVars, busVars
  <2>2. sent[u] = <<>>
    BY <1>3 DEF TakesTurn, RunsOnce
  <2>3. SourcesFit(w)'
    BY <2>1, <2>2 DEF SourcesFit, Has
  <2>4. \A v \in Workers \ {w} : SourcesFit(v)'
    BY <1>1, <2>1 DEF SourcesFollow, SourcesFit, Kept
  <2>5. QED BY <2>1, <2>3, <2>4 DEF SourcesFollow, ReportHasItsSources
<1>4. CASE WorksOn(w, u)
  <2>1. wturn[w] = u /\ wpc[w] # "idle"
    BY <1>4 DEF WorksOn
  <2>2. SourcesFit(w)' /\ KeepsSources(w, u)
    BY <2>1, WorkerKeepsSources DEF SourcesFollow, RowFollows
  <2>3. ASSUME NEW v \in Workers \ {w} PROVE SourcesFit(v)'
    <3>1. CASE wturn[v] = NoTurn
      BY <1>1, <3>1 DEF SourcesFit, Typed, BusyWorkerHasTurn
    <3>2. CASE wturn[v] # NoTurn
      <4>1. wturn[v] \in Turns \ {u}
        BY <2>1, <3>2 DEF Typed, BusyWorkerHasTurn, RunsOnce
      <4>2. Active(wturn[v])
        BY <4>1 DEF Active, Over, NotYetSent, PreSend, RunsTurn
      <4>3. /\ sources'[ThreadOf[wturn[v]]] = sources[ThreadOf[wturn[v]]]
            /\ sent'[wturn[v]] = sent[wturn[v]]
        BY <1>4, <4>1, <4>2, WorkerLeavesRow DEF WorksOn
      <4>4. QED BY <1>1, <4>3 DEF SourcesFollow, SourcesFit, Kept
    <3>3. QED BY <3>1, <3>2
  <2>4. ASSUME NEW th \in Threads, report'[th] # NoTurn
        PROVE  /\ ThreadOf[report'[th]] = th
               /\ Has(sent'[report'[th]], "source") => report'[th] \in sources'[th]
    <3>0. report'[th] \in Turns
      BY <2>4, TypedStep, WorkerTyped DEF Typed, TypeOK
    <3>1. CASE report'[th] = report[th]
      <4>1. ThreadOf[report[th]] = th /\ (Has(sent[report[th]], "source") => report[th] \in sources[th])
        BY <2>4, <3>1 DEF SourcesFollow, ReportHasItsSources
      <4>2. sources[th] \subseteq sources'[th]
        BY <1>4, <2>2 DEF WorksOn, KeepsSources
      <4>3. CASE report[th] = u
        BY <2>1, <2>2, <3>1, <4>1, <4>2, <4>3 DEF KeepsSources, SourcesFollow, SourcesFit, Kept
      <4>4. CASE report[th] # u
        <5>1. sent'[report[th]] = sent[report[th]]
          BY <1>4, <3>0, <3>1, <4>4 DEF WorksOn
        <5>2. QED BY <3>1, <4>1, <4>2, <5>1
      <4>5. QED BY <4>3, <4>4
    <3>2. CASE report'[th] # report[th]
      <4>1. th = ThreadOf[u] /\ report'[th] = u /\ wpc[w] = "writer" /\ sent'[u] = sent[u]
        BY <1>4, <2>2, <3>2 DEF WorksOn, KeepsSources
      <4>2. Has(sent[u], "source") => Kept(u)
        BY <2>1, <4>1 DEF SourcesFollow, SourcesFit
      <4>3. QED BY <2>2, <4>1, <4>2 DEF KeepsSources, Kept
    <3>3. QED BY <3>1, <3>2
  <2>5. QED BY <2>2, <2>3, <2>4 DEF SourcesFollow, ReportHasItsSources
<1>5. QED BY <1>2, <1>3, <1>4

LEMMA DeleteKeepsSources ==
  ASSUME SequentialInv, SourcesFollow, NEW th \in Threads, Delete(th)
  PROVE  SourcesFollow'
<1> USE ConstantsAssumption DEF SequentialInv
<1>1. /\ UNCHANGED <<sent, wpc, wturn>>
      /\ report'[th] = NoTurn /\ status[th] \notin {"queued", "running", "absent"}
      /\ \A h \in Threads \ {th} : report'[h] = report[h] /\ sources'[h] = sources[h]
  BY DEF Delete, Typed, TypeOK, InFlight, apiVars, busVars, workVars
<1>2. ASSUME NEW w \in Workers PROVE SourcesFit(w)'
  <2>1. CASE wpc[w] \in {"setup", "touch", "clarify", "brief", "supervisor",
                         "publish_source", "publish_running", "writer"}
    <3>1. wturn[w] \in Turns /\ ThreadOf[wturn[w]] # th
      BY <1>1, <2>1 DEF Typed, BusyWorkerHasTurn, RowFollows, RowFits, Row
    <3>2. QED BY <1>1, <3>1 DEF SourcesFollow, SourcesFit, Kept
  <2>2. QED BY <1>1, <2>1 DEF SourcesFit
<1>3. QED BY <1>1, <1>2 DEF SourcesFollow, ReportHasItsSources

LEMMA SourcesStep ==
  Sequential /\ SequentialInv /\ SourcesFollow /\ [Next]_vars => SourcesFollow'
<1> SUFFICES ASSUME Sequential, SequentialInv, SourcesFollow, [Next]_vars
             PROVE  SourcesFollow'
  OBVIOUS
<1>1. CASE UNCHANGED <<report, sources, sent, wpc, wturn>>
  BY <1>1 DEF SourcesFollow, SourcesFit, Kept, ReportHasItsSources
<1>2. ASSUME NEW t \in Turns, Begin(t) \/ RequestStep(t) \/ Abandon(t)
      PROVE  UNCHANGED <<report, sources, sent, wpc, wturn>>
  BY <1>2, RequestFootprint DEF RequestTouches, workVars, SequentialInv
<1>3. CASE UNCHANGED vars
  BY <1>1, <1>3 DEF vars
<1>4. QED
  BY <1>1, <1>2, <1>3, WorkerSourcesStep, DeleteKeepsSources DEF Next

\* A stored report is listed with the sources its turn announced: they
\* are in the row before the client hears of them, and no delete comes
\* between them and the report.
THEOREM ReportsKeepTheirSources == Sequential => (Spec => []ReportHasItsSources)
<1> SUFFICES ASSUME Sequential PROVE Spec => []ReportHasItsSources
  OBVIOUS
<1> DEFINE Inv == SequentialInv /\ SourcesFollow
<1>1. Init => Inv
  <2>1. Init => SourcesFollow
    BY ConstantsAssumption DEF Init, SourcesFollow, SourcesFit, ReportHasItsSources
  <2>2. QED BY <2>1, SequentialInit
<1>2. Sequential /\ Inv /\ [Next]_vars => Inv'
  BY SequentialStep, SourcesStep
<1>3. Inv => ReportHasItsSources
  BY DEF SourcesFollow
<1>4. QED BY <1>1, <1>2, <1>3, PTL DEF Spec
=============================================================================
