------------------------- MODULE ResearchTurnsProofs -------------------------
(***************************************************************************)
(* Proofs about ResearchTurns, for every number of threads, turns and      *)
(* workers and however the turns of a thread overlap: the types, that      *)
(* nobody wedges a session, and what a stream gets to see.                 *)
(*                                                                         *)
(* The inductive invariant of the wedge theorem is its own statement,      *)
(* InFlightHasOwner, with the types and the fact that a worker that is not *)
(* idle has a turn.  The other theorems rest on what a step may touch at   *)
(* all: RequestFootprint and WorkerFootprint say it once for every action. *)
(***************************************************************************)
EXTENDS ResearchTurns, FiniteSetTheorems, TLAPS

BusyWorkerHasTurn ==
  \A w \in Workers : IF wpc[w] = "idle" THEN wturn[w] = NoTurn ELSE wturn[w] \in Turns

Typed == TypeOK /\ BusyWorkerHasTurn

----------------------------------------------------------------------------
(* Types.                                                                  *)

LEMMA PublishType ==
  ASSUME TypeOK, NEW t \in Turns, NEW type \in EventTypes, Publish(t, type)
  PROVE  sent' \in [Turns -> Seq(EventTypes)] /\ inbox' \in [Streams -> Seq(Events)]
<1>1. sent' \in [Turns -> Seq(EventTypes)]
  BY DEF Publish, TypeOK
<1>2. [turn |-> t, type |-> type] \in Events
  BY DEF Events
<1>3. inbox' \in [Streams -> Seq(Events)]
  BY <1>2 DEF Publish, TypeOK
<1>4. QED BY <1>1, <1>3

LEMMA ReleaseType ==
  ASSUME TypeOK, NEW t \in Turns, Release(t)
  PROVE  inbox' \in [Streams -> Seq(Events)]
BY DEF TypeOK, Release

LEMMA YieldType ==
  ASSUME TypeOK, NEW t \in Turns, NEW e \in Events, Yield(t, e)
  PROVE  seen' \in [Streams -> Seq(Events)]
BY DEF TypeOK, Yield

\* The initial state is typed.
LEMMA InitTyped == Init => Typed
BY ConstantsAssumption DEF Init, Typed, TypeOK, BusyWorkerHasTurn, Statuses,
   Outcomes, ApiPc, WorkerPc, Events, EventTypes, Terminal

LEMMA RequestTyped ==
  ASSUME Typed, NEW t \in Turns, Begin(t) \/ RequestStep(t) \/ Abandon(t)
  PROVE  Typed'
<1> USE ConstantsAssumption
<1> USE DEF Typed, BusyWorkerHasTurn, apiVars, rowVars, busVars, workVars, Goto, At
<1>e. ASSUME EndFailed(t), status' \in [Threads -> Statuses \cup {"absent"}] PROVE Typed'
  <2>1. [turn |-> t, type |-> "api_error"] \in Events
    BY DEF Events, EventTypes, Terminal
  <2>2. seen' \in [Streams -> Seq(Events)]
    BY <1>e, <2>1, YieldType DEF EndFailed
  <2>3. QED BY <1>e, <2>2 DEF EndFailed, TypeOK, ApiPc
<1>1. CASE Begin(t)
  BY <1>1 DEF Begin, TypeOK, ApiPc
<1>2. CASE Subscribe(t)
  BY <1>2 DEF Subscribe, TypeOK, ApiPc
<1>3. CASE EnqueueTouch(t)
  BY <1>3 DEF EnqueueTouch, Touch, TypeOK, ApiPc, Statuses
<1>4. CASE EnqueueStatus(t)
  BY <1>4 DEF EnqueueStatus, SetStatus, TypeOK, ApiPc, Statuses
<1>5. CASE Send(t)
  BY <1>5 DEF Send, Deliveries, TypeOK, ApiPc
<1>6. CASE SendRaises(t)
  <2>1. inbox' \in [Streams -> Seq(Events)]
    BY <1>6, ReleaseType DEF SendRaises
  <2>2. copies' \in [Turns -> 0..2]
    <3>1. CASE UNCHANGED copies
      BY <3>1 DEF TypeOK
    <3>2. CASE copies' = [copies EXCEPT ![t] = 1]
      BY <3>2 DEF TypeOK
    <3>3. QED BY <1>6, <3>1, <3>2 DEF SendRaises
  <2>3. apc' \in [Turns -> ApiPc]
    BY <1>6 DEF SendRaises, TypeOK, ApiPc
  <2>4. QED BY <1>6, <2>1, <2>2, <2>3 DEF SendRaises, TypeOK
<1>7. CASE Relay(t)
  <2>1. /\ inbox[t] \in Seq(Events) /\ inbox[t] # <<>>
        /\ Yield(t, Head(inbox[t]))
        /\ inbox' = [inbox EXCEPT ![t] = Tail(@)]
    BY <1>7 DEF Relay, TypeOK
  <2>2. Head(inbox[t]) \in Events /\ Tail(inbox[t]) \in Seq(Events)
    BY <2>1
  <2>3. seen' \in [Streams -> Seq(Events)]
    BY <2>1, <2>2, YieldType
  <2>4. inbox' \in [Streams -> Seq(Events)]
    BY <2>1, <2>2 DEF TypeOK
  <2>5. QED BY <1>7, <2>3, <2>4 DEF Relay, TypeOK, ApiPc
<1>8. CASE Unsubscribe(t)
  <2>1. inbox' \in [Streams -> Seq(Events)]
    BY <1>8, ReleaseType DEF Unsubscribe
  <2>2. QED BY <1>8, <2>1 DEF Unsubscribe, TypeOK, ApiPc
<1>9. CASE RequestRaises(t)
  <2>1. inbox' \in [Streams -> Seq(Events)]
    BY <1>9, ReleaseType DEF RequestRaises
  <2>2. QED BY <1>9, <2>1 DEF RequestRaises, TypeOK, ApiPc
<1>10. CASE MarkFailedRead(t)
  <2>1. CASE EndFailed(t) /\ UNCHANGED status
    BY <2>1, <1>e DEF TypeOK
  <2>2. CASE Goto(t, "fail") /\ UNCHANGED <<rowVars, copies, workVars, busVars, seen, latest>>
    BY <2>2 DEF TypeOK, ApiPc
  <2>3. QED BY <1>10, <2>1, <2>2 DEF MarkFailedRead
<1>11. CASE MarkFailedWrite(t)
  BY <1>11, <1>e DEF MarkFailedWrite, SetStatus, TypeOK, Statuses
<1>12. CASE MarkFailedRaises(t)
  BY <1>12, <1>e DEF MarkFailedRaises, TypeOK
<1>13. CASE Abandon(t)
  <2>1. inbox' \in [Streams -> Seq(Events)]
    BY <1>13, ReleaseType DEF Abandon
  <2>2. QED BY <1>13, <2>1 DEF Abandon, TypeOK, ApiPc
<1>14. QED
  BY <1>1, <1>2, <1>3, <1>4, <1>5, <1>6, <1>7, <1>8, <1>9, <1>10, <1>11, <1>12, <1>13
     DEF RequestStep

LEMMA WorkerTyped ==
  ASSUME Typed, NEW w \in Workers, WorkerStep(w) \/ WorkerCrash(w)
  PROVE  Typed'
<1> USE ConstantsAssumption
<1> USE DEF Typed, BusyWorkerHasTurn, apiVars, rowVars, busVars, workVars, On, Move, Stop
<1> DEFINE t == wturn[w]
<1>s. ASSUME NEW th \in Threads, NEW s \in Statuses,
             SetStatus(th, s) \/ Touch(th)
      PROVE  status' \in [Threads -> Statuses \cup {"absent"}]
  BY <1>s DEF SetStatus, Touch, TypeOK, Statuses
<1>a. ASSUME NEW o \in Outcomes, wpc[w] # "idle", Record(t, o)
      PROVE  audit' \in [Turns -> Seq(Outcomes)]
  <2>1. t \in Turns /\ audit[t] \in Seq(Outcomes)
    BY <1>a DEF TypeOK
  <2>2. QED BY <1>a, <2>1 DEF Record, TypeOK
<1>p. ASSUME NEW e \in EventTypes, wpc[w] # "idle", Publish(t, e)
      PROVE  sent' \in [Turns -> Seq(EventTypes)] /\ inbox' \in [Streams -> Seq(Events)]
  BY <1>p, PublishType DEF TypeOK
<1>t. wpc[w] # "idle" => t \in Turns /\ ThreadOf[t] \in Threads
  OBVIOUS
<1>1. CASE Take(w)
  BY <1>1 DEF Take, TypeOK, WorkerPc
<1>2. CASE SetUp(w)
  BY <1>2 DEF SetUp, TypeOK, WorkerPc
<1>3. CASE TurnTouch(w)
  BY <1>3, <1>s, <1>t DEF TurnTouch, TypeOK, WorkerPc, Statuses
<1>4. CASE NodeDone(w)
  BY <1>4, <1>p DEF NodeDone, TypeOK, WorkerPc, EventTypes
<1>5. CASE AskClarification(w)
  BY <1>5, <1>s, <1>t DEF AskClarification, TypeOK, WorkerPc, Statuses
<1>6. CASE AddSource(w)
  BY <1>6, <1>t DEF AddSource, TypeOK, WorkerPc
<1>7. CASE PublishSource(w)
  BY <1>7, <1>p DEF PublishSource, TypeOK, WorkerPc, EventTypes
<1>8. CASE SetRunning(w)
  BY <1>8, <1>s, <1>t DEF SetRunning, TypeOK, WorkerPc, Statuses
<1>9. CASE PublishRunning(w)
  BY <1>9, <1>p DEF PublishRunning, TypeOK, WorkerPc, EventTypes
<1>10. CASE WriteReport(w)
  <2>1. status' \in [Threads -> Statuses \cup {"absent"}]
    BY <1>10, <1>s, <1>t DEF WriteReport, SetReport, Statuses
  <2>2. report' \in [Threads -> Turns \cup {NoTurn}]
    BY <1>10, <1>t DEF WriteReport, SetReport, TypeOK
  <2>3. QED BY <1>10, <2>1, <2>2 DEF WriteReport, TypeOK, WorkerPc
<1>11. CASE RecordOutcome(w)
  <2>1. audit' \in [Turns -> Seq(Outcomes)]
    BY <1>11, <1>a DEF RecordOutcome, Outcomes
  <2>2. QED BY <1>11, <2>1 DEF RecordOutcome, TypeOK, WorkerPc
<1>12. CASE PublishOutcome(w)
  BY <1>12, <1>p DEF PublishOutcome, TypeOK, WorkerPc, EventTypes, Terminal
<1>13. CASE TurnRaises(w)
  <2>1. wpc[w] # "idle"
    BY <1>13 DEF TurnRaises, TurnFaultsAt
  <2>2. QED BY <1>13, <2>1 DEF TurnRaises, TypeOK, WorkerPc
<1>14. CASE RecordFailureStatus(w)
  BY <1>14, <1>s, <1>t DEF RecordFailureStatus, TypeOK, WorkerPc, Statuses
<1>15. CASE RecordFailureAudit(w)
  <2>1. audit' \in [Turns -> Seq(Outcomes)]
    BY <1>15, <1>a DEF RecordFailureAudit, Outcomes, TypeOK
  <2>2. QED BY <1>15, <2>1 DEF RecordFailureAudit, TypeOK, WorkerPc
<1>16. CASE PublishError(w)
  BY <1>16, <1>p DEF PublishError, TypeOK, WorkerPc, EventTypes, Terminal
<1>17. CASE TearDown(w)
  BY <1>17 DEF TearDown, TypeOK, WorkerPc
<1>18. CASE EscapesRunTurn(w)
  BY <1>18 DEF EscapesRunTurn, TypeOK, WorkerPc
<1>19. CASE HandlerStatus(w)
  BY <1>19, <1>s, <1>t DEF HandlerStatus, TypeOK, WorkerPc, Statuses
<1>20. CASE HandlerAudit(w)
  <2>1. audit' \in [Turns -> Seq(Outcomes)]
    BY <1>20, <1>a DEF HandlerAudit, Outcomes
  <2>2. QED BY <1>20, <2>1 DEF HandlerAudit, TypeOK, WorkerPc
<1>21. CASE HandlerPublish(w)
  BY <1>21, <1>p DEF HandlerPublish, TypeOK, WorkerPc, EventTypes, Terminal
<1>22. CASE HandlerRaises(w)
  BY <1>22 DEF HandlerRaises, TypeOK, WorkerPc
<1>23. CASE WorkerCrash(w)
  BY <1>23 DEF WorkerCrash, TypeOK, WorkerPc
<1>24. QED
  BY <1>1, <1>2, <1>3, <1>4, <1>5, <1>6, <1>7, <1>8, <1>9, <1>10, <1>11, <1>12,
     <1>13, <1>14, <1>15, <1>16, <1>17, <1>18, <1>19, <1>20, <1>21, <1>22, <1>23
     DEF WorkerStep

LEMMA DeleteTyped ==
  ASSUME Typed, NEW th \in Threads, Delete(th)
  PROVE  Typed'
<1>1. audit' \in [Turns -> Seq(Outcomes)]
  BY DEF Typed, TypeOK, Delete
<1>2. QED
  BY <1>1 DEF Typed, TypeOK, BusyWorkerHasTurn, Delete, apiVars, busVars, workVars

LEMMA TypedStep == Typed /\ [Next]_vars => Typed'
<1> SUFFICES ASSUME Typed, [Next]_vars PROVE Typed'
  OBVIOUS
<1>1. CASE UNCHANGED vars
  BY <1>1 DEF vars, Typed, TypeOK, BusyWorkerHasTurn
<1>2. CASE Next
  BY <1>2, RequestTyped, WorkerTyped, DeleteTyped DEF Next
<1>3. QED BY <1>1, <1>2

\* Every variable keeps its type, and every busy worker has a turn,
\* whatever fails and however turns overlap.
THEOREM Typing == Spec => [](TypeOK /\ BusyWorkerHasTurn)
<1>1. Init => Typed
  BY InitTyped
<1>2. Typed /\ [Next]_vars => Typed'
  BY TypedStep
<1>3. QED BY <1>1, <1>2, PTL DEF Spec, Typed

----------------------------------------------------------------------------
(* Nobody wedges a session.                                                *)

\* The faults after which nobody is left to write the failure.
NobodyVanishes == Faults \cap {"db", "crash", "disconnect"} = {}

TurnOwns(t) == apc[t] = "queue" \/ RequestOwns(t) \/ copies[t] > 0

LEMMA OwnedByDefinition ==
  \A th \in Threads : Owned(th) <=>
    \/ \E t \in Turns : ThreadOf[t] = th /\ TurnOwns(t)
    \/ \E w \in Workers : wturn[w] \in Turns /\ ThreadOf[wturn[w]] = th /\ WorkerOwns(w)
BY DEF Owned, TurnOwns

\* A step of the request of turn t that changes at most the status of its
\* own thread, and leaves it owned or settled, preserves the invariant.
LEMMA RequestFrame ==
  ASSUME Typed, InFlightHasOwner, NEW t \in Turns,
         UNCHANGED workVars,
         \A u \in Turns \ {t} : apc'[u] = apc[u] /\ copies'[u] = copies[u],
         \A th \in Threads \ {ThreadOf[t]} : status'[th] = status[th],
         \/ TurnOwns(t)'
         \/ Row(t)' \notin InFlight
         \/ ~TurnOwns(t) /\ Row(t)' = Row(t)
  PROVE  InFlightHasOwner'
<1> USE ConstantsAssumption
<1> SUFFICES ASSUME NEW th \in Threads, status'[th] \in InFlight
             PROVE  Owned(th)'
  BY DEF InFlightHasOwner
<1>1. CASE th = ThreadOf[t] /\ TurnOwns(t)'
  BY <1>1 DEF Owned, TurnOwns, RequestOwns
<1>2. CASE th # ThreadOf[t] \/ (~TurnOwns(t) /\ Row(t)' = Row(t))
  <2>1. Owned(th)
    BY <1>2 DEF InFlightHasOwner, Row
  <2>2. CASE \E u \in Turns : ThreadOf[u] = th /\ TurnOwns(u)
    <3>1. PICK u \in Turns : ThreadOf[u] = th /\ TurnOwns(u)
      BY <2>2
    <3>2. u # t
      BY <3>1, <1>2
    <3>3. TurnOwns(u)'
      BY <3>1, <3>2 DEF TurnOwns, RequestOwns
    <3>4. QED BY <3>1, <3>3 DEF Owned, TurnOwns
  <2>3. CASE \E w \in Workers : wturn[w] \in Turns /\ ThreadOf[wturn[w]] = th /\ WorkerOwns(w)
    BY <2>3 DEF Owned, WorkerOwns, workVars
  <2>4. QED BY <2>1, <2>2, <2>3 DEF Owned, TurnOwns
<1>3. CASE th = ThreadOf[t] /\ Row(t)' \notin InFlight
  BY <1>3 DEF Row
<1>4. QED BY <1>1, <1>2, <1>3

LEMMA RequestKeepsOwner ==
  ASSUME Typed, InFlightHasOwner, NobodyVanishes, NEW t \in Turns,
         Begin(t) \/ RequestStep(t) \/ Abandon(t)
  PROVE  InFlightHasOwner'
<1> USE ConstantsAssumption
<1> USE DEF Typed, TypeOK, apiVars, rowVars, busVars, workVars, Goto, At, TurnOwns, RequestOwns
<1>1. CASE Begin(t)
  BY <1>1, RequestFrame DEF Begin, Row
<1>2. CASE Subscribe(t)
  BY <1>2, RequestFrame DEF Subscribe, Row
<1>3. CASE EnqueueTouch(t)
  BY <1>3, RequestFrame DEF EnqueueTouch, Touch
<1>4. CASE EnqueueStatus(t)
  BY <1>4, RequestFrame DEF EnqueueStatus, SetStatus
<1>5. CASE Send(t)
  BY <1>5, RequestFrame DEF Send, Deliveries
<1>6. CASE SendRaises(t)
  BY <1>6, RequestFrame DEF SendRaises
<1>7. CASE Relay(t)
  BY <1>7, RequestFrame DEF Relay, Row
<1>8. CASE Unsubscribe(t)
  BY <1>8, RequestFrame DEF Unsubscribe, Row
<1>9. CASE RequestRaises(t)
  BY <1>9, RequestFrame DEF RequestRaises
<1>10. CASE MarkFailedRead(t)
  BY <1>10, RequestFrame DEF MarkFailedRead, EndFailed, Row, Settled, InFlight
<1>11. CASE MarkFailedWrite(t)
  BY <1>11, RequestFrame DEF MarkFailedWrite, EndFailed, SetStatus, Row, InFlight
<1>12. CASE MarkFailedRaises(t)
  BY <1>12 DEF MarkFailedRaises, NobodyVanishes
<1>13. CASE Abandon(t)
  BY <1>13 DEF Abandon, NobodyVanishes
<1>14. QED
  BY <1>1, <1>2, <1>3, <1>4, <1>5, <1>6, <1>7, <1>8, <1>9, <1>10, <1>11, <1>12, <1>13
     DEF RequestStep

\* The same for a step of worker w on turn t.
LEMMA WorkerFrame ==
  ASSUME Typed, InFlightHasOwner, NEW w \in Workers, NEW t \in Turns,
         UNCHANGED apc,
         \A u \in Turns \ {t} : copies'[u] = copies[u],
         \A v \in Workers \ {w} : wpc'[v] = wpc[v] /\ wturn'[v] = wturn[v],
         wturn[w] \in {t, NoTurn},
         wturn[w] = NoTurn => ~WorkerOwns(w),
         \A th \in Threads \ {ThreadOf[t]} : status'[th] = status[th],
         \/ WorkerOwns(w)' /\ wturn'[w] = t
         \/ Row(t)' \notin InFlight
         \/ ~WorkerOwns(w) /\ Row(t)' = Row(t) /\ copies'[t] = copies[t]
  PROVE  InFlightHasOwner'
<1> USE ConstantsAssumption
<1> SUFFICES ASSUME NEW th \in Threads, status'[th] \in InFlight
             PROVE  Owned(th)'
  BY DEF InFlightHasOwner
<1>1. CASE th = ThreadOf[t] /\ WorkerOwns(w)' /\ wturn'[w] = t
  BY <1>1 DEF Owned
<1>2. CASE th = ThreadOf[t] /\ Row(t)' \notin InFlight
  BY <1>2 DEF Row
<1>3. CASE \/ th # ThreadOf[t]
           \/ ~WorkerOwns(w) /\ Row(t)' = Row(t) /\ copies'[t] = copies[t]
  <2>1. Owned(th)
    BY <1>3 DEF InFlightHasOwner, Row
  <2>2. CASE \E u \in Turns : ThreadOf[u] = th /\ TurnOwns(u)
    <3>1. PICK u \in Turns : ThreadOf[u] = th /\ TurnOwns(u)
      BY <2>2
    <3>2. copies'[u] = copies[u]
      BY <3>1, <1>3
    <3>3. TurnOwns(u)'
      BY <3>1, <3>2 DEF TurnOwns, RequestOwns
    <3>4. QED BY <3>1, <3>3 DEF Owned, TurnOwns
  <2>3. CASE \E v \in Workers : wturn[v] \in Turns /\ ThreadOf[wturn[v]] = th /\ WorkerOwns(v)
    <3>1. PICK v \in Workers : wturn[v] \in Turns /\ ThreadOf[wturn[v]] = th /\ WorkerOwns(v)
      BY <2>3
    <3>2. v # w
      BY <3>1, <1>3
    <3>3. WorkerOwns(v)' /\ wturn'[v] = wturn[v]
      BY <3>1, <3>2 DEF WorkerOwns
    <3>4. QED BY <3>1, <3>3 DEF Owned
  <2>4. QED BY <2>1, <2>2, <2>3 DEF Owned, TurnOwns
<1>4. QED BY <1>1, <1>2, <1>3

LEMMA WorkerKeepsOwner ==
  ASSUME Typed, InFlightHasOwner, NobodyVanishes, NEW w \in Workers,
         WorkerStep(w) \/ WorkerCrash(w)
  PROVE  InFlightHasOwner'
<1> USE ConstantsAssumption
<1> USE DEF Typed, TypeOK, BusyWorkerHasTurn, apiVars, rowVars, busVars, workVars,
            On, Move, Stop, WorkerOwns, SetStatus, Row, InFlight
<1> DEFINE t == wturn[w]
<1>1. CASE Take(w)
  <2>1. PICK u \in Turns : /\ copies' = [copies EXCEPT ![u] = @ - 1]
                           /\ wturn' = [wturn EXCEPT ![w] = u]
    BY <1>1 DEF Take
  <2>2. QED BY ZenonT(30), <1>1, <2>1, WorkerFrame DEF Take
<1>2. CASE SetUp(w)
  BY <1>2, WorkerFrame DEF SetUp
<1>3. CASE TurnTouch(w)
  BY <1>3, WorkerFrame DEF TurnTouch, Touch
<1>4. CASE NodeDone(w)
  BY <1>4, WorkerFrame DEF NodeDone
<1>5. CASE AskClarification(w)
  BY <1>5, WorkerFrame DEF AskClarification
<1>6. CASE AddSource(w)
  BY <1>6, WorkerFrame DEF AddSource
<1>7. CASE PublishSource(w)
  BY <1>7, WorkerFrame DEF PublishSource
<1>8. CASE SetRunning(w)
  BY <1>8, WorkerFrame DEF SetRunning
<1>9. CASE PublishRunning(w)
  BY <1>9, WorkerFrame DEF PublishRunning
<1>10. CASE WriteReport(w)
  BY <1>10, WorkerFrame DEF WriteReport, SetReport
<1>11. CASE RecordOutcome(w)
  BY <1>11, WorkerFrame DEF RecordOutcome
<1>12. CASE PublishOutcome(w)
  BY <1>12, WorkerFrame DEF PublishOutcome
<1>13. CASE TurnRaises(w)
  BY <1>13, WorkerFrame DEF TurnRaises, TurnFaultsAt
<1>14. CASE RecordFailureStatus(w)
  BY ZenonT(30), <1>14, WorkerFrame DEF RecordFailureStatus, NobodyVanishes
<1>15. CASE RecordFailureAudit(w)
  BY <1>15, WorkerFrame DEF RecordFailureAudit
<1>16. CASE PublishError(w)
  BY <1>16, WorkerFrame DEF PublishError
<1>17. CASE TearDown(w)
  BY <1>17, WorkerFrame DEF TearDown
<1>18. CASE EscapesRunTurn(w)
  BY <1>18, WorkerFrame DEF EscapesRunTurn
<1>19. CASE HandlerStatus(w)
  BY <1>19, WorkerFrame DEF HandlerStatus
<1>20. CASE HandlerAudit(w)
  BY <1>20, WorkerFrame DEF HandlerAudit
<1>21. CASE HandlerPublish(w)
  BY <1>21, WorkerFrame DEF HandlerPublish
<1>22. CASE HandlerRaises(w)
  BY <1>22, WorkerFrame DEF HandlerRaises, NobodyVanishes
<1>23. CASE WorkerCrash(w)
  BY <1>23 DEF WorkerCrash, NobodyVanishes
<1>24. QED
  BY <1>1, <1>2, <1>3, <1>4, <1>5, <1>6, <1>7, <1>8, <1>9, <1>10, <1>11, <1>12,
     <1>13, <1>14, <1>15, <1>16, <1>17, <1>18, <1>19, <1>20, <1>21, <1>22, <1>23
     DEF WorkerStep

LEMMA DeleteKeepsOwner ==
  ASSUME Typed, InFlightHasOwner, NEW th \in Threads, Delete(th)
  PROVE  InFlightHasOwner'
<1> SUFFICES ASSUME NEW h \in Threads, status'[h] \in InFlight PROVE Owned(h)'
  BY DEF InFlightHasOwner
<1>1. h # th /\ status[h] \in InFlight
  BY DEF Delete, Typed, TypeOK, InFlight
<1>2. Owned(h)
  BY <1>1 DEF InFlightHasOwner
<1>3. QED
  BY <1>2 DEF Delete, Owned, RequestOwns, WorkerOwns, apiVars, workVars

\* As long as Postgres answers and no process dies or is cancelled, no
\* session is ever wedged in "queued" or "running": it always has a request
\* or a worker left that will write its outcome.  This is what mark_failed
\* and the two `except` clauses of the worker are for.
THEOREM NeverWedged == NobodyVanishes => (Spec => []InFlightHasOwner)
<1> SUFFICES ASSUME NobodyVanishes PROVE Spec => []InFlightHasOwner
  OBVIOUS
<1> DEFINE Inv == Typed /\ InFlightHasOwner
<1>1. Init => Inv
  BY InitTyped DEF Init, InFlightHasOwner, InFlight
<1>2. Inv /\ [Next]_vars => Inv'
  <2> SUFFICES ASSUME Inv, [Next]_vars PROVE InFlightHasOwner'
    BY TypedStep
  <2>1. CASE UNCHANGED vars
    BY <2>1 DEF vars, InFlightHasOwner, Owned, RequestOwns, WorkerOwns
  <2>2. CASE Next
    BY <2>2, RequestKeepsOwner, WorkerKeepsOwner, DeleteKeepsOwner DEF Next
  <2>3. QED BY <2>1, <2>2
<1>3. QED BY <1>1, <1>2, PTL DEF Spec

----------------------------------------------------------------------------
(* Footprints.                                                             *)

PreSend == {"new", "subscribe", "touch", "queue", "send"}
Failing == {"raised", "fail"}

\* A step of the request of turn t: only Send and SendRaises enqueue its
\* task, only a call before them or on the subscription can fail it, and
\* only the two enqueueing writes and mark_failed change the row.
RequestTouches(t) ==
  /\ apc[t] # "over" /\ apc'[t] # "new"
  /\ UNCHANGED <<workVars, sent, report, sources, audit>>
  /\ \A u \in Turns \ {t} : apc'[u] = apc[u] /\ copies'[u] = copies[u]
  /\ \A s \in Streams \ {t} : seen'[s] = seen[s] /\ inbox'[s] = inbox[s]
  /\ \A th \in Threads \ {ThreadOf[t]} : status'[th] = status[th] /\ latest'[th] = latest[th]
  /\ \/ UNCHANGED copies /\ (apc'[t] \in PreSend => apc[t] \in PreSend)
     \/ apc[t] = "send" /\ apc'[t] \notin PreSend /\ copies'[t] \in Deliveries
  /\ \/ apc'[t] \notin Failing
     \/ apc[t] \in PreSend \cup Failing /\ UNCHANGED copies
     \/ Faults \cap {"ambiguous", "subscribe"} # {}
  /\ UNCHANGED status \/ apc[t] \in {"touch", "queue", "fail"}
  /\ apc'[t] = "send" => Row(t)' \in {"queued", "absent"}
  /\ IF apc[t] = "new" THEN MayBegin(t) /\ latest'[ThreadOf[t]] = t ELSE UNCHANGED latest

\* A worker takes a task, and nothing else happens.
TakesTurn(w, t) ==
  /\ copies[t] > 0 /\ copies' = [copies EXCEPT ![t] = @ - 1]
  /\ wpc[w] = "idle" /\ wpc'[w] = "setup"
  /\ wturn[w] = NoTurn /\ wturn'[w] = t
  /\ UNCHANGED <<rowVars, busVars>>

\* A worker publishes an event of its turn, and turns to closing its
\* clients when that event is a terminal one.
Emits(w, t, type) ==
  /\ wpc[w] # "teardown"
  /\ sent'[t] = Append(sent[t], type)
  /\ type \in Terminal => wpc'[w] \in {"teardown", "idle"}

\* A worker goes on with its turn, or stops.
WorksOn(w, t) ==
  /\ wturn[w] = t /\ wpc[w] # "idle"
  /\ \/ wturn'[w] = t /\ wpc'[w] \notin {"idle", "setup"}
     \/ wturn'[w] = NoTurn /\ wpc'[w] = "idle"
  /\ sent'[t] = sent[t] \/ \E type \in EventTypes : Emits(w, t, type)
  /\ wpc[w] = "teardown" /\ "teardown" \notin Faults => wpc'[w] = "idle"
  /\ UNCHANGED copies
  /\ \A u \in Turns \ {t} : sent'[u] = sent[u] /\ audit'[u] = audit[u]
  /\ \A th \in Threads \ {ThreadOf[t]} :
       status'[th] = status[th] /\ report'[th] = report[th] /\ sources'[th] = sources[th]

WorkerTouches(w) ==
  /\ UNCHANGED <<apc, seen, latest>>
  /\ \A v \in Workers \ {w} : wpc'[v] = wpc[v] /\ wturn'[v] = wturn[v]
  /\ \E t \in Turns : TakesTurn(w, t) \/ WorksOn(w, t)

LEMMA RequestFootprint ==
  ASSUME Typed, NEW t \in Turns, Begin(t) \/ RequestStep(t) \/ Abandon(t)
  PROVE  RequestTouches(t)
<1> USE ConstantsAssumption
<1> USE DEF Typed, TypeOK, RequestTouches, PreSend, Failing, Deliveries,
            apiVars, rowVars, busVars, workVars, Goto, At
<1>1. CASE Begin(t)
  BY <1>1 DEF Begin
<1>2. CASE Subscribe(t)
  BY <1>2 DEF Subscribe
<1>3. CASE EnqueueTouch(t)
  BY <1>3 DEF EnqueueTouch, Touch
<1>4. CASE EnqueueStatus(t)
  BY <1>4 DEF EnqueueStatus, SetStatus, Row
<1>5. CASE Send(t)
  BY <1>5 DEF Send
<1>6. CASE SendRaises(t)
  BY <1>6 DEF SendRaises, Release
<1>7. CASE Relay(t)
  BY <1>7 DEF Relay, Yield
<1>8. CASE Unsubscribe(t)
  BY <1>8 DEF Unsubscribe, Release
<1>9. CASE RequestRaises(t)
  BY <1>9 DEF RequestRaises, ApiFaultsAt, Release
<1>10. CASE MarkFailedRead(t)
  BY <1>10 DEF MarkFailedRead, EndFailed, Yield
<1>11. CASE MarkFailedWrite(t)
  BY <1>11 DEF MarkFailedWrite, EndFailed, SetStatus, Yield
<1>12. CASE MarkFailedRaises(t)
  BY <1>12 DEF MarkFailedRaises, EndFailed, Yield
<1>13. CASE Abandon(t)
  BY <1>13 DEF Abandon, Release
<1>14. QED
  BY <1>1, <1>2, <1>3, <1>4, <1>5, <1>6, <1>7, <1>8, <1>9, <1>10, <1>11, <1>12, <1>13
     DEF RequestStep

LEMMA WorkerFootprint ==
  ASSUME Typed, NEW w \in Workers, WorkerStep(w) \/ WorkerCrash(w)
  PROVE  WorkerTouches(w)
<1> USE ConstantsAssumption
<1> USE DEF Typed, TypeOK, BusyWorkerHasTurn, WorkerTouches, WorksOn,
            apiVars, rowVars, busVars, workVars, On, Move, Stop
<1>p. ASSUME NEW type \in EventTypes, wpc[w] \notin {"idle", "teardown"},
             Publish(wturn[w], type), type \in Terminal => wpc'[w] \in {"teardown", "idle"}
      PROVE  /\ \E e \in EventTypes : Emits(w, wturn[w], e)
             /\ \A u \in Turns \ {wturn[w]} : sent'[u] = sent[u]
  <2>1. sent'[wturn[w]] = Append(sent[wturn[w]], type)
    BY <1>p DEF Publish
  <2>2. Emits(w, wturn[w], type)
    BY <1>p, <2>1 DEF Emits
  <2>3. QED BY <1>p, <2>2 DEF Publish
<1>1. CASE Take(w)
  <2>1. PICK t \in Turns : /\ copies[t] > 0
                           /\ copies' = [copies EXCEPT ![t] = @ - 1]
                           /\ wturn' = [wturn EXCEPT ![w] = t]
    BY <1>1 DEF Take
  <2>2. TakesTurn(w, t)
    BY <1>1, <2>1 DEF Take, TakesTurn
  <2>3. QED BY <1>1, <2>1, <2>2 DEF Take
<1>2. CASE SetUp(w)
  BY <1>2 DEF SetUp
<1>3. CASE TurnTouch(w)
  BY <1>3 DEF TurnTouch, Touch
<1>4. CASE NodeDone(w)
  BY <1>4, <1>p DEF NodeDone, EventTypes, Terminal
<1>5. CASE AskClarification(w)
  BY <1>5 DEF AskClarification, SetStatus
<1>6. CASE AddSource(w)
  BY <1>6 DEF AddSource
<1>7. CASE PublishSource(w)
  BY <1>7, <1>p DEF PublishSource, EventTypes, Terminal
<1>8. CASE SetRunning(w)
  BY <1>8 DEF SetRunning, SetStatus
<1>9. CASE PublishRunning(w)
  BY <1>9, <1>p DEF PublishRunning, EventTypes, Terminal
<1>10. CASE WriteReport(w)
  BY <1>10 DEF WriteReport, SetReport, SetStatus
<1>11. CASE RecordOutcome(w)
  <2>1. /\ wpc[w] \in {"audit_clarify", "audit_done"} /\ wturn[w] \in Turns /\ wturn' = wturn
        /\ \E p \in {"publish_clarify", "publish_done"} : wpc' = [wpc EXCEPT ![w] = p]
        /\ UNCHANGED <<status, report, sources, copies, apc, seen, inbox, latest, sent>>
    BY <1>11 DEF RecordOutcome
  <2>2. \E outcome : audit' = [audit EXCEPT ![wturn[w]] = Append(@, outcome)]
    BY <1>11 DEF RecordOutcome, Record
  <2>3. WorksOn(w, wturn[w])
    BY <2>1, <2>2
  <2>4. QED BY <2>1, <2>3
<1>12. CASE PublishOutcome(w)
  BY <1>12, <1>p DEF PublishOutcome, EventTypes, Terminal
<1>13. CASE TurnRaises(w)
  BY <1>13 DEF TurnRaises, TurnFaultsAt
<1>14. CASE RecordFailureStatus(w)
  BY <1>14 DEF RecordFailureStatus, SetStatus
<1>15. CASE RecordFailureAudit(w)
  BY <1>15 DEF RecordFailureAudit, Record
<1>16. CASE PublishError(w)
  BY <1>16, <1>p DEF PublishError, EventTypes, Terminal
<1>17. CASE TearDown(w)
  BY <1>17 DEF TearDown
<1>18. CASE EscapesRunTurn(w)
  BY <1>18 DEF EscapesRunTurn
<1>19. CASE HandlerStatus(w)
  BY <1>19 DEF HandlerStatus, SetStatus
<1>20. CASE HandlerAudit(w)
  BY <1>20 DEF HandlerAudit, Record
<1>21. CASE HandlerPublish(w)
  BY <1>21, <1>p DEF HandlerPublish, EventTypes, Terminal
<1>22. CASE HandlerRaises(w)
  BY <1>22 DEF HandlerRaises
<1>23. CASE WorkerCrash(w)
  BY <1>23 DEF WorkerCrash
<1>24. QED
  BY <1>1, <1>2, <1>3, <1>4, <1>5, <1>6, <1>7, <1>8, <1>9, <1>10, <1>11, <1>12,
     <1>13, <1>14, <1>15, <1>16, <1>17, <1>18, <1>19, <1>20, <1>21, <1>22, <1>23
     DEF WorkerStep

----------------------------------------------------------------------------
(* Before its task is enqueued a turn has not begun, in all runs.          *)

RunsTurn(w, t) == wturn[w] = t

NotYetSent ==
  \A t \in Turns : apc[t] \in PreSend =>
    copies[t] = 0 /\ sent[t] = <<>> /\ \A w \in Workers : ~RunsTurn(w, t)

LEMMA NotYetSentInit == Init => NotYetSent
BY ConstantsAssumption DEF Init, NotYetSent, RunsTurn

LEMMA NotYetSentStep == Typed /\ NotYetSent /\ [Next]_vars => NotYetSent'
<1> SUFFICES ASSUME Typed, NotYetSent, [Next]_vars,
                    NEW t \in Turns, apc'[t] \in PreSend
             PROVE  copies'[t] = 0 /\ sent'[t] = <<>> /\ \A w \in Workers : ~RunsTurn(w, t)'
  BY DEF NotYetSent
<1> USE ConstantsAssumption DEF NotYetSent, RunsTurn, workVars, rowVars, busVars
<1>1. ASSUME NEW u \in Turns, RequestTouches(u)
      PROVE  copies'[t] = 0 /\ sent'[t] = <<>> /\ \A w \in Workers : ~RunsTurn(w, t)'
  <2>1. apc[t] \in PreSend /\ copies'[t] = copies[t]
    BY <1>1 DEF RequestTouches
  <2>2. QED BY <1>1, <2>1 DEF RequestTouches
<1>2. ASSUME NEW w \in Workers, WorkerTouches(w)
      PROVE  copies'[t] = 0 /\ sent'[t] = <<>> /\ \A v \in Workers : ~RunsTurn(v, t)'
  <2>1. apc[t] \in PreSend
    BY <1>2 DEF WorkerTouches
  <2>2. PICK u \in Turns : TakesTurn(w, u) \/ WorksOn(w, u)
    BY <1>2 DEF WorkerTouches
  <2>3. u # t
    BY <2>1, <2>2 DEF TakesTurn, WorksOn
  <2>4. copies'[t] = 0 /\ sent'[t] = <<>>
    BY <2>1, <2>2, <2>3 DEF TakesTurn, WorksOn, Typed, TypeOK
  <2>5. wturn'[w] # t
    BY <2>2, <2>3 DEF TakesTurn, WorksOn
  <2>6. QED BY <1>2, <2>1, <2>4, <2>5 DEF WorkerTouches
<1>3. ASSUME NEW th \in Threads, Delete(th)
      PROVE  copies'[t] = 0 /\ sent'[t] = <<>> /\ \A w \in Workers : ~RunsTurn(w, t)'
  BY <1>3 DEF Delete, apiVars
<1>4. CASE UNCHANGED vars
  BY <1>4 DEF vars
<1>5. QED
  BY <1>1, <1>2, <1>3, <1>4, RequestFootprint, WorkerFootprint DEF Next

LEMMA AppendFacts ==
  ASSUME NEW S, NEW s \in Seq(S), NEW e \in S
  PROVE  /\ Len(Append(s, e)) = Len(s) + 1
         /\ Append(s, e)[Len(s) + 1] = e
         /\ \A i \in 1..Len(s) : Append(s, e)[i] = s[i]
OBVIOUS

----------------------------------------------------------------------------
(* What a stream relays, whatever fails and however turns overlap.         *)

Relaying == PreSend \cup {"relay"}

\* No terminal event was relayed to a stream that may still relay.
OpenStreamSawNoEnd ==
  \A s \in Streams : apc[s] \in Relaying =>
    \A i \in 1..Len(seen[s]) : seen[s][i].type \notin Terminal

\* The request of stream t yields nothing, the next event, or its own error.
Relays(t) ==
  \/ seen'[t] = seen[t] /\ (apc'[t] \in Relaying => apc[t] \in Relaying)
  \/ /\ apc[t] = "relay" /\ inbox[t] # <<>>
     /\ seen'[t] = Append(seen[t], Head(inbox[t])) /\ inbox'[t] = Tail(inbox[t])
     /\ apc'[t] = IF Head(inbox[t]).type \in Terminal THEN "unsubscribe" ELSE "relay"
  \/ apc'[t] = "over" /\ seen'[t] = Append(seen[t], [turn |-> t, type |-> "api_error"])

LEMMA StreamRelays ==
  ASSUME Typed, NEW t \in Streams, Begin(t) \/ RequestStep(t) \/ Abandon(t)
  PROVE  Relays(t)
<1> USE ConstantsAssumption
<1> USE DEF Typed, TypeOK, Relays, Relaying, PreSend, apiVars, Goto, At
<1>e. ASSUME EndFailed(t) PROVE Relays(t)
  BY <1>e DEF EndFailed, Yield
<1>1. CASE Begin(t)
  BY <1>1 DEF Begin
<1>2. CASE Subscribe(t) \/ EnqueueTouch(t) \/ EnqueueStatus(t)
  BY <1>2 DEF Subscribe, EnqueueTouch, EnqueueStatus
<1>3. CASE Send(t) \/ SendRaises(t)
  BY <1>3 DEF Send, SendRaises
<1>4. CASE Relay(t)
  BY <1>4 DEF Relay, Yield
<1>5. CASE Unsubscribe(t) \/ RequestRaises(t) \/ Abandon(t)
  BY <1>5 DEF Unsubscribe, RequestRaises, Abandon
<1>6. CASE MarkFailedRead(t) \/ MarkFailedWrite(t) \/ MarkFailedRaises(t)
  BY <1>6, <1>e DEF MarkFailedRead, MarkFailedWrite, MarkFailedRaises
<1>7. QED
  BY <1>1, <1>2, <1>3, <1>4, <1>5, <1>6 DEF RequestStep

LEMMA NothingAfterStep ==
  Typed /\ NothingRelayedAfterTerminal /\ OpenStreamSawNoEnd /\ [Next]_vars
    => NothingRelayedAfterTerminal' /\ OpenStreamSawNoEnd'
<1> SUFFICES ASSUME Typed, NothingRelayedAfterTerminal, OpenStreamSawNoEnd, [Next]_vars
             PROVE  NothingRelayedAfterTerminal' /\ OpenStreamSawNoEnd'
  OBVIOUS
<1> DEFINE Quiet(s) == \A i, j \in 1..Len(seen[s]) :
                         i < j /\ seen[s][i].type \in Terminal => seen[s][j].type = "api_error"
           NoEnd(s) == apc[s] \in Relaying =>
                         \A i \in 1..Len(seen[s]) : seen[s][i].type \notin Terminal
<1>1. SUFFICES ASSUME NEW s \in Streams PROVE Quiet(s)' /\ NoEnd(s)'
  BY DEF NothingRelayedAfterTerminal, OpenStreamSawNoEnd
<1>2. Quiet(s) /\ NoEnd(s) /\ seen[s] \in Seq(Events)
  BY DEF NothingRelayedAfterTerminal, OpenStreamSawNoEnd, Typed, TypeOK
<1>3. CASE apc'[s] = apc[s] /\ seen'[s] = seen[s]
  BY <1>2, <1>3
<1>4. CASE Begin(s) \/ RequestStep(s) \/ Abandon(s)
  <2>1. Relays(s)
    BY <1>4, StreamRelays
  <2>2. CASE seen'[s] = seen[s] /\ (apc'[s] \in Relaying => apc[s] \in Relaying)
    BY <1>2, <2>2
  <2>3. CASE /\ apc[s] = "relay" /\ inbox[s] # <<>>
             /\ seen'[s] = Append(seen[s], Head(inbox[s]))
             /\ apc'[s] = IF Head(inbox[s]).type \in Terminal THEN "unsubscribe" ELSE "relay"
    <3>1. Head(inbox[s]) \in Events
      BY <2>3 DEF Typed, TypeOK
    <3>2. \A i \in 1..Len(seen[s]) : seen[s][i].type \notin Terminal
      BY <1>2, <2>3 DEF Relaying
    <3>3. /\ Len(seen'[s]) = Len(seen[s]) + 1
          /\ seen'[s][Len(seen[s]) + 1] = Head(inbox[s])
          /\ \A i \in 1..Len(seen[s]) : seen'[s][i] = seen[s][i]
      BY <1>2, <2>3, <3>1, AppendFacts
    <3>4. Quiet(s)'
      BY <1>2, <3>2, <3>3
    <3>5. NoEnd(s)'
      <4>1. apc'[s] \in Relaying => Head(inbox[s]).type \notin Terminal
        BY <2>3 DEF Relaying, PreSend
      <4>2. QED BY <1>2, <3>2, <3>3, <4>1
    <3>6. QED BY <3>4, <3>5
  <2>4. CASE apc'[s] = "over" /\ seen'[s] = Append(seen[s], [turn |-> s, type |-> "api_error"])
    <3>1. [turn |-> s, type |-> "api_error"] \in Events
      BY ConstantsAssumption DEF Events, EventTypes, Terminal
    <3>2. /\ Len(seen'[s]) = Len(seen[s]) + 1
          /\ seen'[s][Len(seen[s]) + 1].type = "api_error"
          /\ \A i \in 1..Len(seen[s]) : seen'[s][i] = seen[s][i]
      BY <1>2, <2>4, <3>1, AppendFacts
    <3>3. Quiet(s)'
      <4>1. SUFFICES ASSUME NEW i \in 1..Len(seen'[s]), NEW j \in 1..Len(seen'[s]),
                            i < j, seen'[s][i].type \in Terminal
                     PROVE  seen'[s][j].type = "api_error"
        OBVIOUS
      <4>2. Len(seen[s]) \in Nat
        BY <1>2
      <4>3. CASE j = Len(seen[s]) + 1
        BY <3>2, <4>3
      <4>4. CASE j \in 1..Len(seen[s])
        <5>1. i \in 1..Len(seen[s])
          BY <4>1, <4>2, <4>4
        <5>2. QED BY <1>2, <3>2, <4>1, <4>4, <5>1
      <4>5. QED BY <3>2, <4>2, <4>3, <4>4
    <3>4. NoEnd(s)'
      <4>1. apc'[s] \notin Relaying
        BY <2>4 DEF Relaying, PreSend
      <4>2. QED BY <4>1
    <3>5. QED BY <3>3, <3>4
  <2>5. QED BY <2>1, <2>2, <2>3, <2>4 DEF Relays
<1>5. ASSUME NEW u \in Turns \ {s}, Begin(u) \/ RequestStep(u) \/ Abandon(u)
      PROVE  apc'[s] = apc[s] /\ seen'[s] = seen[s]
  BY <1>5, RequestFootprint, ConstantsAssumption DEF RequestTouches
<1>6. ASSUME NEW w \in Workers, WorkerStep(w) \/ WorkerCrash(w)
      PROVE  apc'[s] = apc[s] /\ seen'[s] = seen[s]
  BY <1>6, WorkerFootprint DEF WorkerTouches
<1>7. ASSUME NEW th \in Threads, Delete(th)
      PROVE  apc'[s] = apc[s] /\ seen'[s] = seen[s]
  BY <1>7 DEF Delete, apiVars
<1>8. CASE UNCHANGED vars
  BY <1>3, <1>8 DEF vars
<1>9. QED
  BY <1>3, <1>4, <1>5, <1>6, <1>7, <1>8, ConstantsAssumption DEF Next

\* A stream ends with its first terminal event, also when it came from
\* another turn of the thread: after it the client sees nothing but the
\* error chat_stream appends when closing the subscription raises.
THEOREM StreamEndsAtTerminal == Spec => []NothingRelayedAfterTerminal
<1> DEFINE Inv == Typed /\ NothingRelayedAfterTerminal /\ OpenStreamSawNoEnd
<1>1. Init => Inv
  BY InitTyped DEF Init, NothingRelayedAfterTerminal, OpenStreamSawNoEnd
<1>2. Inv /\ [Next]_vars => Inv'
  BY TypedStep, NothingAfterStep
<1>3. QED BY <1>1, <1>2, PTL DEF Spec

----------------------------------------------------------------------------
(* A stream that waits is served.                                          *)

\* Redis takes every event, the worker's clients are built, no process dies.
EndsAreDelivered == Faults \cap {"setup", "publish", "crash"} = {}

EndArrived(s) == \E i \in 1..Len(inbox[s]) : inbox[s][i].type \in Terminal

\* After its terminal event a worker only closes its clients, or handles
\* what closing them raised.
Closing == {"teardown", "handler_status", "handler_audit", "handler_publish"}

ClosedStreamHasEnd ==
  \A s \in Streams, w \in Workers :
    At(s, "relay") /\ wturn[w] = s /\ wpc[w] \in Closing => EndArrived(s)

\* Worker w closes only after a terminal event.
Serves(w, t) ==
  wpc'[w] \in Closing \cup {"idle"} =>
    wpc[w] \in Closing \/ \E type \in Terminal : Publish(t, type)

LEMMA WorkerServes ==
  ASSUME EndsAreDelivered, Typed, NEW w \in Workers,
         WorkerStep(w) \/ WorkerCrash(w), wpc[w] # "idle"
  PROVE  Serves(w, wturn[w])
<1> USE DEF Typed, TypeOK, Serves, Closing, EndsAreDelivered, busVars, On, Move, Stop
<1> DEFINE t == wturn[w]
<1>p. ASSUME NEW type \in EventTypes, Publish(t, type),
             wpc'[w] \in Closing \cup {"idle"} => type \in Terminal
      PROVE  Serves(w, t)
  BY <1>p
<1>q. ASSUME wpc'[w] \in Closing \cup {"idle"} => wpc[w] \in Closing
      PROVE  Serves(w, t)
  BY <1>q
<1> USE DEF EventTypes, Terminal
<1>1. CASE Take(w)
  BY <1>1 DEF Take
<1>2. CASE SetUp(w) \/ TurnTouch(w) \/ AskClarification(w) \/ AddSource(w)
  BY <1>2, <1>q DEF SetUp, TurnTouch, AskClarification, AddSource
<1>3. CASE SetRunning(w) \/ WriteReport(w) \/ RecordOutcome(w) \/ TurnRaises(w)
  BY <1>3, <1>q DEF SetRunning, WriteReport, RecordOutcome, TurnRaises
<1>4. CASE RecordFailureStatus(w) \/ RecordFailureAudit(w) \/ TearDown(w)
  BY <1>4, <1>q DEF RecordFailureStatus, RecordFailureAudit, TearDown
<1>5. CASE EscapesRunTurn(w) \/ HandlerStatus(w) \/ HandlerAudit(w)
  BY <1>5, <1>q DEF EscapesRunTurn, HandlerStatus, HandlerAudit
<1>6. CASE HandlerRaises(w) \/ WorkerCrash(w)
  BY <1>6, <1>q DEF HandlerRaises, WorkerCrash
<1>7. CASE NodeDone(w)
  BY <1>7, <1>p DEF NodeDone
<1>8. CASE PublishSource(w)
  BY <1>8, <1>p DEF PublishSource
<1>9. CASE PublishRunning(w)
  BY <1>9, <1>p DEF PublishRunning
<1>10. CASE PublishOutcome(w)
  BY <1>10, <1>p DEF PublishOutcome
<1>11. CASE PublishError(w)
  BY <1>11, <1>p DEF PublishError
<1>12. CASE HandlerPublish(w)
  BY <1>12, <1>p DEF HandlerPublish
<1>13. QED
  BY <1>1, <1>2, <1>3, <1>4, <1>5, <1>6, <1>7, <1>8, <1>9, <1>10, <1>11, <1>12
     DEF WorkerStep

\* A worker publishes events of its own turn, on one channel at a time.
LEMMA WorkerPublishes ==
  ASSUME Typed, NEW w \in Workers, WorkerStep(w) \/ WorkerCrash(w)
  PROVE  \/ UNCHANGED busVars
         \/ wpc[w] # "idle" /\ \E type \in EventTypes : Publish(wturn[w], type)
<1> USE DEF busVars, On, EventTypes, Terminal
<1>1. CASE Take(w) \/ SetUp(w) \/ TurnTouch(w) \/ AskClarification(w) \/ AddSource(w)
  BY <1>1 DEF Take, SetUp, TurnTouch, AskClarification, AddSource
<1>2. CASE SetRunning(w) \/ WriteReport(w) \/ RecordOutcome(w) \/ TurnRaises(w)
  BY <1>2 DEF SetRunning, WriteReport, RecordOutcome, TurnRaises
<1>3. CASE RecordFailureStatus(w) \/ RecordFailureAudit(w) \/ TearDown(w)
  BY <1>3 DEF RecordFailureStatus, RecordFailureAudit, TearDown
<1>4. CASE EscapesRunTurn(w) \/ HandlerStatus(w) \/ HandlerAudit(w)
  BY <1>4 DEF EscapesRunTurn, HandlerStatus, HandlerAudit
<1>5. CASE HandlerRaises(w) \/ WorkerCrash(w)
  BY <1>5 DEF HandlerRaises, WorkerCrash
<1>6. CASE NodeDone(w) \/ PublishSource(w) \/ PublishRunning(w)
  BY <1>6 DEF NodeDone, PublishSource, PublishRunning
<1>7. CASE PublishOutcome(w) \/ PublishError(w) \/ HandlerPublish(w)
  BY <1>7 DEF PublishOutcome, PublishError, HandlerPublish
<1>8. QED
  BY <1>1, <1>2, <1>3, <1>4, <1>5, <1>6, <1>7 DEF WorkerStep

\* What a subscription has received it keeps, whatever else is published.
LEMMA PublishKeepsEnd ==
  ASSUME Typed, NEW s \in Streams, NEW t \in Turns, NEW type \in EventTypes,
         Publish(t, type), EndArrived(s)
  PROVE  EndArrived(s)'
<1>1. inbox[s] \in Seq(Events) /\ [turn |-> t, type |-> type] \in Events
  BY DEF Typed, TypeOK, Events
<1>2. CASE inbox'[s] = inbox[s]
  BY <1>2 DEF EndArrived
<1>3. CASE inbox'[s] = Append(inbox[s], [turn |-> t, type |-> type])
  BY <1>1, <1>3, AppendFacts DEF EndArrived
<1>4. QED BY <1>2, <1>3 DEF Publish

\* A terminal event of its own turn reaches a stream that is relaying.
LEMMA PublishBringsEnd ==
  ASSUME Typed, NEW s \in Streams, NEW type \in Terminal, Publish(s, type), At(s, "relay")
  PROVE  EndArrived(s)'
<1>1. inbox[s] \in Seq(Events) /\ [turn |-> s, type |-> type] \in Events
  BY ConstantsAssumption DEF Typed, TypeOK, Events, EventTypes
<1>2. inbox'[s] = Append(inbox[s], [turn |-> s, type |-> type])
  BY DEF Publish, Subscribed, At
<1>3. /\ Len(inbox'[s]) = Len(inbox[s]) + 1
      /\ inbox'[s][Len(inbox[s]) + 1].type = type
  BY <1>1, <1>2, AppendFacts
<1>4. Len(inbox[s]) + 1 \in 1..Len(inbox'[s])
  BY <1>1, <1>3
<1>5. QED BY <1>3, <1>4 DEF EndArrived

Served(s) ==
  copies[s] > 0 \/ (\E w \in Workers : wturn[w] = s) \/ EndArrived(s)

\* What a request does to a stream that is relaying after the step.
LEMMA StillRelaying ==
  ASSUME Typed, NEW s \in Streams, Begin(s) \/ RequestStep(s) \/ Abandon(s), apc'[s] = "relay"
  PROVE  /\ UNCHANGED workVars
         /\ \/ apc[s] = "send" /\ copies'[s] > 0
            \/ /\ apc[s] = "relay" /\ copies'[s] = copies[s]
               /\ EndArrived(s) => EndArrived(s)'
<1> USE ConstantsAssumption
<1> USE DEF Typed, TypeOK, apiVars, rowVars, busVars, workVars, Goto, At
<1>1. CASE Send(s)
  BY <1>1 DEF Send, Deliveries
<1>2. CASE Relay(s)
  <2>1. /\ inbox[s] \in Seq(Events) /\ inbox[s] # <<>> /\ inbox'[s] = Tail(inbox[s])
        /\ Head(inbox[s]).type \notin Terminal
    BY <1>2 DEF Relay
  <2>2. ASSUME EndArrived(s) PROVE EndArrived(s)'
    <3>1. PICK i \in 1..Len(inbox[s]) : inbox[s][i].type \in Terminal
      BY <2>2 DEF EndArrived
    <3>2. i # 1
      BY <2>1, <3>1
    <3>3. i - 1 \in 1..Len(inbox'[s]) /\ inbox'[s][i - 1] = inbox[s][i]
      BY <2>1, <3>1, <3>2
    <3>4. QED BY <3>1, <3>3 DEF EndArrived
  <2>3. QED BY <1>2, <2>2 DEF Relay
<1>3. CASE Begin(s)
  BY <1>3 DEF Begin
<1>4. CASE Subscribe(s) \/ EnqueueTouch(s) \/ EnqueueStatus(s)
  BY <1>4 DEF Subscribe, EnqueueTouch, EnqueueStatus
<1>5. CASE SendRaises(s) \/ Unsubscribe(s) \/ RequestRaises(s) \/ Abandon(s)
  BY <1>5 DEF SendRaises, Unsubscribe, RequestRaises, Abandon
<1>6. CASE MarkFailedRead(s) \/ MarkFailedWrite(s) \/ MarkFailedRaises(s)
  BY <1>6 DEF MarkFailedRead, MarkFailedWrite, MarkFailedRaises, EndFailed
<1>7. QED
  BY <1>1, <1>2, <1>3, <1>4, <1>5, <1>6 DEF RequestStep

LEMMA ServedStep ==
  /\ EndsAreDelivered /\ Typed /\ NotYetSent
  /\ WaitingStreamIsServed /\ ClosedStreamHasEnd /\ [Next]_vars
  => WaitingStreamIsServed' /\ ClosedStreamHasEnd'
<1> SUFFICES ASSUME EndsAreDelivered, Typed, NotYetSent, WaitingStreamIsServed,
                    ClosedStreamHasEnd, [Next]_vars
             PROVE  WaitingStreamIsServed' /\ ClosedStreamHasEnd'
  OBVIOUS
<1> USE ConstantsAssumption
<1> DEFINE Ends(s) == \A w \in Workers : wturn[w] = s /\ wpc[w] \in Closing => EndArrived(s)
<1>1. SUFFICES ASSUME NEW s \in Streams, apc'[s] = "relay"
               PROVE  Served(s)' /\ Ends(s)'
  BY DEF WaitingStreamIsServed, ClosedStreamHasEnd, Served, EndArrived, At
<1>2. apc[s] = "relay" => Served(s) /\ Ends(s)
  BY DEF WaitingStreamIsServed, ClosedStreamHasEnd, Served, EndArrived, At
<1>3. CASE Begin(s) \/ RequestStep(s) \/ Abandon(s)
  <2>1. /\ UNCHANGED workVars
        /\ \/ apc[s] = "send" /\ copies'[s] > 0
           \/ apc[s] = "relay" /\ copies'[s] = copies[s] /\ (EndArrived(s) => EndArrived(s)')
    BY <1>1, <1>3, StillRelaying
  <2>2. CASE apc[s] = "send" /\ copies'[s] > 0
    BY <2>1, <2>2 DEF NotYetSent, PreSend, RunsTurn, Served, workVars
  <2>3. CASE apc[s] = "relay" /\ copies'[s] = copies[s] /\ (EndArrived(s) => EndArrived(s)')
    BY <1>2, <2>1, <2>3 DEF Served, workVars
  <2>4. QED BY <2>1, <2>2, <2>3
<1>4. ASSUME NEW u \in Turns \ {s}, Begin(u) \/ RequestStep(u) \/ Abandon(u)
      PROVE  Served(s)' /\ Ends(s)'
  <2>1. /\ apc'[s] = apc[s] /\ copies'[s] = copies[s] /\ inbox'[s] = inbox[s]
        /\ UNCHANGED workVars
    BY <1>4, RequestFootprint DEF RequestTouches
  <2>2. QED BY <1>1, <1>2, <2>1 DEF Served, EndArrived, workVars
<1>5. ASSUME NEW w \in Workers, WorkerStep(w) \/ WorkerCrash(w)
      PROVE  Served(s)' /\ Ends(s)'
  <2>1. /\ apc'[s] = apc[s]
        /\ \A v \in Workers \ {w} : wpc'[v] = wpc[v] /\ wturn'[v] = wturn[v]
    BY <1>5, WorkerFootprint DEF WorkerTouches
  <2>2. PICK u \in Turns : TakesTurn(w, u) \/ WorksOn(w, u)
    BY <1>5, WorkerFootprint DEF WorkerTouches
  <2>3. CASE TakesTurn(w, u)
    <3>1. copies'[s] > 0 \/ wturn'[w] = s \/ copies'[s] = copies[s]
      BY <2>3 DEF TakesTurn, Typed, TypeOK
    <3>2. inbox'[s] = inbox[s]
      BY <2>3 DEF TakesTurn, busVars
    <3>3. \A v \in Workers : wturn[v] = s => wturn'[v] = s
      BY <2>1, <2>3 DEF TakesTurn
    <3>4. Served(s)'
      BY <1>1, <1>2, <2>1, <3>1, <3>2, <3>3 DEF Served, EndArrived
    <3>5. Ends(s)'
      BY <1>1, <1>2, <2>1, <2>3, <3>2 DEF TakesTurn, EndArrived, Closing
    <3>6. QED BY <3>4, <3>5
  <2>4. CASE WorksOn(w, u)
    <3>1. wturn[w] = u /\ wpc[w] # "idle" /\ copies'[s] = copies[s]
      BY <2>4 DEF WorksOn
    <3>2. Serves(w, u)
      BY <1>5, <3>1, WorkerServes
    <3>3. EndArrived(s) => EndArrived(s)'
      BY <1>5, <3>1, WorkerPublishes, PublishKeepsEnd DEF EndArrived, busVars
    <3>4. wturn'[w] = u \/ (wturn'[w] = NoTurn /\ wpc'[w] = "idle")
      BY <2>4 DEF WorksOn
    <3>5. u = s /\ wpc'[w] \in Closing \cup {"idle"} => EndArrived(s)'
      BY <1>1, <1>2, <2>1, <3>1, <3>2, <3>3, PublishBringsEnd DEF Serves, At
    <3>6. Ends(s)'
      BY <1>1, <1>2, <2>1, <3>3, <3>4, <3>5
    <3>7. Served(s)'
      <4>1. CASE u = s /\ wturn'[w] = NoTurn
        BY <3>4, <3>5, <4>1 DEF Served
      <4>2. CASE u # s \/ wturn'[w] = u
        <5>1. \A v \in Workers : wturn[v] = s => wturn'[v] = s
          BY <2>1, <3>1, <3>4, <4>2
        <5>2. QED BY <1>1, <1>2, <2>1, <3>1, <3>3, <5>1 DEF Served
      <4>3. QED BY <3>4, <4>1, <4>2
    <3>8. QED BY <3>6, <3>7
  <2>5. QED BY <2>2, <2>3, <2>4
<1>6. ASSUME NEW th \in Threads, Delete(th)
      PROVE  Served(s)' /\ Ends(s)'
  BY <1>1, <1>2, <1>6 DEF Delete, Served, EndArrived, apiVars, busVars, workVars
<1>7. CASE UNCHANGED vars
  BY <1>1, <1>2, <1>7 DEF vars, Served, EndArrived
<1>8. QED
  BY <1>3, <1>4, <1>5, <1>6, <1>7 DEF Next

\* A stream that waits for the end of its turn has its task on the queue,
\* a worker on it, or a terminal event on the way: as long as Redis takes
\* the events, the worker's clients are built and no process dies, every
\* path out of _execute publishes one.
THEOREM NoStreamWaitsForNothing == EndsAreDelivered => (Spec => []WaitingStreamIsServed)
<1> SUFFICES ASSUME EndsAreDelivered PROVE Spec => []WaitingStreamIsServed
  OBVIOUS
<1> DEFINE Inv == Typed /\ NotYetSent /\ WaitingStreamIsServed /\ ClosedStreamHasEnd
<1>1. Init => Inv
  BY InitTyped, NotYetSentInit, ConstantsAssumption
     DEF Init, WaitingStreamIsServed, ClosedStreamHasEnd, At
<1>2. Inv /\ [Next]_vars => Inv'
  BY TypedStep, NotYetSentStep, ServedStep
<1>3. QED BY <1>1, <1>2, PTL DEF Spec

----------------------------------------------------------------------------
(* Nothing is lost between the subscription and the client.                *)

\* Counting a turn's own events, as the sequence grows.
LEMMA OwnCountPrefix ==
  ASSUME NEW events, NEW longer, NEW t, NEW i \in Nat,
         \A j \in 1..i : longer[j] = events[j]
  PROVE  OwnCount(longer, t, i) = OwnCount(events, t, i)
<1>1. {j \in 1..i : longer[j].turn = t} = {j \in 1..i : events[j].turn = t}
  OBVIOUS
<1>2. QED BY <1>1 DEF OwnCount

LEMMA OwnCountType ==
  ASSUME NEW events, NEW t, NEW i \in Nat
  PROVE  IsFiniteSet({j \in 1..i : events[j].turn = t}) /\ OwnCount(events, t, i) \in Nat
<1>1. IsFiniteSet(1..i)
  BY FS_Interval
<1>2. {j \in 1..i : events[j].turn = t} \in SUBSET (1..i)
  OBVIOUS
<1>3. IsFiniteSet({j \in 1..i : events[j].turn = t})
  BY <1>1, <1>2, FS_Subset
<1>4. QED BY <1>3, FS_CardinalityType DEF OwnCount

LEMMA OwnCountNext ==
  ASSUME NEW events, NEW t, NEW i \in Nat \ {0}
  PROVE  OwnCount(events, t, i) = IF events[i].turn = t THEN OwnCount(events, t, i - 1) + 1
                                  ELSE OwnCount(events, t, i - 1)
<1> DEFINE Own(n) == {j \in 1..n : events[j].turn = t}
<1>1. IsFiniteSet(Own(i - 1))
  <2>1. i - 1 \in Nat
    OBVIOUS
  <2>2. QED BY <2>1, OwnCountType
<1>2. CASE events[i].turn = t
  <2>1. Own(i) = Own(i - 1) \cup {i} /\ i \notin Own(i - 1)
    BY <1>2
  <2>2. Cardinality(Own(i)) = Cardinality(Own(i - 1)) + 1
    BY <1>1, <2>1, FS_AddElement
  <2>3. QED BY <1>2, <2>2 DEF OwnCount
<1>3. CASE events[i].turn # t
  <2>1. Own(i) = Own(i - 1)
    BY <1>3
  <2>2. QED BY <1>3, <2>1 DEF OwnCount
<1>4. QED BY <1>2, <1>3

LEMMA OwnCountZero ==
  ASSUME NEW events, NEW t
  PROVE  OwnCount(events, t, 0) = 0
<1>1. {j \in 1..0 : events[j].turn = t} = {}
  OBVIOUS
<1>2. QED BY <1>1, FS_EmptySet DEF OwnCount

\* What stream s received and what its turn published agree.
Complete(s, received, published) ==
  /\ OwnCount(received, s, Len(received)) = Len(published)
  /\ \A i \in 1..Len(received) : received[i].turn = s =>
       received[i].type = published[OwnCount(received, s, i)]

LEMMA CompleteByDefinition ==
  RelayIsComplete <=>
    \A s \in Streams : Subscribed(s) => Complete(s, seen[s] \o inbox[s], sent[s])
BY DEF RelayIsComplete, Complete

\* They go on agreeing when both get a turn's own event, or the stream
\* alone one of another turn.
LEMMA CompleteAppend ==
  ASSUME NEW received \in Seq(Events), NEW published \in Seq(EventTypes), NEW s,
         NEW e \in Events, Complete(s, received, published)
  PROVE  Complete(s, Append(received, e), IF e.turn = s THEN Append(published, e.type) ELSE published)
<1> DEFINE more == Append(received, e)
           n == Len(received)
<1>1. /\ n \in Nat /\ Len(more) = n + 1 /\ more[n + 1] = e
      /\ \A j \in 1..n : more[j] = received[j]
      /\ Len(published) \in Nat /\ e.type \in EventTypes
  BY AppendFacts DEF Events
<1>2. ASSUME NEW i \in 0..n PROVE OwnCount(more, s, i) = OwnCount(received, s, i)
  <2>1. i \in Nat /\ \A j \in 1..i : more[j] = received[j]
    BY <1>1
  <2>2. QED BY ZenonT(30), <2>1, OwnCountPrefix
<1>3. OwnCount(more, s, n + 1) = IF e.turn = s THEN Len(published) + 1 ELSE Len(published)
  <2>1. OwnCount(more, s, n) = Len(published)
    BY <1>1, <1>2 DEF Complete
  <2>2. n + 1 \in Nat \ {0} /\ (n + 1) - 1 = n
    BY <1>1
  <2>3. OwnCount(more, s, n + 1) = IF more[n + 1].turn = s THEN OwnCount(more, s, (n + 1) - 1) + 1
                                   ELSE OwnCount(more, s, (n + 1) - 1)
    BY <2>2, OwnCountNext
  <2>4. QED BY <1>1, <2>1, <2>2, <2>3
<1>4. ASSUME NEW i \in 1..n, more[i].turn = s
      PROVE  /\ more[i].type = published[OwnCount(more, s, i)]
             /\ OwnCount(more, s, i) \in 1..Len(published)
  <2>1. received[i] = more[i] /\ OwnCount(more, s, i) = OwnCount(received, s, i)
    BY <1>1, <1>2
  <2>2. OwnCount(received, s, i) \in 1..Len(published)
    <3>0. i \in Nat \ {0} /\ i - 1 \in Nat /\ received[i].turn = s
      BY <1>1, <1>4, <2>1
    <3>1. OwnCount(received, s, i) = OwnCount(received, s, i - 1) + 1
      BY <3>0, OwnCountNext
    <3>2. OwnCount(received, s, i - 1) \in Nat
      BY <3>0, OwnCountType
    <3>3. OwnCount(received, s, i) <= OwnCount(received, s, n)
      <4>1. {j \in 1..i : received[j].turn = s} \in SUBSET {j \in 1..n : received[j].turn = s}
        BY <1>1
      <4>2. IsFiniteSet({j \in 1..n : received[j].turn = s})
        BY <1>1, OwnCountType
      <4>3. QED BY <4>1, <4>2, FS_Subset DEF OwnCount
    <3>4. QED BY <1>1, <3>1, <3>2, <3>3 DEF Complete
  <2>3. QED BY <1>1, <1>4, <2>1, <2>2 DEF Complete
<1>5. CASE e.turn = s
  <2>1. /\ Len(Append(published, e.type)) = Len(published) + 1
        /\ Append(published, e.type)[Len(published) + 1] = e.type
        /\ \A i \in 1..Len(published) : Append(published, e.type)[i] = published[i]
    BY <1>1, AppendFacts
  <2>2. \A i \in 1..Len(more) : more[i].turn = s =>
          more[i].type = Append(published, e.type)[OwnCount(more, s, i)]
    BY <1>1, <1>3, <1>4, <1>5, <2>1
  <2>3. QED BY <1>1, <1>3, <1>5, <2>1, <2>2 DEF Complete
<1>6. CASE e.turn # s
  BY <1>1, <1>3, <1>4, <1>6 DEF Complete
<1>7. QED BY <1>5, <1>6

\* A subscription begins empty.
FreshStream ==
  \A s \in Streams : apc[s] \in {"new", "subscribe"} => seen[s] = <<>> /\ inbox[s] = <<>>

\* What the request of stream s does to its subscription.
LEMMA SubscriptionStep ==
  ASSUME Typed, NEW s \in Streams, Begin(s) \/ RequestStep(s) \/ Abandon(s)
  PROVE  /\ apc'[s] \in {"new", "subscribe"} =>
              apc[s] = "new" /\ seen'[s] = seen[s] /\ inbox'[s] = inbox[s]
         /\ Subscribed(s)' =>
              \/ /\ Subscribed(s) \/ apc[s] = "subscribe"
                 /\ seen'[s] = seen[s] /\ inbox'[s] = inbox[s]
              \/ /\ Subscribed(s) /\ inbox[s] # <<>>
                 /\ seen'[s] = Append(seen[s], Head(inbox[s])) /\ inbox'[s] = Tail(inbox[s])
<1> USE ConstantsAssumption
<1> USE DEF Typed, TypeOK, Subscribed, apiVars, busVars, Goto, At
<1>1. CASE Begin(s)
  BY <1>1 DEF Begin
<1>2. CASE Subscribe(s) \/ EnqueueTouch(s) \/ EnqueueStatus(s) \/ Send(s)
  BY <1>2 DEF Subscribe, EnqueueTouch, EnqueueStatus, Send
<1>3. CASE SendRaises(s) \/ Unsubscribe(s) \/ RequestRaises(s) \/ Abandon(s)
  BY <1>3 DEF SendRaises, Unsubscribe, RequestRaises, Abandon
<1>4. CASE Relay(s)
  BY <1>4 DEF Relay, Yield
<1>5. CASE MarkFailedRead(s) \/ MarkFailedWrite(s) \/ MarkFailedRaises(s)
  BY <1>5 DEF MarkFailedRead, MarkFailedWrite, MarkFailedRaises, EndFailed
<1>6. QED
  BY <1>1, <1>2, <1>3, <1>4, <1>5 DEF RequestStep

LEMMA RelayedInOrder ==
  ASSUME NEW S, NEW a \in Seq(S), NEW b \in Seq(S), b # <<>>
  PROVE  Append(a, Head(b)) \o Tail(b) = a \o b
OBVIOUS

LEMMA AppendToConcat ==
  ASSUME NEW a \in Seq(Events), NEW b \in Seq(Events), NEW e \in Events
  PROVE  a \o Append(b, e) = Append(a \o b, e)
OBVIOUS

LEMMA RelayStep ==
  Typed /\ NotYetSent /\ FreshStream /\ RelayIsComplete /\ [Next]_vars
    => FreshStream' /\ RelayIsComplete'
<1> SUFFICES ASSUME Typed, NotYetSent, FreshStream, RelayIsComplete, [Next]_vars
             PROVE  FreshStream' /\ RelayIsComplete'
  OBVIOUS
<1> USE ConstantsAssumption
<1> DEFINE Fresh(s) == apc[s] \in {"new", "subscribe"} => seen[s] = <<>> /\ inbox[s] = <<>>
           Agrees(s) == Subscribed(s) => Complete(s, seen[s] \o inbox[s], sent[s])
<1>1. SUFFICES ASSUME NEW s \in Streams PROVE Fresh(s)' /\ Agrees(s)'
  BY DEF FreshStream, RelayIsComplete, Complete
<1>2. /\ Fresh(s) /\ Agrees(s)
      /\ seen[s] \in Seq(Events) /\ inbox[s] \in Seq(Events) /\ sent[s] \in Seq(EventTypes)
  BY CompleteByDefinition DEF FreshStream, Typed, TypeOK
<1>3. CASE apc'[s] = apc[s] /\ seen'[s] = seen[s] /\ inbox'[s] = inbox[s] /\ sent'[s] = sent[s]
  BY <1>2, <1>3 DEF Subscribed
<1>4. CASE Begin(s) \/ RequestStep(s) \/ Abandon(s)
  <2>1. sent'[s] = sent[s]
    BY <1>4, RequestFootprint DEF RequestTouches
  <2>2. Fresh(s)'
    BY <1>2, <1>4, SubscriptionStep
  <2>3. ASSUME Subscribed(s)' PROVE Complete(s, seen'[s] \o inbox'[s], sent'[s])
    <3>1. CASE Subscribed(s) /\ seen'[s] = seen[s] /\ inbox'[s] = inbox[s]
      BY <1>2, <2>1, <3>1
    <3>2. CASE apc[s] = "subscribe" /\ seen'[s] = seen[s] /\ inbox'[s] = inbox[s]
      <4>1. seen'[s] \o inbox'[s] = <<>> /\ sent'[s] = <<>>
        BY <1>2, <2>1, <3>2 DEF NotYetSent, PreSend
      <4>2. QED BY <4>1, OwnCountZero DEF Complete
    <3>3. CASE /\ Subscribed(s) /\ inbox[s] # <<>>
               /\ seen'[s] = Append(seen[s], Head(inbox[s])) /\ inbox'[s] = Tail(inbox[s])
      <4>1. seen'[s] \o inbox'[s] = seen[s] \o inbox[s]
        <5>1. seen[s] \in Seq(Events) /\ inbox[s] \in Seq(Events)
          BY DEF Typed, TypeOK
        <5>2. Append(seen[s], Head(inbox[s])) \o Tail(inbox[s]) = seen[s] \o inbox[s]
          BY Zenon, <3>3, <5>1, RelayedInOrder
        <5>3. QED BY Zenon, <3>3, <5>2
      <4>2. QED BY <1>2, <2>1, <3>3, <4>1
    <3>4. QED BY <1>4, <2>3, <3>1, <3>2, <3>3, SubscriptionStep
  <2>4. QED BY <2>2, <2>3
<1>5. ASSUME NEW u \in Turns \ {s}, Begin(u) \/ RequestStep(u) \/ Abandon(u)
      PROVE  Fresh(s)' /\ Agrees(s)'
  BY <1>3, <1>5, RequestFootprint DEF RequestTouches
<1>6. ASSUME NEW w \in Workers, WorkerStep(w) \/ WorkerCrash(w)
      PROVE  Fresh(s)' /\ Agrees(s)'
  <2>1. apc'[s] = apc[s] /\ seen'[s] = seen[s]
    BY <1>6, WorkerFootprint DEF WorkerTouches
  <2>2. CASE UNCHANGED busVars
    BY <1>3, <2>1, <2>2 DEF busVars
  <2>3. ASSUME wpc[w] # "idle", NEW type \in EventTypes, Publish(wturn[w], type)
        PROVE  Fresh(s)' /\ Agrees(s)'
    <3> DEFINE t == wturn[w]
               e == [turn |-> t, type |-> type]
    <3>1. t \in Turns /\ e \in Events
      BY <2>3 DEF Typed, BusyWorkerHasTurn, Events
    <3>2. CASE Subscribed(s) /\ ThreadOf[s] = ThreadOf[t]
      <4>1. inbox'[s] = Append(inbox[s], e)
        BY <2>3, <3>2 DEF Publish
      <4>2. sent'[s] = IF e.turn = s THEN Append(sent[s], e.type) ELSE sent[s]
        BY <2>3, <3>1 DEF Publish, Typed, TypeOK
      <4>3. seen'[s] \o inbox'[s] = Append(seen[s] \o inbox[s], e)
        <5>1. seen[s] \o Append(inbox[s], e) = Append(seen[s] \o inbox[s], e)
          <6>1. \A x \in Events : seen[s] \o Append(inbox[s], x) = Append(seen[s] \o inbox[s], x)
            BY <1>2, AppendToConcat
          <6> HIDE DEF e
          <6>2. QED BY <3>1, <6>1
        <5>2. QED BY <2>1, <4>1, <5>1
      <4>4. seen[s] \o inbox[s] \in Seq(Events)
        BY <1>2
      <4>5. Complete(s, Append(seen[s] \o inbox[s], e),
                     IF e.turn = s THEN Append(sent[s], e.type) ELSE sent[s])
        BY <1>2, <3>1, <3>2, <4>4, CompleteAppend
      <4>6. Agrees(s)'
        BY <4>2, <4>3, <4>5
      <4>7. Fresh(s)'
        BY <2>1, <3>2 DEF Subscribed
      <4>8. QED BY <4>6, <4>7
    <3>3. CASE Subscribed(s) /\ ThreadOf[s] # ThreadOf[t]
      <4>1. inbox'[s] = inbox[s] /\ sent'[s] = sent[s]
        BY <2>3, <3>1, <3>3 DEF Publish, Typed, TypeOK
      <4>2. QED BY <1>3, <2>1, <4>1
    <3>4. CASE ~Subscribed(s)
      <4>1. inbox'[s] = inbox[s] /\ ~Subscribed(s)'
        BY <2>1, <2>3, <3>4 DEF Publish, Subscribed
      <4>2. QED BY <1>2, <2>1, <4>1
    <3>5. QED BY <3>2, <3>3, <3>4
  <2>4. QED BY <1>6, <2>2, <2>3, WorkerPublishes
<1>7. ASSUME NEW th \in Threads, Delete(th)
      PROVE  Fresh(s)' /\ Agrees(s)'
  BY <1>3, <1>7 DEF Delete, apiVars, busVars
<1>8. CASE UNCHANGED vars
  BY <1>3, <1>8 DEF vars
<1>9. QED
  BY <1>4, <1>5, <1>6, <1>7, <1>8 DEF Next

\* A stream has every event of its turn, in the order of publication and
\* between it and its client, from the moment it is subscribed: the task
\* is enqueued only after the subscription is open, whatever fails.
THEOREM NothingIsLostOnTheWay == Spec => []RelayIsComplete
<1> DEFINE Inv == Typed /\ NotYetSent /\ FreshStream /\ RelayIsComplete
<1>1. Init => Inv
  BY InitTyped, NotYetSentInit, ConstantsAssumption
     DEF Init, FreshStream, RelayIsComplete, Subscribed
<1>2. Inv /\ [Next]_vars => Inv'
  BY TypedStep, NotYetSentStep, RelayStep
<1>3. QED BY <1>1, <1>2, PTL DEF Spec
=============================================================================
