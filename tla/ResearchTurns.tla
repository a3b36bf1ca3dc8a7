--------------------------- MODULE ResearchTurns ---------------------------
(***************************************************************************)
(* One chat turn of the market-research agent, from the HTTP request to    *)
(* the settled session: the API process that subscribes, enqueues and      *)
(* relays (ChatQueueService), the broker that carries the Celery task, the *)
(* worker that drives the graph and records its outcome (ChatService,      *)
(* run_turn, _execute), the Redis channel of each thread, the rows of      *)
(* `sessions` and `audit_log`, and the sidebar's delete.                   *)
(*                                                                         *)
(* Every await of the code is a point where the others may run, so each    *)
(* step between two awaits is an action.  What the environment may do      *)
(* wrong is a constant, Faults: each run names the failures it allows.     *)
(*                                                                         *)
(* Data abstracted away: titles, questions, summaries and report texts (a  *)
(* report is named by the turn that wrote it), timestamps, the `error`     *)
(* column, pinning.  What the graph computes is a choice: it asks a        *)
(* question, it writes a report, or it raises.                             *)
(***************************************************************************)
EXTENDS Naturals, Sequences, FiniteSets

CONSTANTS
  Threads,      \* research threads: thread_id, the key of a session row
  Turns,        \* chat requests; each is made at most once
  Workers,      \* Celery worker processes
  ThreadOf,     \* the thread each turn belongs to
  Streams,      \* the turns made with /chat/stream; the others use /chat
  Overlapping,  \* may a turn begin while another of its thread is running?
  Faults,       \* what may fail, see FaultNames
  MaxSources,   \* bound on the `source` events of one turn
  NoTurn        \* "no report yet"

(***************************************************************************)
(* db         a statement on Postgres raises                               *)
(* publish    redis.publish raises                                         *)
(* subscribe  a call on the subscription's connection raises               *)
(* broker     run_turn_task.delay raises, the task is not enqueued         *)
(* ambiguous  run_turn_task.delay raises although the task was enqueued    *)
(* duplicate  the broker delivers a task twice (Redis visibility timeout)  *)
(* setup      building the worker's client, checkpointer or graph raises   *)
(* teardown   closing them raises                                          *)
(* graph      a graph node raises                                          *)
(* crash      a process dies; a task taken by a worker is acknowledged     *)
(* disconnect a streaming client goes away and its request is cancelled    *)
(***************************************************************************)
FaultNames == {"db", "publish", "subscribe", "broker", "ambiguous",
               "duplicate", "setup", "teardown", "graph", "crash",
               "disconnect"}

ASSUME ConstantsAssumption ==
  /\ ThreadOf \in [Turns -> Threads]
  /\ Streams \subseteq Turns
  /\ Overlapping \in BOOLEAN
  /\ Faults \subseteq FaultNames
  /\ MaxSources \in Nat
  /\ NoTurn \notin Turns

VARIABLES
  status,   \* sessions.status of each thread, "absent" when there is no row
  report,   \* sessions.report, as the turn whose report it is
  sources,  \* sessions.sources, as the turns that contributed one
  audit,    \* the outcomes audit_log holds for each turn, oldest first
  copies,   \* how many deliveries of each turn's task the broker holds
  wturn,    \* the turn each worker executes
  wpc,      \* where in _execute each worker is
  apc,      \* where in chat / chat_stream the request of each turn is
  inbox,    \* events received by a stream's subscription, not yet relayed
  seen,     \* events a stream has yielded to its client
  sent,     \* types of the events a turn's worker has published
  latest    \* history: the turn of each thread that began last

rowVars  == <<status, report, sources, audit>>
apiVars  == <<apc, seen, latest>>
busVars  == <<inbox, sent>>
workVars == <<wturn, wpc>>
vars == <<status, report, sources, audit, copies, wturn, wpc, apc, inbox,
          seen, sent, latest>>

----------------------------------------------------------------------------
(* Statuses, events and program points.                                    *)

Statuses == {"queued", "clarifying", "running", "done", "failed"}
InFlight == {"queued", "running"}
Settled  == {"done", "clarifying", "failed"}

Outcomes   == {"clarify", "done", "failed"}
Terminal   == {"clarify", "done", "error", "api_error"}
EventTypes == {"progress", "source"} \cup Terminal
Events     == [turn : Turns, type : EventTypes]

ApiPc == {"new", "subscribe", "touch", "queue", "send", "relay",
          "unsubscribe", "raised", "fail", "over"}

WorkerPc == {"idle", "setup", "touch", "clarify", "brief", "supervisor",
             "publish_source", "publish_running", "writer",
             "audit_clarify", "publish_clarify", "audit_done",
             "publish_done", "record_status", "record_audit",
             "publish_error", "teardown", "handler_status",
             "handler_audit", "handler_publish"}

Exists(th) == status[th] # "absent"
Row(t)     == status[ThreadOf[t]]

\* The turn's subscription is open: inside `async with open_subscription`.
Subscribed(t) ==
  t \in Streams /\ apc[t] \in {"touch", "queue", "send", "relay", "unsubscribe"}

\* No process and no queued task will act for turn t any more.
Over(t) ==
  apc[t] = "over" /\ copies[t] = 0 /\ \A w \in Workers : wturn[w] # t

MayBegin(t) ==
  Overlapping \/ \A u \in Turns \ {t} :
                    ThreadOf[u] = ThreadOf[t] => apc[u] = "new" \/ Over(u)

TypeOK ==
  /\ status \in [Threads -> Statuses \cup {"absent"}]
  /\ report \in [Threads -> Turns \cup {NoTurn}]
  /\ sources \in [Threads -> SUBSET Turns]
  /\ audit \in [Turns -> Seq(Outcomes)]
  /\ copies \in [Turns -> 0..2]
  /\ wturn \in [Workers -> Turns \cup {NoTurn}]
  /\ wpc \in [Workers -> WorkerPc]
  /\ apc \in [Turns -> ApiPc]
  /\ inbox \in [Streams -> Seq(Events)]
  /\ seen \in [Streams -> Seq(Events)]
  /\ sent \in [Turns -> Seq(EventTypes)]
  /\ latest \in [Threads -> Turns \cup {NoTurn}]

Init ==
  /\ status = [th \in Threads |-> "absent"]
  /\ report = [th \in Threads |-> NoTurn]
  /\ sources = [th \in Threads |-> {}]
  /\ audit = [t \in Turns |-> <<>>]
  /\ copies = [t \in Turns |-> 0]
  /\ wturn = [w \in Workers |-> NoTurn]
  /\ wpc = [w \in Workers |-> "idle"]
  /\ apc = [t \in Turns |-> "new"]
  /\ inbox = [t \in Streams |-> <<>>]
  /\ seen = [t \in Streams |-> <<>>]
  /\ sent = [t \in Turns |-> <<>>]
  /\ latest = [th \in Threads |-> NoTurn]

----------------------------------------------------------------------------
(* The tables.                                                             *)

\* SessionStore.touch: a new row is "queued" (the column's default).
Touch(th) ==
  status' = [status EXCEPT ![th] = IF @ = "absent" THEN "queued" ELSE @]

\* SessionStore.set_status: an UPDATE, so it does nothing without a row.
SetStatus(th, s) ==
  status' = [status EXCEPT ![th] = IF @ = "absent" THEN @ ELSE s]

\* SessionStore.set_status(th, "done", report=...) by turn t.
SetReport(t) ==
  /\ SetStatus(ThreadOf[t], "done")
  /\ report' = [report EXCEPT ![ThreadOf[t]] =
                  IF Exists(ThreadOf[t]) THEN t ELSE @]

\* AuditLog.record; fk_audit_log_thread_id_sessions needs the session row.
CanRecord(t) == Exists(ThreadOf[t])
Record(t, outcome) == audit' = [audit EXCEPT ![t] = Append(@, outcome)]

\* Mutant: the delete forgets that a running turn is in flight.
DeleteRunning(th) ==
  /\ status[th] \notin {"queued", "absent"}
  /\ status' = [status EXCEPT ![th] = "absent"]
  /\ report' = [report EXCEPT ![th] = NoTurn]
  /\ sources' = [sources EXCEPT ![th] = {}]
  /\ audit' = [t \in Turns |-> IF ThreadOf[t] = th THEN <<>> ELSE audit[t]]
  /\ UNCHANGED <<copies, apiVars, busVars, workVars>>

\* DELETE /sessions/{th}: one statement checks the status and deletes; the
\* audit rows of the thread go with it (ON DELETE CASCADE).
Delete(th) ==
  /\ status[th] \notin InFlight \cup {"absent"}
  /\ status' = [status EXCEPT ![th] = "absent"]
  /\ report' = [report EXCEPT ![th] = NoTurn]
  /\ sources' = [sources EXCEPT ![th] = {}]
  /\ audit' = [t \in Turns |-> IF ThreadOf[t] = th THEN <<>> ELSE audit[t]]
  /\ UNCHANGED <<copies, apiVars, busVars, workVars>>

----------------------------------------------------------------------------
(* The channel of a thread: plain pub/sub, no replay.                      *)

\* publish_event: every open subscription of the thread receives the event.
Publish(t, type) ==
  /\ sent' = [sent EXCEPT ![t] = Append(@, type)]
  /\ inbox' = [s \in Streams |->
                 IF Subscribed(s) /\ ThreadOf[s] = ThreadOf[t]
                 THEN Append(inbox[s], [turn |-> t, type |-> type])
                 ELSE inbox[s]]

\* The end of open_subscription: what was not relayed is gone.
Release(t) == inbox' = [s \in Streams |-> IF s = t THEN <<>> ELSE inbox[s]]

\* `yield event` in the stream of turn t; /chat has no client to yield to.
Yield(t, event) ==
  seen' = [s \in Streams |-> IF s = t THEN Append(seen[s], event) ELSE seen[s]]

----------------------------------------------------------------------------
(* The API process: chat, chat_stream and ChatQueueService.                *)

At(t, pc)   == apc[t] = pc
Goto(t, pc) == apc' = [apc EXCEPT ![t] = pc]

Begin(t) ==
  /\ At(t, "new")
  /\ MayBegin(t)
  /\ Goto(t, IF t \in Streams THEN "subscribe" ELSE "touch")
  /\ latest' = [latest EXCEPT ![ThreadOf[t]] = t]
  /\ UNCHANGED <<rowVars, copies, workVars, busVars, seen>>

Subscribe(t) ==
  /\ At(t, "subscribe")
  /\ Goto(t, "touch")
  /\ UNCHANGED <<rowVars, copies, workVars, busVars, seen, latest>>

EnqueueTouch(t) ==
  /\ At(t, "touch")
  /\ Touch(ThreadOf[t])
  /\ Goto(t, "queue")
  /\ UNCHANGED <<report, sources, audit, copies, workVars, busVars, seen, latest>>

EnqueueStatus(t) ==
  /\ At(t, "queue")
  /\ SetStatus(ThreadOf[t], "queued")
  /\ Goto(t, "send")
  /\ UNCHANGED <<report, sources, audit, copies, workVars, busVars, seen, latest>>

Deliveries == IF "duplicate" \in Faults THEN 1..2 ELSE {1}

\* run_turn_task.delay returns: /chat answers, a stream starts relaying.
Send(t) ==
  /\ At(t, "send")
  /\ \E n \in Deliveries : copies' = [copies EXCEPT ![t] = n]
  /\ Goto(t, IF t \in Streams THEN "relay" ELSE "over")
  /\ UNCHANGED <<rowVars, workVars, busVars, seen, latest>>

\* It raises, and the task may be on the queue all the same.
SendRaises(t) ==
  /\ At(t, "send")
  /\ \/ /\ "broker" \in Faults
        /\ UNCHANGED copies
     \/ /\ "ambiguous" \in Faults
        /\ copies' = [copies EXCEPT ![t] = 1]
  /\ Goto(t, "raised")
  /\ Release(t)
  /\ UNCHANGED <<rowVars, workVars, sent, seen, latest>>

\* Mutant: "clarify" is not in _TERMINAL_EVENT_TYPES.
RelayPastClarify(t) ==
  /\ t \in Streams /\ At(t, "relay")
  /\ inbox[t] # <<>>
  /\ Yield(t, Head(inbox[t]))
  /\ inbox' = [inbox EXCEPT ![t] = Tail(@)]
  /\ Goto(t, IF Head(inbox[t]).type \in {"done", "error"} THEN "unsubscribe" ELSE "relay")
  /\ UNCHANGED <<rowVars, copies, workVars, sent, latest>>

Relay(t) ==
  /\ t \in Streams /\ At(t, "relay")
  /\ inbox[t] # <<>>
  /\ Yield(t, Head(inbox[t]))
  /\ inbox' = [inbox EXCEPT ![t] = Tail(@)]
  /\ Goto(t, IF Head(inbox[t]).type \in Terminal THEN "unsubscribe" ELSE "relay")
  /\ UNCHANGED <<rowVars, copies, workVars, sent, latest>>

Unsubscribe(t) ==
  /\ At(t, "unsubscribe")
  /\ Goto(t, "over")
  /\ Release(t)
  /\ UNCHANGED <<rowVars, copies, workVars, sent, seen, latest>>

\* What can raise at each program point of the request.
ApiFaultsAt(pc) ==
  CASE pc \in {"subscribe", "relay", "unsubscribe"} -> {"subscribe"}
    [] pc \in {"touch", "queue"}                    -> {"db"}
    [] OTHER                                        -> {}

\* Mutant: a stream reconnects by itself; the channel does not replay.
Reconnect(t) ==
  /\ ApiFaultsAt(apc[t]) \cap Faults # {}
  /\ IF At(t, "relay") THEN UNCHANGED apc ELSE Goto(t, "raised")
  /\ Release(t)
  /\ UNCHANGED <<rowVars, copies, workVars, sent, seen, latest>>

\* An exception leaves the `async with` and reaches the `except` clause.
RequestRaises(t) ==
  /\ ApiFaultsAt(apc[t]) \cap Faults # {}
  /\ Goto(t, "raised")
  /\ Release(t)
  /\ UNCHANGED <<rowVars, copies, workVars, sent, seen, latest>>

\* The failed request ends: a last event for a stream, a 502 for /chat.
EndFailed(t) ==
  /\ Goto(t, "over")
  /\ Yield(t, [turn |-> t, type |-> "api_error"])
  /\ UNCHANGED <<report, sources, audit, copies, workVars, busVars, latest>>

\* Mutant: mark_failed also leaves a queued session alone.
MarkFailedSkipsQueued(t) ==
  /\ At(t, "raised")
  /\ \/ /\ Row(t) \in Settled \cup {"queued"}
        /\ EndFailed(t)
        /\ UNCHANGED status
     \/ /\ Row(t) \notin Settled \cup {"queued"}
        /\ Goto(t, "fail")
        /\ UNCHANGED <<rowVars, copies, workVars, busVars, seen, latest>>

\* mark_failed reads the session and returns when the worker settled it ...
MarkFailedRead(t) ==
  /\ At(t, "raised")
  /\ \/ /\ Row(t) \in Settled
        /\ EndFailed(t)
        /\ UNCHANGED status
     \/ /\ Row(t) \notin Settled
        /\ Goto(t, "fail")
        /\ UNCHANGED <<rowVars, copies, workVars, busVars, seen, latest>>

\* ... and otherwise writes, in a transaction of its own.
MarkFailedWrite(t) ==
  /\ At(t, "fail")
  /\ SetStatus(ThreadOf[t], "failed")
  /\ EndFailed(t)

MarkFailedRaises(t) ==
  /\ apc[t] \in {"raised", "fail"}
  /\ "db" \in Faults
  /\ EndFailed(t)
  /\ UNCHANGED status

\* The request is cancelled, or its process dies, at some await.  Neither
\* a CancelledError nor a GeneratorExit reaches `except Exception`.
Abandon(t) ==
  /\ apc[t] \notin {"new", "over"}
  /\ "crash" \in Faults \/ ("disconnect" \in Faults /\ t \in Streams)
  /\ Goto(t, "over")
  /\ Release(t)
  /\ UNCHANGED <<rowVars, copies, workVars, sent, seen, latest>>

RequestStep(t) ==
  \/ Subscribe(t) \/ EnqueueTouch(t) \/ EnqueueStatus(t)
  \/ Send(t) \/ SendRaises(t) \/ Relay(t) \/ Unsubscribe(t)
  \/ RequestRaises(t)
  \/ MarkFailedRead(t) \/ MarkFailedWrite(t) \/ MarkFailedRaises(t)

----------------------------------------------------------------------------
(* The worker: _execute, run_turn and ChatService.                         *)

On(w, pc)   == wpc[w] = pc
Move(w, pc) == wpc' = [wpc EXCEPT ![w] = pc] /\ UNCHANGED wturn
Stop(w)     == /\ wpc' = [wpc EXCEPT ![w] = "idle"]
               /\ wturn' = [wturn EXCEPT ![w] = NoTurn]

\* A worker takes a task, which Celery acknowledges before running it.
Take(w) ==
  /\ On(w, "idle")
  /\ \E t \in Turns :
       /\ copies[t] > 0
       /\ copies' = [copies EXCEPT ![t] = @ - 1]
       /\ wturn' = [wturn EXCEPT ![w] = t]
  /\ wpc' = [wpc EXCEPT ![w] = "setup"]
  /\ UNCHANGED <<rowVars, apiVars, busVars>>

\* The HTTP client, the checkpointer and the graph are built.
SetUp(w) ==
  /\ On(w, "setup")
  /\ Move(w, "touch")
  /\ UNCHANGED <<rowVars, copies, apiVars, busVars>>

TurnTouch(w) ==
  /\ On(w, "touch")
  /\ Touch(ThreadOf[wturn[w]])
  /\ Move(w, "clarify")
  /\ UNCHANGED <<report, sources, audit, copies, apiVars, busVars>>

\* A node is done whose update only yields a progress event:
\* clarify_with_user without a question, then write_research_brief.
NodeDone(w) ==
  /\ \/ On(w, "clarify") /\ Move(w, "brief")
     \/ On(w, "brief") /\ Move(w, "supervisor")
  /\ Publish(wturn[w], "progress")
  /\ UNCHANGED <<rowVars, copies, apiVars>>

\* Mutant: the session gets the audit log's word for the outcome.
AskWithWrongStatus(w) ==
  /\ On(w, "clarify")
  /\ SetStatus(ThreadOf[wturn[w]], "clarify")
  /\ Move(w, "audit_clarify")
  /\ UNCHANGED <<report, sources, audit, copies, apiVars, busVars>>

\* clarify_with_user asks: the turn ends with a question.
AskClarification(w) ==
  /\ On(w, "clarify")
  /\ SetStatus(ThreadOf[wturn[w]], "clarifying")
  /\ Move(w, "audit_clarify")
  /\ UNCHANGED <<report, sources, audit, copies, apiVars, busVars>>

SourcesSent(t) ==
  Cardinality({i \in 1..Len(sent[t]) : sent[t][i] = "source"})

\* Mutant: add_source is best-effort.
AddSourceBestEffort(w) ==
  LET t == wturn[w]
  IN  /\ On(w, "supervisor")
      /\ SourcesSent(t) < MaxSources
      /\ \/ "db" \in Faults /\ UNCHANGED sources
         \/ sources' = [sources EXCEPT ![ThreadOf[t]] =
                          IF Exists(ThreadOf[t]) THEN @ \cup {t} ELSE @]
      /\ Move(w, "publish_source")
      /\ UNCHANGED <<status, report, audit, copies, apiVars, busVars>>

\* A delegated topic is finished inside the supervisor.
AddSource(w) ==
  LET t == wturn[w]
  IN  /\ On(w, "supervisor")
      /\ SourcesSent(t) < MaxSources
      /\ sources' = [sources EXCEPT ![ThreadOf[t]] =
                       IF Exists(ThreadOf[t]) THEN @ \cup {t} ELSE @]
      /\ Move(w, "publish_source")
      /\ UNCHANGED <<status, report, audit, copies, apiVars, busVars>>

PublishSource(w) ==
  /\ On(w, "publish_source")
  /\ Publish(wturn[w], "source")
  /\ Move(w, "supervisor")
  /\ UNCHANGED <<rowVars, copies, apiVars>>

\* Mutant: "running" is never written.
SupervisorUnnoticed(w) ==
  /\ On(w, "supervisor")
  /\ Move(w, "publish_running")
  /\ UNCHANGED <<rowVars, copies, apiVars, busVars>>

\* The supervisor's own update arrives, when its research is complete.
SetRunning(w) ==
  /\ On(w, "supervisor")
  /\ SetStatus(ThreadOf[wturn[w]], "running")
  /\ Move(w, "publish_running")
  /\ UNCHANGED <<report, sources, audit, copies, apiVars, busVars>>

PublishRunning(w) ==
  /\ On(w, "publish_running")
  /\ Publish(wturn[w], "progress")
  /\ Move(w, "writer")
  /\ UNCHANGED <<rowVars, copies, apiVars>>

WriteReport(w) ==
  /\ On(w, "writer")
  /\ SetReport(wturn[w])
  /\ Move(w, "audit_done")
  /\ UNCHANGED <<sources, audit, copies, apiVars, busVars>>

\* Mutant: the audit row of an outcome is best-effort.
RecordOutcomeBestEffort(w) ==
  /\ \/ On(w, "audit_clarify") /\ Move(w, "publish_clarify")
     \/ On(w, "audit_done") /\ Move(w, "publish_done")
  /\ \/ "db" \in Faults /\ UNCHANGED audit
     \/ /\ CanRecord(wturn[w])
        /\ Record(wturn[w], IF On(w, "audit_done") THEN "done" ELSE "clarify")
  /\ UNCHANGED <<status, report, sources, copies, apiVars, busVars>>

\* The audit row of a turn that reached a question or a report.
RecordOutcome(w) ==
  /\ wpc[w] \in {"audit_clarify", "audit_done"}
  /\ CanRecord(wturn[w])
  /\ \/ /\ On(w, "audit_clarify")
        /\ Record(wturn[w], "clarify")
        /\ Move(w, "publish_clarify")
     \/ /\ On(w, "audit_done")
        /\ Record(wturn[w], "done")
        /\ Move(w, "publish_done")
  /\ UNCHANGED <<status, report, sources, copies, apiVars, busVars>>

\* Mutant: run_turn does not return after the question.
PublishAndGoOn(w) ==
  /\ \/ /\ On(w, "publish_clarify")
        /\ Publish(wturn[w], "clarify")
        /\ Move(w, "brief")
     \/ /\ On(w, "publish_done")
        /\ Publish(wturn[w], "done")
        /\ Move(w, "teardown")
  /\ UNCHANGED <<rowVars, copies, apiVars>>

PublishOutcome(w) ==
  /\ \/ On(w, "publish_clarify") /\ Publish(wturn[w], "clarify")
     \/ On(w, "publish_done") /\ Publish(wturn[w], "done")
  /\ Move(w, "teardown")
  /\ UNCHANGED <<rowVars, copies, apiVars>>

\* What can raise at each program point of the turn; the supervisor also
\* publishes the progress of its topics, events the model leaves out.
TurnFaultsAt(pc) ==
  CASE pc = "touch"                                  -> {"db"}
    [] pc = "clarify"                                -> {"graph", "db", "publish"}
    [] pc = "brief"                                  -> {"graph", "publish"}
    [] pc = "supervisor"                             -> {"graph", "db", "publish"}
    [] pc = "writer"                                 -> {"graph", "db"}
    [] pc \in {"publish_source", "publish_running",
               "publish_clarify", "publish_done"}    -> {"publish"}
    [] pc \in {"audit_clarify", "audit_done"}        -> {"db"}
    [] OTHER                                         -> {}

\* run_turn's `except`: a call raised, or the audit row has no session.
TurnRaises(w) ==
  /\ \/ TurnFaultsAt(wpc[w]) \cap Faults # {}
     \/ wpc[w] \in {"audit_clarify", "audit_done"} /\ ~CanRecord(wturn[w])
  /\ Move(w, "record_status")
  /\ UNCHANGED <<rowVars, copies, apiVars, busVars>>

\* Mutant: record_failure only writes the audit row.
FailureStatusForgotten(w) ==
  /\ On(w, "record_status")
  /\ Move(w, "record_audit")
  /\ UNCHANGED <<rowVars, copies, apiVars, busVars>>

\* record_failure: two independent best-effort writes.
RecordFailureStatus(w) ==
  /\ On(w, "record_status")
  /\ \/ SetStatus(ThreadOf[wturn[w]], "failed")
     \/ "db" \in Faults /\ UNCHANGED status
  /\ Move(w, "record_audit")
  /\ UNCHANGED <<report, sources, audit, copies, apiVars, busVars>>

RecordFailureAudit(w) ==
  /\ On(w, "record_audit")
  /\ \/ CanRecord(wturn[w]) /\ Record(wturn[w], "failed")
     \/ (~CanRecord(wturn[w]) \/ "db" \in Faults) /\ UNCHANGED audit
  /\ Move(w, "publish_error")
  /\ UNCHANGED <<status, report, sources, copies, apiVars, busVars>>

\* Mutant: run_turn's `except` publishes nothing.
ErrorNotPublished(w) ==
  /\ On(w, "publish_error")
  /\ Move(w, "teardown")
  /\ UNCHANGED <<rowVars, copies, apiVars, busVars>>

PublishError(w) ==
  /\ On(w, "publish_error")
  /\ Publish(wturn[w], "error")
  /\ Move(w, "teardown")
  /\ UNCHANGED <<rowVars, copies, apiVars>>

TearDown(w) ==
  /\ On(w, "teardown")
  /\ Stop(w)
  /\ UNCHANGED <<rowVars, copies, apiVars, busVars>>

\* What reaches _execute's own `except`: construction, closing, and the
\* publication of the error event.
EscapesRunTurn(w) ==
  /\ \/ On(w, "setup") /\ "setup" \in Faults
     \/ On(w, "publish_error") /\ "publish" \in Faults
     \/ On(w, "teardown") /\ "teardown" \in Faults
  /\ Move(w, "handler_status")
  /\ UNCHANGED <<rowVars, copies, apiVars, busVars>>

HandlerStatus(w) ==
  /\ On(w, "handler_status")
  /\ SetStatus(ThreadOf[wturn[w]], "failed")
  /\ Move(w, "handler_audit")
  /\ UNCHANGED <<report, sources, audit, copies, apiVars, busVars>>

HandlerAudit(w) ==
  /\ On(w, "handler_audit")
  /\ CanRecord(wturn[w])
  /\ Record(wturn[w], "failed")
  /\ Move(w, "handler_publish")
  /\ UNCHANGED <<status, report, sources, copies, apiVars, busVars>>

HandlerPublish(w) ==
  /\ On(w, "handler_publish")
  /\ Publish(wturn[w], "error")
  /\ Stop(w)
  /\ UNCHANGED <<rowVars, copies, apiVars>>

\* An exception inside that `except` ends the task with nothing published.
HandlerRaises(w) ==
  /\ \/ wpc[w] \in {"handler_status", "handler_audit"} /\ "db" \in Faults
     \/ On(w, "handler_audit") /\ ~CanRecord(wturn[w])
     \/ On(w, "handler_publish") /\ "publish" \in Faults
  /\ Stop(w)
  /\ UNCHANGED <<rowVars, copies, apiVars, busVars>>

WorkerCrash(w) ==
  /\ ~On(w, "idle")
  /\ "crash" \in Faults
  /\ Stop(w)
  /\ UNCHANGED <<rowVars, copies, apiVars, busVars>>

WorkerStep(w) ==
  \/ Take(w) \/ SetUp(w) \/ TurnTouch(w) \/ NodeDone(w)
  \/ AskClarification(w) \/ AddSource(w) \/ PublishSource(w)
  \/ SetRunning(w) \/ PublishRunning(w) \/ WriteReport(w)
  \/ RecordOutcome(w) \/ PublishOutcome(w)
  \/ TurnRaises(w) \/ RecordFailureStatus(w) \/ RecordFailureAudit(w)
  \/ PublishError(w) \/ TearDown(w)
  \/ EscapesRunTurn(w) \/ HandlerStatus(w) \/ HandlerAudit(w)
  \/ HandlerPublish(w) \/ HandlerRaises(w)

----------------------------------------------------------------------------
Next ==
  \/ \E t \in Turns : Begin(t) \/ RequestStep(t) \/ Abandon(t)
  \/ \E w \in Workers : WorkerStep(w) \/ WorkerCrash(w)
  \/ \E th \in Threads : Delete(th)

Spec == Init /\ [][Next]_vars

\* A running request and a running worker keep running: every await of the
\* code returns or raises, and the Celery pool takes what the broker holds.
\* Nobody has to begin a turn, delete a session, crash or disconnect.
Fairness ==
  /\ \A t \in Turns : WF_vars(RequestStep(t))
  /\ \A w \in Workers : WF_vars(WorkerStep(w))

FairSpec == Spec /\ Fairness

----------------------------------------------------------------------------
(* Properties.                                                             *)

\* How many of the first i events of a sequence are turn t's own.
OwnCount(events, t, i) == Cardinality({j \in 1..i : events[j].turn = t})

Has(sequence, x) == \E i \in 1..Len(sequence) : sequence[i] = x

\* A request that will still enqueue its turn or mark it failed.
RequestOwns(t) == apc[t] \in {"send", "raised", "fail"}

\* A worker that has yet to write the status its turn ends with.
WorkerOwns(w) == wpc[w] \in {"setup", "touch", "clarify", "brief", "supervisor",
                             "publish_source", "publish_running", "writer",
                             "record_status", "handler_status"}

Owned(th) ==
  \/ \E t \in Turns : ThreadOf[t] = th /\ (apc[t] = "queue" \/ RequestOwns(t) \/ copies[t] > 0)
  \/ \E w \in Workers : wturn[w] \in Turns /\ ThreadOf[wturn[w]] = th /\ WorkerOwns(w)

\* A session shown as queued or running has somebody left who will settle
\* it: it is never wedged, whatever turns of the thread overlap and however
\* the graph, the broker and Redis fail.  (Not so when Postgres itself
\* fails, or a process dies or is cancelled: see the runs that say so.)
InFlightHasOwner == \A th \in Threads : status[th] \in InFlight => Owned(th)

\* From the moment a stream is subscribed until it unsubscribes it has, of
\* its own turn's events, all that were published and in their order:
\* subscribing before enqueueing leaves no window to lose one.
RelayIsComplete ==
  \A s \in Streams : Subscribed(s) =>
    LET received == seen[s] \o inbox[s]
    IN  /\ OwnCount(received, s, Len(received)) = Len(sent[s])
        /\ \A i \in 1..Len(received) : received[i].turn = s =>
             received[i].type = sent[s][OwnCount(received, s, i)]

\* One terminal event ends a stream: nothing follows it, except the error
\* the API itself appends when closing the subscription raises.
NothingRelayedAfterTerminal ==
  \A s \in Streams : \A i, j \in 1..Len(seen[s]) :
    i < j /\ seen[s][i].type \in Terminal => seen[s][j].type = "api_error"

\* A worker publishes one terminal event per turn, and it is the last one,
\* although three different handlers publish them.
EachTurnEndsOnce ==
  \A t \in Turns : \A i \in 1..Len(sent[t]) :
    sent[t][i] \in Terminal => i = Len(sent[t])

\* While a worker is between its touch and the write of the outcome, the
\* session row is there and says so: no delete takes it away in between.
RowHeldDuringTurn ==
  \A w \in Workers :
    /\ wpc[w] \in {"clarify", "brief", "supervisor", "publish_source"}
         => Row(wturn[w]) = "queued"
    /\ wpc[w] \in {"publish_running", "writer"} => Row(wturn[w]) = "running"

\* Once "done" was published, and until a later turn begins, the session
\* is done with the report of that turn and the audit log says so, unless
\* the user deleted the thread.
PublishedOutcomeHolds ==
  \A t \in Turns : Has(sent[t], "done") /\ latest[ThreadOf[t]] = t =>
    \/ ~Exists(ThreadOf[t])
    \/ /\ Row(t) = "done"
       /\ report[ThreadOf[t]] = t
       /\ Has(audit[t], "done")

\* A stored report comes with every source its turn announced.
ReportHasItsSources ==
  \A th \in Threads : report[th] # NoTurn /\ Has(sent[report[th]], "source")
                        => report[th] \in sources[th]

\* mark_failed does not overwrite what the worker settled.
MarkFailedKeepsSettled ==
  [][\A t \in Turns : MarkFailedWrite(t) => Row(t) \notin Settled]_vars

\* A stream that waits has something to wait for: its task, the worker that
\* runs it, or a terminal event on the way.
WaitingStreamIsServed ==
  \A s \in Streams : At(s, "relay") =>
    \/ copies[s] > 0
    \/ \E w \in Workers : wturn[w] = s
    \/ \E i \in 1..Len(inbox[s]) : inbox[s][i].type \in Terminal

\* Every session that is queued or running settles: a question, a report
\* or a failure, or the thread is gone.
EverySessionSettles ==
  \A th \in Threads : status[th] \in InFlight ~> status[th] \notin InFlight

\* Every stream that was opened ends.
EveryStreamEnds == \A s \in Streams : apc[s] # "new" ~> apc[s] = "over"

\* The threads with an unfinished turn.
BusyThreads == {th \in Threads : \E t \in Turns :
                  ThreadOf[t] = th /\ apc[t] # "new" /\ ~Over(t)}

\* The refinement mapping: requests, broker and workers become `busy`.
Lifecycle == INSTANCE SessionLifecycle WITH
               Threads <- Threads, status <- status, busy <- BusyThreads

\* The sessions table implements the life cycle its readers rely on: seen
\* without the machinery, each step of the turns, their handlers and the
\* delete is a step of SessionLifecycle or leaves the status alone.
LifecycleSpec == Lifecycle!Spec
=============================================================================
