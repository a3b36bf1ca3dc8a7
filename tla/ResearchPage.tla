---------------------------- MODULE ResearchPage ----------------------------
(***************************************************************************)
(* The browser's side of a research thread: the Home page, its chat panel  *)
(* and the sidebar that opens and deletes sessions.  One page is driven by *)
(* three asynchronous sources, the stream of a turn, the requests made     *)
(* when a session is reopened, and a 3 s poll.  JavaScript runs each       *)
(* handler to its next await, so a handler up to an await is an action;    *)
(* answers arrive in any order, and late.                                  *)
(*                                                                         *)
(* The server is the environment: for each thread the status of its row    *)
(* and what its checkpoint reads as, which outlives the row.  Abstracted:  *)
(* texts, steps and sources (by the thread they are about), the drawer,    *)
(* clarify suggestions and the de-duplication of clarify questions.        *)
(***************************************************************************)
EXTENDS Naturals, FiniteSets

CONSTANTS
  Sessions,    \* threads that exist when the page is opened
  Runs,        \* turns sent from this page; without a thread a run makes its own
  MaxToken,    \* bound on the user's changes of the screen
  MaxDeletes,  \* bound on the deletes under way at a time
  NoThread     \* no thread, no report, no timer

ASSUME ResearchPageAssumption ==
  /\ Sessions \cap Runs = {}
  /\ NoThread \notin Sessions \cup Runs
  /\ {MaxToken, MaxDeletes} \subseteq Nat

VARIABLES
  server,    \* sessions.status of each thread, "absent" without a row
  saved,     \* what its checkpoint says of it, "none" without one
  listed,    \* the sidebar's list, as of its last refresh
  token,     \* selectionTokenRef
  thread,    \* threadId
  phase,     \* phase
  report,    \* report, as the thread it belongs to
  shown,     \* threads with steps or sources on the screen
  results,   \* runs whose outcome is a message on the screen
  run,       \* the sendMessage call of each run
  pending,   \* requests of selectSession and pollUntilSettled not answered yet
  timer,     \* pollTimeoutRef: the poll that is scheduled
  deleting,  \* deletes not answered yet, with the threadId they closed over
  focus      \* history: the thread the user chose or started last

screen     == <<thread, phase, report, shown, results>>
vars == <<server, saved, listed, token, screen, run, pending, timer, deleting, focus>>

Threads  == Sessions \cup Runs
InFlight == {"queued", "running"}
Statuses == InFlight \cup {"clarifying", "done", "failed"}
Readings == {"none", "running", "clarifying", "done"}
Phases   == {"idle", "clarifying", "running", "complete"}
Maybe(S) == S \cup {NoThread}

Poll    == [token : 0..MaxToken, thread : Threads]
Request == [kind : {"report", "status", "poll", "poll_report"},
            token : 0..MaxToken, thread : Threads]
Call    == [state : {"new", "sent", "open", "closing", "over"},
            token : 0..MaxToken, thread : Maybe(Threads), from : Phases,
            terminal : {"none", "clarify", "done", "error"}]

TypeOK ==
  /\ server \in [Threads -> Statuses \cup {"absent"}]
  /\ saved \in [Threads -> Readings]
  /\ listed \in [Threads -> {"absent", "done", "other"}]
  /\ token \in 0..MaxToken
  /\ thread \in Maybe(Threads)
  /\ phase \in Phases
  /\ report \in Maybe(Threads)
  /\ shown \subseteq Threads
  /\ results \subseteq Runs
  /\ run \in [Runs -> Call]
  /\ pending \subseteq Request
  /\ timer \in Maybe(Poll)
  /\ deleting \subseteq [thread : Threads, seen : Maybe(Threads), at : {"sent", "applied"}]
  /\ focus \in Maybe(Threads)

\* What a checkpoint may say under a row with this status.  One that says
\* "done" goes on to: a follow-up keeps the report until it writes its own.
\* The last node's may be lost, and before the first there is none.
Reads(status) ==
  CASE status = "absent"     -> {"none"}
    [] status = "clarifying" -> {"running", "clarifying", "done"}
    [] status \in {"running", "done"} -> {"running", "done"}
    [] OTHER                 -> Readings

\* The sessions in the list, with what selectSession tells apart.
Listing == [th \in Threads |-> IF server[th] \in {"absent", "done"} THEN server[th] ELSE "other"]

Init ==
  /\ server \in {s \in [Threads -> Statuses \cup {"absent"}] :
                   \A th \in Threads : s[th] = "absent" <=> th \in Runs}
  /\ saved \in [Threads -> Readings] /\ \A th \in Threads : saved[th] \in Reads(server[th])
  /\ listed = Listing
  /\ token = 0
  /\ thread = NoThread /\ phase = "idle" /\ report = NoThread
  /\ shown = {} /\ results = {}
  /\ run = [r \in Runs |-> [state |-> "new", token |-> 0, thread |-> NoThread,
                            from |-> "idle", terminal |-> "none"]]
  /\ pending = {} /\ timer = NoThread /\ deleting = {} /\ focus = NoThread

----------------------------------------------------------------------------
(* The server.                                                             *)

\* A turn's next row write; record_failure may overwrite an outcome.
Follows(status) ==
  CASE status = "queued"  -> {"running", "clarifying", "failed"}
    [] status = "running" -> {"done", "failed"}
    [] status \in {"clarifying", "done"} -> {"failed"}
    [] OTHER              -> {}

Advance(th) ==
  /\ \E status \in Follows(server[th]) :
       /\ saved[th] \in Reads(status)
       /\ server' = [server EXCEPT ![th] = status]
  /\ UNCHANGED <<saved, listed, token, screen, run, pending, timer, deleting, focus>>

\* The saver: along with the graph, or catching up with the row.
Save(th) ==
  /\ saved[th] # "done"
  /\ \/ /\ server[th] \in InFlight
        /\ \E reading \in Reads(server[th]) \ {"none"} : saved' = [saved EXCEPT ![th] = reading]
     \/ /\ server[th] \in {"clarifying", "done"}
        /\ saved' = [saved EXCEPT ![th] = server[th]]
  /\ UNCHANGED <<server, listed, token, screen, run, pending, timer, deleting, focus>>

\* get_status: the row where it says that the turn waits or failed, else
\* the checkpoint, whether there is a row or not.
Told(th) == IF server[th] \in {"queued", "failed"} THEN server[th] ELSE saved[th]

\* The list is fetched again.  (A failed fetch shows it empty, from which the
\* user can only choose less.)
RefreshList ==
  /\ listed' = Listing
  /\ UNCHANGED <<server, saved, token, screen, run, pending, timer, deleting, focus>>

----------------------------------------------------------------------------
(* What the user does.                                                     *)

NextToken == token < MaxToken /\ token' = token + 1

\* The part of the screen that selectSession and resetAll clear.
ClearScreen == report' = NoThread /\ shown' = {} /\ results' = {}

\* selectSession up to its first await; the phase stays what it was.
SelectSession(th) ==
  /\ listed[th] # "absent"
  /\ NextToken
  /\ thread' = th /\ focus' = th
  /\ ClearScreen
  /\ timer' = NoThread
  /\ pending' = pending \cup
       {[kind |-> IF listed[th] = "done" THEN "report" ELSE "status",
         token |-> token + 1, thread |-> th]}
  /\ UNCHANGED <<server, saved, listed, phase, run, deleting>>

\* Mutant: startRun does not bump the token.
StartUnnoticed(r) ==
  LET th == IF thread = NoThread THEN r ELSE thread
  IN  /\ run[r].state = "new"
      /\ phase \in {"idle", "clarifying"}
      /\ UNCHANGED token
      /\ report' = NoThread /\ shown' = {} /\ phase' = "running"
      /\ timer' = NoThread
      /\ focus' = th
      /\ run' = [run EXCEPT ![r] = [state |-> "sent", token |-> token,
                   thread |-> th, from |-> phase, terminal |-> "none"]]
      /\ UNCHANGED <<server, saved, listed, thread, results, pending, deleting>>

\* startTopic (from "idle") and submitClarify (from "clarifying"): startRun,
\* then sendMessage, which captures the token and the thread.
Start(r) ==
  LET th == IF thread = NoThread THEN r ELSE thread
  IN  /\ run[r].state = "new"
      /\ phase \in {"idle", "clarifying"}
      /\ NextToken
      /\ report' = NoThread /\ shown' = {} /\ phase' = "running"
      /\ timer' = NoThread
      /\ focus' = th
      /\ run' = [run EXCEPT ![r] = [state |-> "sent", token |-> token + 1,
                   thread |-> th, from |-> phase, terminal |-> "none"]]
      /\ UNCHANGED <<server, saved, listed, thread, results, pending, deleting>>

ResetAll ==
  /\ NextToken
  /\ thread' = NoThread /\ focus' = NoThread /\ phase' = "idle"
  /\ ClearScreen
  /\ timer' = NoThread
  /\ UNCHANGED <<server, saved, listed, run, pending, deleting>>

\* confirmDelete sends the request; its onSessionDeleted is this render's.
Delete(th) ==
  /\ listed[th] # "absent"
  /\ \A d \in deleting : d.thread # th
  /\ Cardinality(deleting) < MaxDeletes
  /\ deleting' = deleting \cup {[thread |-> th, seen |-> thread, at |-> "sent"]}
  /\ UNCHANGED <<server, saved, listed, token, screen, run, pending, timer, focus>>

----------------------------------------------------------------------------
(* Answers: deletes.                                                       *)

\* SessionStore.delete: the row goes, the checkpoint stays.
DeleteApplies(d) ==
  /\ d.at = "sent" /\ server[d.thread] \notin InFlight
  /\ server' = [server EXCEPT ![d.thread] = "absent"]
  /\ deleting' = (deleting \ {d}) \cup {[d EXCEPT !.at = "applied"]}
  /\ UNCHANGED <<saved, listed, token, screen, run, pending, timer, focus>>

\* 409 while a turn is in flight, or the request fails, applied or not.
DeleteRefused(d) ==
  /\ deleting' = deleting \ {d}
  /\ UNCHANGED <<server, saved, listed, token, screen, run, pending, timer, focus>>

\* The session is gone, and the page is reset if it had been showing it.
DeleteReturns(d) ==
  /\ d.at = "applied"
  /\ listed' = [listed EXCEPT ![d.thread] = "absent"]
  /\ deleting' = deleting \ {d}
  /\ \/ /\ d.thread = d.seen
        /\ NextToken
        /\ thread' = NoThread /\ focus' = NoThread /\ phase' = "idle"
        /\ ClearScreen
        /\ timer' = NoThread
     \/ /\ d.thread # d.seen
        /\ UNCHANGED <<token, screen, timer, focus>>
  /\ UNCHANGED <<server, saved, run, pending>>

----------------------------------------------------------------------------
(* Answers: the stream of a run.                                           *)

Current(r) == run[r].token = token
SetRun(r, state) == run' = [run EXCEPT ![r].state = state]

\* The server enqueues the turn and starts relaying.
Accepted(r) ==
  /\ run[r].state = "sent"
  /\ server' = [server EXCEPT ![run[r].thread] = "queued"]
  /\ SetRun(r, "open")
  /\ UNCHANGED <<saved, listed, token, screen, pending, timer, deleting, focus>>

\* Mutant: the callback does not compare the token.
StreamEventUnguarded(r) ==
  /\ run[r].state = "open"
  /\ shown' = shown \cup {run[r].thread}
  /\ UNCHANGED <<server, saved, listed, token, thread, phase, report, results, run,
                 pending, timer, deleting, focus>>

\* A progress, source or source_url event.
StreamEvent(r) ==
  /\ run[r].state = "open"
  /\ Current(r)
  /\ shown' = shown \cup {run[r].thread}
  /\ UNCHANGED <<server, saved, listed, token, thread, phase, report, results, run,
                 pending, timer, deleting, focus>>

\* The terminal event the server's status stands for; "error" also tells
\* of a failed delivery.
TerminalOf(th) ==
  {"error"} \cup (CASE server[th] = "done"       -> {"done"}
                    [] server[th] = "clarifying" -> {"clarify"}
                    [] OTHER                     -> {})

\* The callback returns at once when the token has moved on, and then the
\* terminal event is not remembered either.
StreamTerminal(r) ==
  /\ run[r].state = "open"
  /\ \E type \in TerminalOf(run[r].thread) :
       IF Current(r)
       THEN /\ run' = [run EXCEPT ![r].state = "closing", ![r].terminal = type]
            /\ thread' = run[r].thread
            /\ report' = IF type = "done" THEN run[r].thread ELSE report
       ELSE /\ SetRun(r, "closing")
            /\ UNCHANGED <<thread, report>>
  /\ UNCHANGED <<server, saved, listed, token, phase, shown, results, pending, timer,
                 deleting, focus>>

\* The catch of startTopic or submitClarify.
Catch(r) ==
  /\ results' = results \cup {r}
  /\ phase' = run[r].from
  /\ SetRun(r, "over")

\* fetch or read raises, also after a terminal event, or the stream ends
\* before one.
StreamBreaks(r) ==
  /\ run[r].state \in {"sent", "open", "closing"}
  /\ Catch(r)
  /\ UNCHANGED <<server, saved, listed, token, thread, report, shown, pending, timer,
                 deleting, focus>>

\* applyTerminalEvent.
PhaseAfter(r) ==
  CASE run[r].terminal = "clarify" -> "clarifying"
    [] run[r].terminal = "done"    -> "complete"
    [] OTHER                       -> run[r].from

\* streamChat returns: sendMessage throws without a terminal event, returns
\* null when the token has moved on, and else the event.
StreamEnds(r) ==
  /\ run[r].state = "closing"
  /\ \/ run[r].terminal = "none" /\ Catch(r)
     \/ /\ run[r].terminal # "none" /\ ~Current(r)
        /\ SetRun(r, "over")
        /\ UNCHANGED <<results, phase>>
     \/ /\ run[r].terminal # "none" /\ Current(r)
        /\ results' = results \cup {r}
        /\ phase' = PhaseAfter(r)
        /\ SetRun(r, "over")
  /\ UNCHANGED <<server, saved, listed, token, thread, report, shown, pending, timer,
                 deleting, focus>>

----------------------------------------------------------------------------
(* Answers: reopened sessions and the poll.                                *)

\* A request whose token has moved on is dropped, whatever its answer.
Stale(q) ==
  /\ q.token # token
  /\ pending' = pending \ {q}
  /\ UNCHANGED <<server, saved, listed, token, screen, run, timer, deleting, focus>>

\* The request fails, or the thread is unknown: 404.
Raises(q) ==
  /\ q.token = token
  /\ pending' = pending \ {q}
  /\ phase' = "idle"
  /\ UNCHANGED <<server, saved, listed, token, thread, report, shown, results, run,
                 timer, deleting, focus>>

\* Mutant: only the sources of the session are put on the screen.
ReportForgotten(q) ==
  /\ q.kind \in {"report", "poll_report"}
  /\ q.token = token
  /\ server[q.thread] # "absent"
  /\ pending' = pending \ {q}
  /\ shown' = {q.thread} /\ phase' = "complete"
  /\ UNCHANGED <<server, saved, listed, token, thread, report, results, run, timer,
                 deleting, focus>>

\* getResearchReport answers what a row has; without one it is a 404, as
\* when a row holds no report.
Report(q) ==
  /\ q.kind \in {"report", "poll_report"}
  /\ q.token = token
  /\ server[q.thread] # "absent"
  /\ pending' = pending \ {q}
  /\ report' = q.thread /\ shown' = {q.thread} /\ phase' = "complete"
  /\ UNCHANGED <<server, saved, listed, token, thread, results, run, timer, deleting,
                 focus>>

\* Mutant: the page takes the status for a phase.
StatusAsPhase(status) == status

\* What the page shows for a status that is not the end.
PhaseOf(status) == IF status = "clarifying" THEN "clarifying" ELSE "running"

\* getResearchStatus answers selectSession, which polls an unfinished run.
Status(q) ==
  /\ q.kind = "status"
  /\ q.token = token
  /\ Told(q.thread) # "none"
  /\ pending' = pending \ {q}
  /\ phase' = PhaseOf(Told(q.thread))
  /\ timer' = IF Told(q.thread) \in InFlight \cup {"clarifying"}
              THEN [token |-> token, thread |-> q.thread] ELSE timer
  /\ UNCHANGED <<server, saved, listed, token, thread, report, shown, results, run,
                 deleting, focus>>

\* The scheduled poll asks for the status, unless its token has moved on.
TimerFires ==
  /\ timer # NoThread
  /\ timer' = NoThread
  /\ pending' = IF timer.token = token
                THEN pending \cup {[kind |-> "poll", token |-> token,
                                    thread |-> timer.thread]}
                ELSE pending
  /\ UNCHANGED <<server, saved, listed, token, screen, run, deleting, focus>>

\* Mutant: a failed run is polled on.
PollOn(q) ==
  /\ q.kind = "poll"
  /\ q.token = token
  /\ Told(q.thread) # "none"
  /\ IF Told(q.thread) = "done"
     THEN /\ pending' = (pending \ {q}) \cup {[q EXCEPT !.kind = "poll_report"]}
          /\ UNCHANGED <<phase, timer>>
     ELSE /\ pending' = pending \ {q}
          /\ phase' = PhaseOf(Told(q.thread))
          /\ timer' = [token |-> token, thread |-> q.thread]
  /\ UNCHANGED <<server, saved, listed, token, thread, report, shown, results, run,
                 deleting, focus>>

\* The poll's answer: load the report, give up, or go on.
PollAnswer(q) ==
  /\ q.kind = "poll"
  /\ q.token = token
  /\ \/ /\ Told(q.thread) = "done"
        /\ pending' = (pending \ {q}) \cup {[q EXCEPT !.kind = "poll_report"]}
        /\ UNCHANGED <<phase, timer>>
     \/ /\ Told(q.thread) = "failed"
        /\ pending' = pending \ {q}
        /\ phase' = "idle"
        /\ UNCHANGED timer
     \/ /\ Told(q.thread) \in InFlight \cup {"clarifying"}
        /\ pending' = pending \ {q}
        /\ phase' = PhaseOf(Told(q.thread))
        /\ timer' = [token |-> token, thread |-> q.thread]
  /\ UNCHANGED <<server, saved, listed, token, thread, report, shown, results, run,
                 deleting, focus>>

----------------------------------------------------------------------------
UserStep ==
  \/ \E th \in Threads : SelectSession(th) \/ Delete(th)
  \/ \E r \in Runs : Start(r)
  \/ ResetAll

RunStep(r) ==
  \/ Accepted(r) \/ StreamEvent(r) \/ StreamTerminal(r)
  \/ StreamEnds(r) \/ StreamBreaks(r)

Answer(q) == Stale(q) \/ Raises(q) \/ Report(q) \/ Status(q) \/ PollAnswer(q)

Next ==
  \/ UserStep
  \/ RefreshList
  \/ \E th \in Threads : Advance(th) \/ Save(th)
  \/ \E d \in deleting : DeleteApplies(d) \/ DeleteRefused(d) \/ DeleteReturns(d)
  \/ \E r \in Runs : RunStep(r)
  \/ \E q \in pending : Answer(q)
  \/ TimerFires

Spec == Init /\ [][Next]_vars

\* Requests are answered or fail, and timers fire; nothing else must happen.
FairSpec ==
  /\ Spec
  /\ WF_vars(TimerFires)
  /\ \A q \in Request : WF_vars(q \in pending /\ Answer(q))

----------------------------------------------------------------------------
(* Properties.                                                             *)

\* Whatever answers arrive late, the thread, the report, the steps and the
\* sources on the screen are those of the session the user opened last.
ScreenShowsFocus ==
  /\ thread \in {NoThread, focus}
  /\ report \in {NoThread, focus}
  /\ shown \subseteq {focus}

Drivers ==
  {r \in Runs : run[r].state \in {"sent", "open", "closing"} /\ Current(r)}
  \cup {q \in pending : q.token = token}
  \cup {p \in {timer} : p # NoThread /\ p.token = token}

\* At most one of the stream, the requests and the poll still acts for the
\* screen: a poll never runs beside a stream or beside another poll.
SingleDriver == Cardinality(Drivers) <= 1

\* "Research complete" comes with the report of the session on the screen,
\* except while the next session is being fetched.
CompleteShowsReport ==
  phase = "complete" /\ (\A q \in pending : q.token # token) => report = focus

\* What the poll asks about has come to an end, or is unknown.
Over(th) == Told(th) \in {"done", "failed", "none"}

Polling(th) ==
  \/ timer # NoThread /\ timer.thread = th /\ timer.token = token
  \/ \E q \in pending : q.thread = th /\ q.token = token /\ q.kind # "report"

\* The poll stops once the status of its thread reads as done, failed or
\* unknown, also when the thread is deleted meanwhile, unless a further turn
\* makes it read otherwise.  It does not stop for a deleted thread whose
\* checkpoint reads as running or clarifying: the code polls that one until
\* the user leaves it.
PollStops == \A th \in Threads : Polling(th) /\ Over(th) ~> ~Polling(th) \/ ~Over(th)

\* A run whose stream finishes after the user has left it does not touch
\* the screen: sendMessage returns null and the caller drops the result.
DroppedResultLeavesScreen ==
  [][\A r \in Runs : run[r].state = "closing" /\ run'[r].state = "over" /\ ~Current(r)
       => UNCHANGED screen]_vars

\* A screen that says "Researching..." has something that will end it.
RunningIsServed == phase = "running" => Drivers # {}
=============================================================================
