------------------------- MODULE ResearchPageProofs -------------------------
(***************************************************************************)
(* Proofs about the research page, for any number of sessions, runs and    *)
(* changes of the screen: what is on the screen belongs to the session     *)
(* that the user opened last, one source drives it at most, and a finished *)
(* research shows its report.                                              *)
(*                                                                         *)
(* The argument is the one the code makes with selectionTokenRef: a stream,*)
(* a request or a timer acts for the screen only while the token it took   *)
(* is the page's, no token is ahead of the page's, and whoever bumps it    *)
(* starts one source at most, for the thread that the page then shows.     *)
(***************************************************************************)
EXTENDS ResearchPage, FiniteSetTheorems, TLAPS

\* A run whose stream is on and whose callbacks the page still listens to.
Acting(r) == run[r].state \in {"sent", "open", "closing"} /\ Current(r)
Ticking == timer # NoThread /\ timer.token = token

\* No source has a token that the page has yet to reach; a run that was
\* sent has its thread.
Past ==
  /\ \A r \in Runs : run[r].token <= token /\ run[r].from \in {"idle", "clarifying"}
  /\ \A r \in Runs : run[r].state # "new" => run[r].thread \in Threads
  /\ \A q \in pending : q.token <= token
  /\ timer # NoThread => timer.token <= token

\* Whatever acts for the screen works on the thread in focus.
Focused ==
  /\ ScreenShowsFocus
  /\ \A r \in Runs : Acting(r) => run[r].thread = focus
  /\ \A q \in pending : q.token = token => q.thread = focus
  /\ Ticking => timer.thread = focus

\* One source at most acts for the screen.
Alone ==
  /\ \A r, s \in Runs : Acting(r) /\ Acting(s) => r = s
  /\ \A p, q \in pending : p.token = token /\ q.token = token => p = q
  /\ \A r \in Runs, q \in pending : ~(Acting(r) /\ q.token = token)
  /\ Ticking => (\A r \in Runs : ~Acting(r)) /\ (\A q \in pending : q.token # token)

\* The report is there before its stream is over.
Completed ==
  /\ CompleteShowsReport
  /\ \A r \in Runs : Acting(r) /\ run[r].state = "closing" /\ run[r].terminal = "done" => report = focus

PInv == TypeOK /\ Past /\ Focused /\ Alone /\ Completed

LEMMA InitPInv == Init => PInv
<1> SUFFICES ASSUME Init PROVE PInv
  OBVIOUS
<1>1. \A r \in Runs : run[r] = [state |-> "new", token |-> 0, thread |-> NoThread,
                                from |-> "idle", terminal |-> "none"]
  BY DEF Init
<1>2. TypeOK
  BY ResearchPageAssumption DEF Init, TypeOK, Threads, Maybe, Call, Phases, Statuses, InFlight, Listing
<1>3. QED
  BY <1>1, <1>2 DEF Init, PInv, Past, Focused, Alone, Completed, ScreenShowsFocus, CompleteShowsReport,
       Acting, Ticking, Current

----------------------------------------------------------------------------
(* Steps that change neither the token nor a source.                       *)

LEMMA ServerSteps ==
  ASSUME PInv, \/ \E th \in Threads : Advance(th) \/ Save(th) \/ Delete(th)
               \/ RefreshList \/ UNCHANGED vars
               \/ \E d \in deleting : DeleteApplies(d) \/ DeleteRefused(d)
  PROVE  PInv'
<1>1. UNCHANGED <<token, thread, phase, report, shown, results, run, pending, timer, focus>>
  BY DEF Advance, Save, Delete, RefreshList, vars, screen, DeleteApplies, DeleteRefused
<1>2. TypeOK'
  <2>1. CASE \E th \in Threads : Advance(th)
    <3>1. PICK th \in Threads, status \in Statuses :
            server' = [server EXCEPT ![th] = status] /\ UNCHANGED <<saved, listed, deleting>>
      BY <2>1 DEF Advance, Follows, Statuses, InFlight
    <3>2. QED
      BY <1>1, <3>1 DEF PInv, TypeOK
  <2>2. CASE \E th \in Threads : Save(th)
    <3>1. PICK th \in Threads, reading \in Readings :
            saved' = [saved EXCEPT ![th] = reading] /\ UNCHANGED <<server, listed, deleting>>
      BY <2>2 DEF Save, Reads, Readings, InFlight
    <3>2. QED
      BY <1>1, <3>1 DEF PInv, TypeOK
  <2>3. CASE RefreshList
    BY <1>1, <2>3 DEF PInv, TypeOK, RefreshList, Listing
  <2>4. CASE \E d \in deleting : DeleteApplies(d)
    <3>1. PICK d \in deleting :
            /\ server' = [server EXCEPT ![d.thread] = "absent"]
            /\ deleting' = (deleting \ {d}) \cup {[d EXCEPT !.at = "applied"]}
            /\ UNCHANGED <<saved, listed>>
      BY <2>4 DEF DeleteApplies
    <3>2. [d EXCEPT !.at = "applied"] \in [thread : Threads, seen : Maybe(Threads), at : {"sent", "applied"}]
      BY DEF PInv, TypeOK
    <3>3. QED
      BY <1>1, <3>1, <3>2 DEF PInv, TypeOK
  <2>5. CASE \/ \E th \in Threads : Delete(th)
             \/ UNCHANGED vars
             \/ \E d \in deleting : DeleteRefused(d)
    BY <2>5 DEF PInv, TypeOK, Delete, vars, screen, DeleteRefused, Maybe
  <2>6. QED
    BY <2>1, <2>2, <2>3, <2>4, <2>5
<1>3. QED
  BY <1>1, <1>2 DEF PInv, Past, Focused, Alone, Completed, ScreenShowsFocus, CompleteShowsReport,
       Acting, Ticking, Current

----------------------------------------------------------------------------
(* Steps that bump the token: what acted for the screen no longer does.    *)

LEMMA Bumped ==
  ASSUME PInv, token' = token + 1
  PROVE  /\ \A r \in Runs : run[r].token # token' /\ run[r].token <= token'
         /\ \A q \in pending : q.token # token' /\ q.token <= token'
<1>1. token \in Nat /\ \A r \in Runs : run[r].token \in Nat
  BY ResearchPageAssumption DEF PInv, TypeOK, Call
<1>2. \A q \in pending : q.token \in Nat
  BY ResearchPageAssumption DEF PInv, TypeOK, Request
<1>3. QED
  BY <1>1, <1>2 DEF PInv, Past

LEMMA SelectStep ==
  ASSUME PInv, NEW th \in Threads, SelectSession(th)
  PROVE  PInv'
<1> DEFINE q0 == [kind |-> IF listed[th] = "done" THEN "report" ELSE "status",
                  token |-> token + 1, thread |-> th]
<1>1. /\ token' = token + 1 /\ token + 1 \in 0..MaxToken
      /\ thread' = th /\ focus' = th /\ report' = NoThread /\ shown' = {} /\ results' = {}
      /\ timer' = NoThread /\ pending' = pending \cup {q0}
      /\ UNCHANGED <<server, saved, listed, phase, run, deleting>>
  BY ResearchPageAssumption DEF SelectSession, NextToken, ClearScreen, PInv, TypeOK
<1>2. /\ \A r \in Runs : run[r].token # token' /\ run[r].token <= token'
      /\ \A q \in pending : q.token # token' /\ q.token <= token'
  BY <1>1, Bumped
<1>3. q0 \in Request /\ q0.token = token' /\ q0.thread = th
  BY <1>1 DEF Request
<1> HIDE DEF q0
<1>4. TypeOK'
  BY <1>1, <1>3 DEF PInv, TypeOK, Maybe
<1>5. \A q \in pending' : q.token <= token' /\ (q.token = token' => q = q0)
  BY <1>1, <1>2, <1>3, ResearchPageAssumption DEF PInv, TypeOK
<1>6. \A r \in Runs : ~Acting(r)'
  BY <1>1, <1>2 DEF Acting, Current
<1>7. q0 \in pending' /\ ~Ticking'
  BY <1>1 DEF Ticking
<1>8. Past'
  BY <1>1, <1>2, <1>5 DEF PInv, Past
<1>9. Focused' /\ Alone'
  BY <1>1, <1>3, <1>5, <1>6, <1>7 DEF Focused, Alone, ScreenShowsFocus
<1>10. Completed'
  BY <1>3, <1>6, <1>7 DEF Completed, CompleteShowsReport
<1>11. QED
  BY <1>4, <1>8, <1>9, <1>10 DEF PInv

LEMMA StartStep ==
  ASSUME PInv, NEW r \in Runs, Start(r)
  PROVE  PInv'
<1> DEFINE th == IF thread = NoThread THEN r ELSE thread
           call == [state |-> "sent", token |-> token + 1, thread |-> th, from |-> phase, terminal |-> "none"]
<1>1. /\ token' = token + 1 /\ token + 1 \in 0..MaxToken
      /\ phase \in {"idle", "clarifying"} /\ phase' = "running"
      /\ focus' = th /\ report' = NoThread /\ shown' = {} /\ timer' = NoThread
      /\ run' = [run EXCEPT ![r] = call]
      /\ UNCHANGED <<server, saved, listed, thread, results, pending, deleting>>
  BY ResearchPageAssumption DEF Start, NextToken, PInv, TypeOK
<1>2. /\ \A s \in Runs : run[s].token # token' /\ run[s].token <= token'
      /\ \A q \in pending : q.token # token' /\ q.token <= token'
  BY <1>1, Bumped
<1>3. th \in Threads /\ thread \in {NoThread, th}
  BY DEF PInv, TypeOK, Threads, Maybe
<1>4. call \in Call /\ call.token = token' /\ call.thread = th /\ call.from = phase /\ call.state = "sent"
  BY <1>1, <1>3 DEF Call, Maybe, Phases
<1> HIDE DEF call, th
<1>5. run \in [Runs -> Call]
  BY DEF PInv, TypeOK
<1>6. run'[r] = call /\ \A s \in Runs \ {r} : run'[s] = run[s]
  BY <1>1, <1>5
<1>7. TypeOK'
  BY <1>1, <1>3, <1>4 DEF PInv, TypeOK, Maybe, Phases
<1>8. token' <= token' /\ \A s \in Runs : run'[s].token <= token' /\ run'[s].from \in {"idle", "clarifying"}
  BY <1>1, <1>2, <1>4, <1>6, ResearchPageAssumption DEF PInv, Past, TypeOK
<1>9. \A s \in Runs : Acting(s)' => s = r
  BY <1>2, <1>6 DEF Acting, Current
<1>10. Past'
  BY <1>1, <1>2, <1>3, <1>4, <1>6, <1>8 DEF PInv, Past
<1>11. Focused' /\ Alone'
  BY <1>1, <1>2, <1>3, <1>4, <1>6, <1>9 DEF Focused, Alone, ScreenShowsFocus, Ticking
<1>12. Completed'
  BY <1>1, <1>4, <1>6, <1>9 DEF Completed, CompleteShowsReport
<1>13. QED
  BY <1>7, <1>10, <1>11, <1>12 DEF PInv

\* New research, or the deleted session was on the screen.
LEMMA ResetStep ==
  ASSUME PInv, \/ ResetAll
               \/ \E d \in deleting : DeleteReturns(d)
  PROVE  PInv'
<1>1. UNCHANGED <<run, pending>>
  BY DEF ResetAll, DeleteReturns
<1>2. CASE /\ token' = token + 1 /\ token < MaxToken
           /\ thread' = NoThread /\ focus' = NoThread /\ phase' = "idle"
           /\ report' = NoThread /\ shown' = {} /\ results' = {} /\ timer' = NoThread
  <2>1. /\ \A r \in Runs : run[r].token # token' /\ run[r].token <= token'
        /\ \A q \in pending : q.token # token' /\ q.token <= token'
    BY <1>2, Bumped
  <2>2. TypeOK'
    BY <1>1, <1>2, ResearchPageAssumption
       DEF PInv, TypeOK, Maybe, Phases, ResetAll, DeleteReturns, Statuses
  <2>3. Past' /\ Focused' /\ Alone' /\ Completed'
    BY <1>1, <1>2, <2>1 DEF PInv, Past, Focused, Alone, Completed, ScreenShowsFocus, CompleteShowsReport,
         Acting, Ticking, Current
  <2>4. QED
    BY <2>2, <2>3 DEF PInv
<1>3. CASE UNCHANGED <<token, screen, timer, focus>>
  <2>1. TypeOK'
    BY <1>1, <1>3, ResearchPageAssumption DEF PInv, TypeOK, screen, ResetAll, DeleteReturns, NextToken, Statuses
  <2>2. QED
    BY <1>1, <1>3, <2>1 DEF PInv, Past, Focused, Alone, Completed, ScreenShowsFocus, CompleteShowsReport,
         Acting, Ticking, Current, screen
<1>4. QED
  BY <1>2, <1>3 DEF ResetAll, DeleteReturns, NextToken, ClearScreen

----------------------------------------------------------------------------
(* The streams.                                                            *)

\* A run goes on: it acts for the screen only if it did before.
LEMMA RunGoesOn ==
  ASSUME PInv, NEW r \in Runs, NEW c \in Call,
         run[r].state \in {"sent", "open", "closing"},
         c.token = run[r].token, c.thread = run[r].thread, c.from = run[r].from,
         run' = [run EXCEPT ![r] = c],
         UNCHANGED <<token, pending, timer, focus>>
  PROVE  /\ run' \in [Runs -> Call] /\ Past' /\ Alone'
         /\ run'[r] = c /\ \A s \in Runs \ {r} : run'[s] = run[s]
         /\ \A s \in Runs : Acting(s)' => Acting(s) /\ run'[s].thread = focus
<1>1. run \in [Runs -> Call]
  BY DEF PInv, TypeOK
<1>2. run'[r] = c /\ (\A s \in Runs \ {r} : run'[s] = run[s]) /\ run' \in [Runs -> Call]
  BY <1>1
<1>3. \A s \in Runs : Acting(s)' => Acting(s)
  BY <1>2 DEF Acting, Current
<1>4. \A s \in Runs : run'[s].token = run[s].token /\ run'[s].from = run[s].from /\ run'[s].thread = run[s].thread
  BY <1>2
<1>5. QED
  BY <1>2, <1>3, <1>4 DEF PInv, Past, Alone, Focused, Ticking

LEMMA RunSteps ==
  ASSUME PInv, NEW r \in Runs, RunStep(r)
  PROVE  PInv'
<1>1. run \in [Runs -> Call] /\ run[r] \in Call /\ run[r].from \in {"idle", "clarifying"}
  BY DEF PInv, TypeOK, Past
<1>2. CASE Accepted(r)
  <2> DEFINE c == [run[r] EXCEPT !.state = "open"]
  <2>1. /\ run' = [run EXCEPT ![r] = c] /\ run[r].state = "sent"
        /\ server' = [server EXCEPT ![run[r].thread] = "queued"]
        /\ UNCHANGED <<saved, listed, token, screen, pending, timer, deleting, focus>>
    BY <1>2, Zenon DEF Accepted, SetRun
  <2>2. c \in Call /\ c.token = run[r].token /\ c.thread = run[r].thread /\ c.from = run[r].from /\ c.state = "open"
    BY <1>1 DEF Call
  <2> HIDE DEF c
  <2>3. /\ run' \in [Runs -> Call] /\ Past' /\ Alone'
        /\ run'[r] = c /\ \A s \in Runs \ {r} : run'[s] = run[s]
        /\ \A s \in Runs : Acting(s)' => Acting(s) /\ run'[s].thread = focus
    BY <2>1, <2>2, RunGoesOn
  <2>4. TypeOK'
    BY <2>1, <2>3 DEF PInv, TypeOK, screen, Statuses, InFlight
  <2>5. Focused' /\ Completed'
    BY <2>1, <2>2, <2>3
       DEF PInv, Focused, Completed, ScreenShowsFocus, CompleteShowsReport, screen, Ticking
  <2>6. QED
    BY <2>3, <2>4, <2>5 DEF PInv
<1>3. CASE StreamEvent(r)
  <2>1. /\ Acting(r) /\ shown' = shown \cup {run[r].thread}
        /\ UNCHANGED <<server, saved, listed, token, thread, phase, report, results, run,
                       pending, timer, deleting, focus>>
    BY <1>3 DEF StreamEvent, Acting
  <2>2. run[r].thread = focus
    BY <2>1 DEF PInv, Focused
  <2>3. shown' \subseteq {focus} /\ shown' \subseteq Threads
    BY <2>1, <2>2 DEF PInv, Past, Focused, ScreenShowsFocus, TypeOK, Acting
  <2>4. QED
    BY <2>1, <2>3 DEF PInv, TypeOK, Past, Focused, Alone, Completed, ScreenShowsFocus, CompleteShowsReport,
         Acting, Ticking, Current
<1>4. CASE StreamTerminal(r)
  <2>1. PICK type \in {"error", "done", "clarify"} :
          /\ run[r].state = "open"
          /\ IF Current(r)
             THEN /\ run' = [run EXCEPT ![r].state = "closing", ![r].terminal = type]
                  /\ thread' = run[r].thread
                  /\ report' = IF type = "done" THEN run[r].thread ELSE report
             ELSE /\ SetRun(r, "closing")
                  /\ UNCHANGED <<thread, report>>
          /\ UNCHANGED <<server, saved, listed, token, phase, shown, results, pending, timer, deleting, focus>>
    BY <1>4 DEF StreamTerminal, TerminalOf
  <2>2. CASE Current(r)
    <3> DEFINE c == [run[r] EXCEPT !.state = "closing", !.terminal = type]
    <3>1. run' = [run EXCEPT ![r] = c]
      BY <1>1, <2>1, <2>2
    <3>2. /\ c \in Call /\ c.token = run[r].token /\ c.thread = run[r].thread /\ c.from = run[r].from
          /\ c.state = "closing" /\ c.terminal = type
      BY <1>1 DEF Call
    <3> HIDE DEF c
    <3>3. /\ run' \in [Runs -> Call] /\ Past' /\ Alone'
          /\ run'[r] = c /\ \A s \in Runs \ {r} : run'[s] = run[s]
          /\ \A s \in Runs : Acting(s)' => Acting(s) /\ run'[s].thread = focus
      BY <2>1, <3>1, <3>2, RunGoesOn
    <3>4. Acting(r) /\ run[r].thread = focus
      BY <2>1, <2>2 DEF PInv, Focused, Acting
    <3>5. /\ thread' = focus /\ report' \in {report, focus}
          /\ type = "done" => report' = focus
          /\ run[r].thread \in Maybe(Threads)
      BY <1>1, <2>1, <2>2, <3>4 DEF Call
    <3>6. TypeOK'
      BY <2>1, <3>3, <3>4, <3>5 DEF PInv, TypeOK
    <3>7. Focused'
      BY <2>1, <3>3, <3>5 DEF PInv, Focused, ScreenShowsFocus, Ticking
    <3>8. CompleteShowsReport'
      BY <2>1, <3>5 DEF PInv, Completed, CompleteShowsReport
    <3>9. \A s \in Runs : Acting(s)' /\ run'[s].state = "closing" /\ run'[s].terminal = "done" => report' = focus'
      BY <2>1, <3>2, <3>3, <3>5 DEF PInv, Completed
    <3>10. QED
      BY <3>3, <3>6, <3>7, <3>8, <3>9 DEF PInv, Completed
  <2>3. CASE ~Current(r)
    <3> DEFINE c == [run[r] EXCEPT !.state = "closing"]
    <3>1. run' = [run EXCEPT ![r] = c] /\ UNCHANGED <<thread, report>>
      BY <2>1, <2>3, Zenon DEF SetRun
    <3>2. c \in Call /\ c.token = run[r].token /\ c.thread = run[r].thread /\ c.from = run[r].from
      BY <1>1 DEF Call
    <3> HIDE DEF c
    <3>3. /\ run' \in [Runs -> Call] /\ Past' /\ Alone'
          /\ run'[r] = c /\ \A s \in Runs \ {r} : run'[s] = run[s]
          /\ \A s \in Runs : Acting(s)' => Acting(s) /\ run'[s].thread = focus
      BY <2>1, <3>1, <3>2, RunGoesOn
    <3>4. \A s \in Runs : Acting(s)' => s # r
      BY <2>3, <3>3 DEF Acting
    <3>5. QED
      BY <2>1, <3>1, <3>3, <3>4
         DEF PInv, TypeOK, Focused, Completed, ScreenShowsFocus, CompleteShowsReport, Ticking
  <2>4. QED
    BY <2>2, <2>3
<1>5. CASE StreamBreaks(r) \/ StreamEnds(r)
  <2> DEFINE c == [run[r] EXCEPT !.state = "over"]
  <2>1. /\ run' = [run EXCEPT ![r] = c] /\ run[r].state \in {"sent", "open", "closing"}
        /\ UNCHANGED <<server, saved, listed, token, thread, report, shown, pending, timer, deleting, focus>>
        /\ results' \in {results, results \cup {r}}
    BY <1>5, Zenon DEF StreamBreaks, StreamEnds, Catch, SetRun
  <2>2. /\ c \in Call /\ c.token = run[r].token /\ c.thread = run[r].thread /\ c.from = run[r].from
        /\ c.state = "over"
    BY <1>1 DEF Call
  <2> HIDE DEF c
  <2>3. /\ run' \in [Runs -> Call] /\ Past' /\ Alone'
        /\ run'[r] = c /\ \A s \in Runs \ {r} : run'[s] = run[s]
        /\ \A s \in Runs : Acting(s)' => Acting(s) /\ run'[s].thread = focus
    BY <2>1, <2>2, RunGoesOn
  <2>4. \A s \in Runs : Acting(s)' => s # r
    BY <2>2, <2>3 DEF Acting
  \* "complete" is what a current run's "done" makes of the phase.
  <2>5. phase' \in {"idle", "clarifying", phase} \/ (phase' = "complete" /\ report = focus)
    <3>1. run[r].state = "closing" /\ run[r].terminal = "done" /\ Current(r) => report = focus
      BY DEF PInv, Completed, Acting
    <3>2. CASE PhaseAfter(r) = phase' /\ Current(r) /\ run[r].state = "closing"
      BY <1>1, <3>1, <3>2 DEF PhaseAfter
    <3>3. CASE phase' \in {phase, run[r].from}
      BY <1>1, <3>3
    <3>4. QED
      BY <1>5, <3>2, <3>3 DEF StreamBreaks, StreamEnds, Catch
  <2>6. TypeOK'
    BY <2>1, <2>3, <2>5 DEF PInv, TypeOK, Phases
  <2>7. Focused' /\ Completed'
    BY <2>1, <2>3, <2>4, <2>5 DEF PInv, Focused, Completed, ScreenShowsFocus, CompleteShowsReport, Ticking
  <2>8. QED
    BY <2>3, <2>6, <2>7 DEF PInv
<1>6. QED
  BY <1>2, <1>3, <1>4, <1>5 DEF RunStep

----------------------------------------------------------------------------
(* The requests and the poll.                                              *)

\* An answer that the page takes leaves at most one source in its place: the
\* next request or the next poll, for the same thread.
LEMMA AnswerGoesOn ==
  ASSUME PInv, NEW q \in pending, q.token = token,
         UNCHANGED <<token, run, focus, thread>>,
         NEW more, more \subseteq Request, pending' = (pending \ {q}) \cup more,
         \A p \in more : p.token = token /\ p.thread = q.thread,
         \A p1, p2 \in more : p1 = p2,
         timer' = timer \/ (more = {} /\ timer' = [token |-> token, thread |-> q.thread]),
         report' \in {report, q.thread}, shown' \in {shown, {q.thread}}
  PROVE  /\ pending' \subseteq Request /\ timer' \in Maybe(Poll)
         /\ q.thread = focus /\ focus \in Threads
         /\ Past' /\ Focused' /\ Alone'
         /\ \A r \in Runs : ~Acting(r)'
         /\ \A p \in pending' : p.token = token => p \in more
<1>1. /\ q \in Request /\ pending \subseteq Request /\ token \in 0..MaxToken /\ timer \in Maybe(Poll)
      /\ token \in Nat
  BY ResearchPageAssumption DEF PInv, TypeOK
<1>2. q.thread = focus /\ focus \in Threads
  BY <1>1 DEF PInv, Focused, Request
<1>3. (\A r \in Runs : ~Acting(r)) /\ ~Ticking /\ \A p \in pending : p.token = token => p = q
  BY DEF PInv, Alone
<1>4. \A r \in Runs : ~Acting(r)'
  BY <1>3 DEF Acting, Current
<1>5. \A p \in pending' : p.token = token => p \in more
  BY <1>3
<1>6. pending' \subseteq Request
  BY <1>1
<1>7. timer' \in Maybe(Poll)
  BY <1>1, <1>2 DEF Maybe, Poll
<1>8. \A p \in pending' : p.token <= token'
  BY <1>1 DEF PInv, Past
<1>9. timer' # NoThread => timer'.token <= token'
  BY <1>1 DEF PInv, Past
<1>10. Past'
  BY <1>8, <1>9 DEF PInv, Past
<1>11. Ticking' => timer'.thread = focus /\ more = {}
  BY <1>2, <1>3 DEF Ticking
<1>12. ScreenShowsFocus'
  BY <1>2 DEF PInv, Focused, ScreenShowsFocus
<1>13. Focused'
  BY <1>2, <1>4, <1>5, <1>11, <1>12 DEF Focused
<1>14. Alone'
  BY <1>4, <1>5, <1>11 DEF Alone
<1>15. QED
  BY <1>2, <1>4, <1>5, <1>6, <1>7, <1>10, <1>13, <1>14

LEMMA AnswerSteps ==
  ASSUME PInv, NEW q \in pending, Answer(q)
  PROVE  PInv'
<1>1. q \in Request /\ token \in 0..MaxToken
  BY DEF PInv, TypeOK
<1>2. CASE Stale(q)
  <2>1. /\ q.token # token /\ pending' = pending \ {q}
        /\ UNCHANGED <<server, saved, listed, token, thread, phase, report, shown, results, run, timer, deleting, focus>>
    BY <1>2 DEF Stale, screen
  <2>2. TypeOK' /\ Past' /\ Focused' /\ Alone'
    BY <2>1 DEF PInv, TypeOK, Past, Focused, Alone, ScreenShowsFocus, Acting, Ticking, Current
  <2>3. Completed'
    BY <2>1 DEF PInv, Completed, CompleteShowsReport, Acting, Current
  <2>4. QED
    BY <2>2, <2>3 DEF PInv
\* Every other answer is one that the page takes.
<1>3. ASSUME q.token = token, NEW more \in SUBSET Request, pending' = (pending \ {q}) \cup more,
             \A p \in more : p.token = token /\ p.thread = q.thread,
             \A p1, p2 \in more : p1 = p2,
             timer' = timer \/ (more = {} /\ timer' = [token |-> token, thread |-> q.thread]),
             report' \in {report, q.thread}, shown' \in {shown, {q.thread}},
             phase' \in Phases,
             phase' = "complete" => more # {} \/ report' = q.thread,
             UNCHANGED <<server, saved, listed, token, thread, results, run, deleting, focus>>
      PROVE  PInv'
  <2>1. /\ pending' \subseteq Request /\ timer' \in Maybe(Poll)
        /\ q.thread = focus /\ focus \in Threads
        /\ Past' /\ Focused' /\ Alone'
        /\ \A r \in Runs : ~Acting(r)'
    BY <1>3, AnswerGoesOn
  <2>2. TypeOK'
    BY <1>3, <2>1 DEF PInv, TypeOK, Maybe
  <2>3. Completed'
    BY <1>3, <2>1 DEF Completed, CompleteShowsReport
  <2>4. QED
    BY <2>1, <2>2, <2>3 DEF PInv
<1>4. CASE Raises(q)
  <2>1. /\ q.token = token /\ pending' = (pending \ {q}) \cup {} /\ phase' = "idle" /\ timer' = timer
        /\ report' = report /\ shown' = shown
        /\ UNCHANGED <<server, saved, listed, token, thread, results, run, deleting, focus>>
    BY <1>4 DEF Raises
  <2>2. {} \in SUBSET Request /\ "idle" \in Phases
    BY DEF Phases
  <2>3. QED
    BY <1>3, <2>1, <2>2
<1>5. CASE Report(q)
  <2>1. /\ q.token = token /\ pending' = (pending \ {q}) \cup {} /\ phase' = "complete" /\ timer' = timer
        /\ report' = q.thread /\ shown' = {q.thread}
        /\ UNCHANGED <<server, saved, listed, token, thread, results, run, deleting, focus>>
    BY <1>5 DEF Report
  <2>2. {} \in SUBSET Request /\ "complete" \in Phases
    BY DEF Phases
  <2>3. QED
    BY <1>3, <2>1, <2>2
<1>6. CASE Status(q)
  <2>1. /\ q.token = token /\ pending' = (pending \ {q}) \cup {} /\ phase' \in {"clarifying", "running"}
        /\ timer' = timer \/ timer' = [token |-> token, thread |-> q.thread]
        /\ report' = report /\ shown' = shown
        /\ UNCHANGED <<server, saved, listed, token, thread, results, run, deleting, focus>>
    BY <1>6 DEF Status, PhaseOf
  <2>2. {} \in SUBSET Request /\ phase' \in Phases /\ phase' # "complete"
    BY <2>1 DEF Phases
  <2>3. QED
    BY <1>3, <2>1, <2>2
<1>7. CASE PollAnswer(q)
  <2>1. /\ q.token = token /\ report' = report /\ shown' = shown
        /\ UNCHANGED <<server, saved, listed, token, thread, results, run, deleting, focus>>
    BY <1>7 DEF PollAnswer
  <2>2. CASE Told(q.thread) = "done"
    <3> DEFINE p == [q EXCEPT !.kind = "poll_report"]
    <3>1. pending' = (pending \ {q}) \cup {p} /\ UNCHANGED <<phase, timer>>
      BY <1>7, <2>2 DEF PollAnswer, InFlight
    <3>2. p \in Request /\ p.token = q.token /\ p.thread = q.thread
      BY <1>1 DEF Request
    <3> HIDE DEF p
    <3>3. {p} \in SUBSET Request /\ phase' \in Phases /\ {p} # {}
      BY <3>1, <3>2 DEF PInv, TypeOK
    <3>4. QED
      BY <1>3, <2>1, <3>1, <3>2, <3>3
  <2>3. CASE Told(q.thread) # "done"
    <3>1. /\ pending' = (pending \ {q}) \cup {} /\ phase' \in {"idle", "clarifying", "running"}
          /\ timer' = timer \/ timer' = [token |-> token, thread |-> q.thread]
      BY <1>7, <2>3 DEF PollAnswer, PhaseOf
    <3>2. {} \in SUBSET Request /\ phase' \in Phases /\ phase' # "complete"
      BY <3>1 DEF Phases
    <3>3. QED
      BY <1>3, <2>1, <3>1, <3>2
  <2>4. QED
    BY <2>2, <2>3
<1>8. QED
  BY <1>2, <1>4, <1>5, <1>6, <1>7 DEF Answer

LEMMA TimerStep ==
  ASSUME PInv, TimerFires
  PROVE  PInv'
<1>1. /\ timer # NoThread /\ timer' = NoThread /\ timer \in Poll /\ token \in Nat
      /\ UNCHANGED <<server, saved, listed, token, thread, phase, report, shown, results, run, deleting, focus>>
  BY ResearchPageAssumption DEF TimerFires, PInv, TypeOK, Maybe, screen
<1>2. CASE timer.token = token
  <2> DEFINE q == [kind |-> "poll", token |-> token, thread |-> timer.thread]
  <2>1. pending' = pending \cup {q} /\ q \in Request /\ q.token = token /\ q.thread = timer.thread
    BY <1>1, <1>2 DEF TimerFires, Poll, Request
  <2> HIDE DEF q
  <2>2. Ticking /\ ~Ticking'
    BY <1>1, <1>2 DEF Ticking
  <2>3. (\A r \in Runs : ~Acting(r)) /\ (\A p \in pending : p.token # token) /\ timer.thread = focus
    BY <2>2 DEF PInv, Alone, Focused
  <2>4. \A r \in Runs : ~Acting(r)'
    BY <1>1, <2>3 DEF Acting, Current
  <2>5. TypeOK'
    BY <1>1, <2>1 DEF PInv, TypeOK, Maybe
  <2>6. Past'
    BY <1>1, <2>1 DEF PInv, Past
  <2>7. Focused' /\ Alone' /\ Completed'
    BY <1>1, <2>1, <2>2, <2>3, <2>4 DEF PInv, Focused, Alone, Completed, ScreenShowsFocus, CompleteShowsReport
  <2>8. QED
    BY <2>5, <2>6, <2>7 DEF PInv
<1>3. CASE timer.token # token
  <2>1. pending' = pending /\ ~Ticking'
    BY <1>1, <1>3 DEF TimerFires, Ticking
  <2>2. QED
    BY <1>1, <2>1 DEF PInv, TypeOK, Maybe, Past, Focused, Alone, Completed, ScreenShowsFocus,
         CompleteShowsReport, Acting, Current
<1>4. QED
  BY <1>2, <1>3

----------------------------------------------------------------------------
(* The theorems.                                                           *)

LEMMA PageHolds == Spec => []PInv
<1>1. PInv /\ [Next]_vars => PInv'
  BY ServerSteps, SelectStep, StartStep, ResetStep, RunSteps, AnswerSteps, TimerStep DEF Next, UserStep
<1>2. QED
  BY <1>1, InitPInv, PTL DEF Spec

\* Every variable of the page keeps its type; no token exceeds the bound.
THEOREM PageTyping == Spec => []TypeOK
BY PageHolds, PTL DEF PInv

\* Whatever streams, requests and polls answer late, the thread, the report,
\* the steps and the sources on the screen are those of the session that the
\* user opened last.
THEOREM ScreenBelongsToFocus == Spec => []ScreenShowsFocus
<1>1. PInv => ScreenShowsFocus
  BY DEF PInv, Focused
<1>2. QED
  BY <1>1, PageHolds, PTL

\* At most one of the stream, the requests and the poll acts for the screen.
THEOREM OneSourceDrives == Spec => []SingleDriver
<1>1. PInv => SingleDriver
  <2> SUFFICES ASSUME PInv PROVE SingleDriver
    OBVIOUS
  <2>1. \A a, b \in Drivers : a = b
    BY DEF Drivers, PInv, Alone, Acting, Ticking
  <2>2. CASE Drivers = {}
    BY <2>2, FS_EmptySet DEF SingleDriver
  <2>3. CASE Drivers # {}
    <3>1. PICK d : Drivers = {d}
      BY <2>1, <2>3
    <3>2. QED
      BY <3>1, FS_Singleton DEF SingleDriver
  <2>4. QED
    BY <2>2, <2>3
<1>2. QED
  BY <1>1, PageHolds, PTL

\* A screen that says that the research is complete has its report, unless
\* the next session is still being fetched.
THEOREM CompleteHasReport == Spec => []CompleteShowsReport
<1>1. PInv => CompleteShowsReport
  BY DEF PInv, Completed
<1>2. QED
  BY <1>1, PageHolds, PTL
=============================================================================
