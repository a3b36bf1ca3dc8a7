-------------------------- MODULE SessionLifecycle --------------------------
(***************************************************************************)
(* What a research session promises its readers (the sidebar, the polling  *)
(* client), whatever happens between the API, the broker and the worker:   *)
(* a turn takes its thread from queued to a question, or through running   *)
(* to a report, and may fail at any time; a settled session may be queued  *)
(* again by a follow-up turn or be deleted; nothing else changes it.       *)
(*                                                                         *)
(* `busy` holds the threads with an unfinished turn: only such a thread    *)
(* changes status, except for a delete.                                    *)
(***************************************************************************)
CONSTANTS Threads

VARIABLES status, busy
vars == <<status, busy>>

Settled  == {"done", "clarifying", "failed"}
Statuses == Settled \cup {"queued", "running"}

Init ==
  /\ status = [th \in Threads |-> "absent"]
  /\ busy = {}

\* SessionLifecycle's only way to change a status: from one of a set to s.
Change(th, from, s) ==
  /\ status[th] \in from
  /\ status' = [status EXCEPT ![th] = s]

Open(th) ==
  /\ th \notin busy
  /\ busy' = busy \cup {th}
  /\ UNCHANGED status

Close(th) ==
  /\ busy' = busy \ {th}
  /\ UNCHANGED status

Enqueue(th) == th \in busy /\ Change(th, Statuses \cup {"absent"}, "queued") /\ UNCHANGED busy
Run(th)     == th \in busy /\ Change(th, {"queued"}, "running") /\ UNCHANGED busy
Ask(th)     == th \in busy /\ Change(th, {"queued"}, "clarifying") /\ UNCHANGED busy
Report(th)  == th \in busy /\ Change(th, {"running"}, "done") /\ UNCHANGED busy

\* A turn may fail after it settled: its outcome could not be delivered.
Fail(th) ==
  /\ th \in busy
  /\ Change(th, Statuses, "failed")
  /\ busy' \in {busy, busy \ {th}}

Delete(th) == Change(th, Settled, "absent") /\ UNCHANGED busy

Next ==
  \E th \in Threads :
    \/ Open(th) \/ Close(th) \/ Enqueue(th) \/ Run(th) \/ Ask(th)
    \/ Report(th) \/ Fail(th) \/ Delete(th)

Spec == Init /\ [][Next]_vars
=============================================================================
