--------------------------- MODULE ResearchStatus ---------------------------
(***************************************************************************)
(* What a thread's poller is told while the pipeline works: the top-level  *)
(* graph (clarify, brief, supervisor, writer) over its checkpoint, turn    *)
(* after turn; the `sessions` row that ChatService writes between two      *)
(* nodes; and ResearchService.get_status, which reads the row first and,   *)
(* an await later, the checkpoint.                                         *)
(*                                                                         *)
(* The checkpoint is LangGraph's.  `mem` is the state of the running turn, *)
(* `saved` what a reader finds, which follows at its own pace, and `kept`  *)
(* the state without the last node's writes: run_turn returns as soon as   *)
(* the last node has answered, and whether the next turn starts with or    *)
(* without that node's writes depends on LangGraph's version, so either    *)
(* is allowed.                                                             *)
(*                                                                         *)
(* A session can be deleted as soon as it is neither queued nor running.   *)
(* The delete takes the row and leaves the checkpoint, so that a poll of   *)
(* the deleted thread, or a new turn of it, finds what the old one left.   *)
(*                                                                         *)
(* Data: a turn is its number, a finding, a report or a question the turn  *)
(* it is of, a section its target length.  One turn of the thread runs at  *)
(* a time; ResearchTurns has the overlapping ones.                         *)
(***************************************************************************)
EXTENDS Integers, Sequences

CONSTANTS
  MaxTurns,     \* bound on the turns of the thread
  Plans,        \* the plans the model may answer: sequences of section lengths
  MinWords, MaxWords, MaxSections,  \* Settings.report_*
  Faults        \* subset of FaultKinds

FaultKinds == {"llm", "db", "redis", "broker", "crash"}

ASSUME SettingsAssumption ==
  /\ MaxTurns \in Nat
  /\ MinWords \in Nat /\ MaxWords \in Nat /\ MinWords <= MaxWords
  /\ Plans \subseteq Seq(Int)
  /\ MaxSections \in Int
  /\ Faults \subseteq FaultKinds

VARIABLES
  row,       \* the sessions row: status, report and clarify_question
  turn,      \* turns accepted so far
  node,      \* what the turn does next; "idle" when no turn runs
  mem, saved, kept,
  sections,  \* the writer's plan, a sequence of target lengths
  parts,     \* written_parts
  poll,      \* the poller: "idle", or what it keeps of the row it read
  answer,    \* the last answer of get_status
  deleted,   \* the turn after which the row was last deleted (history)
  hurt       \* "lost": a row write failed or a worker died; "refused": Redis
             \* did not take a turn's last event (history)

cp == <<mem, saved, kept>>
draft == <<sections, parts>>
turnVars == <<row, turn, node, mem, kept, draft, deleted, hurt>>
pollVars == <<poll, answer>>
vars == <<turnVars, saved, pollVars>>

Nodes == {"idle", "queue", "start", "clarify", "ask", "brief", "supervisor",
          "running", "plan", "draft", "store", "audit", "publish", "fail"}
NoRow == [status |-> "absent", report |-> 0, question |-> 0]
NoReport == [turn |-> 0, notes |-> <<>>, parts |-> <<>>]

\* `needs` is the turn whose question waits for its answer, 0 for none.
Empty == [input |-> 0, needs |-> 0, notes |-> <<>>, report |-> NoReport]

Init ==
  /\ row = NoRow
  /\ turn = 0 /\ node = "idle"
  /\ mem = Empty /\ saved = Empty /\ kept = Empty
  /\ sections = <<>> /\ parts = <<>>
  /\ poll = [at |-> "idle"]
  /\ answer = [status |-> "none", turn |-> 0, asks |-> 0, question |-> 0]
  /\ deleted = 0 /\ hurt = {}

----------------------------------------------------------------------------
(* The turn.                                                               *)

At(n) == node = n
Goto(n) == node' = n

\* SessionStore.touch makes the row of a new thread, set_status is an
\* UPDATE: where there is no row it changes nothing.
Touched == [row EXCEPT !.status = IF @ = "absent" THEN "queued" ELSE @]
SetStatus(changed) == row' = IF row.status = "absent" THEN row ELSE changed

Touch ==
  /\ At("idle") /\ turn < MaxTurns
  /\ row' = Touched
  /\ Goto("queue")
  /\ UNCHANGED <<turn, cp, draft, pollVars, deleted, hurt>>

\* The turn is queued: from here on it is the thread's current one.
Accept ==
  /\ At("queue")
  /\ SetStatus([row EXCEPT !.status = "queued"])
  /\ turn' = turn + 1
  /\ Goto("start")
  /\ UNCHANGED <<cp, draft, pollVars, deleted, hurt>>

\* Neither queued nor running.
Settled(status) == status \in {"clarifying", "done", "failed"}

\* The request fails: its row writes do, or the broker does not take the
\* task.  mark_failed, itself best-effort, leaves a settled session alone.
RequestFails ==
  /\ \/ "db" \in Faults /\ At("queue") /\ hurt' = hurt \cup {"lost"}
     \/ "broker" \in Faults /\ At("start") /\ UNCHANGED hurt
  /\ IF Settled(row.status) THEN UNCHANGED row ELSE SetStatus([row EXCEPT !.status = "failed"])
  /\ Goto("idle")
  /\ UNCHANGED <<turn, cp, draft, pollVars, deleted>>

\* The same, and mark_failed's write fails too.
RequestLost ==
  /\ "db" \in Faults
  /\ At("queue") \/ ("broker" \in Faults /\ At("start"))
  /\ hurt' = hurt \cup {"lost"}
  /\ Goto("idle")
  /\ UNCHANGED <<row, turn, cp, draft, pollVars, deleted>>

\* The worker touches the row again; astream then loads the checkpoint and
\* adds the message of the turn.
Start ==
  /\ At("start") /\ saved = mem
  /\ row' = Touched
  /\ \E from \in {mem, kept} : mem' = [from EXCEPT !.input = turn]
  /\ Goto("clarify")
  /\ UNCHANGED <<turn, saved, kept, draft, pollVars, deleted, hurt>>

\* LangGraph's saver: what is saved catches up with the state.
Save ==
  /\ saved # mem
  /\ saved' = mem
  /\ UNCHANGED <<turnVars, pollVars>>

\* clarify_with_user, and route_after_clarify.
Clarify ==
  /\ At("clarify")
  /\ \E need \in BOOLEAN :
       /\ mem' = [mem EXCEPT !.needs = IF need THEN turn ELSE 0]
       /\ Goto(IF need THEN "ask" ELSE "brief")
  /\ kept' = mem
  /\ UNCHANGED <<row, turn, saved, draft, pollVars, deleted, hurt>>

\* Mutant: the question is recorded without its text.
AskWithoutQuestion ==
  /\ At("ask")
  /\ SetStatus([row EXCEPT !.status = "clarifying"])
  /\ Goto("audit")
  /\ UNCHANGED <<turn, cp, draft, pollVars, deleted, hurt>>

\* run_turn records the question.
Ask ==
  /\ At("ask")
  /\ SetStatus([row EXCEPT !.status = "clarifying", !.question = turn])
  /\ Goto("audit")
  /\ UNCHANGED <<turn, cp, draft, pollVars, deleted, hurt>>

Brief ==
  /\ At("brief")
  /\ kept' = mem
  /\ Goto("supervisor")
  /\ UNCHANGED <<row, turn, mem, saved, draft, pollVars, deleted, hurt>>

\* Mutant: the node returns all notes; the reducer adds them once more.
SuperviseAll ==
  /\ At("supervisor")
  /\ \E found \in {<<>>, <<turn>>} :
       mem' = [mem EXCEPT !.notes = @ \o (@ \o found)]
  /\ kept' = mem
  /\ Goto("running")
  /\ UNCHANGED <<row, turn, saved, draft, pollVars, deleted, hurt>>

\* The supervisor node returns this turn's findings, if there are any; the
\* reducer of `notes` appends them to those of the turns before.
Supervise ==
  /\ At("supervisor")
  /\ \E found \in {<<>>, <<turn>>} : mem' = [mem EXCEPT !.notes = @ \o found]
  /\ kept' = mem
  /\ Goto("running")
  /\ UNCHANGED <<row, turn, saved, draft, pollVars, deleted, hurt>>

SetRunning ==
  /\ At("running")
  /\ SetStatus([row EXCEPT !.status = "running"])
  /\ Goto("plan")
  /\ UNCHANGED <<turn, cp, draft, pollVars, deleted, hurt>>

\* The larger and the smaller of two settings.
Larger(a, b) == IF a < b THEN b ELSE a
Smaller(a, b) == IF a < b THEN a ELSE b

\* The sections to write: those planned or one for all the findings, no
\* more than the limit, and at least one whatever the limit is.
Sections(planned) ==
  LET given == IF planned = <<>> THEN <<MaxWords>> ELSE planned IN
  SubSeq(given, 1, Smaller(Len(given), Larger(1, MaxSections)))

\* The planning call; a plan that is not valid counts as an empty one.
Plan ==
  /\ At("plan")
  /\ \E planned \in Plans \cup {<<>>} : sections' = Sections(planned)
  /\ parts' = <<>>
  /\ Goto("draft")
  /\ UNCHANGED <<row, turn, mem, saved, kept, pollVars, deleted, hurt>>

\* One call per section, with its length in bounds and a hint for the last.
Part(i) ==
  [section |-> i, last |-> i = Len(sections),
   words |-> Larger(MinWords, Smaller(sections[i], MaxWords))]

\* Mutant: each draft is already shown as the report.
DraftShown ==
  /\ At("draft") /\ Len(parts) < Len(sections)
  /\ parts' = Append(parts, Part(Len(parts) + 1))
  /\ mem' = [mem EXCEPT !.report = [turn |-> turn, notes |-> mem.notes, parts |-> parts']]
  /\ UNCHANGED <<row, turn, node, saved, kept, sections, pollVars, deleted, hurt>>

Draft ==
  /\ At("draft") /\ Len(parts) < Len(sections)
  /\ parts' = Append(parts, Part(Len(parts) + 1))
  /\ UNCHANGED <<row, turn, node, mem, saved, kept, sections, pollVars, deleted, hurt>>

\* Mutant: every section's draft is returned as a report.
FinishEarly ==
  /\ At("draft") /\ parts # <<>>
  /\ mem' = [mem EXCEPT !.report = [turn |-> turn, notes |-> mem.notes, parts |-> parts]]
  /\ kept' = mem
  /\ sections' = <<>> /\ parts' = <<>>
  /\ Goto("store")
  /\ UNCHANGED <<row, turn, saved, pollVars, deleted, hurt>>

Finish ==
  /\ At("draft") /\ Len(parts) = Len(sections)
  /\ mem' = [mem EXCEPT !.report = [turn |-> turn, notes |-> mem.notes, parts |-> parts]]
  /\ kept' = mem
  /\ sections' = <<>> /\ parts' = <<>>
  /\ Goto("store")
  /\ UNCHANGED <<row, turn, saved, pollVars, deleted, hurt>>

\* Mutant: the row becomes "done" without its report.
StoreStatusOnly ==
  /\ At("store")
  /\ SetStatus([row EXCEPT !.status = "done"])
  /\ Goto("audit")
  /\ UNCHANGED <<turn, cp, draft, pollVars, deleted, hurt>>

\* run_turn stores the report in the row.
Store ==
  /\ At("store")
  /\ SetStatus([row EXCEPT !.status = "done", !.report = turn])
  /\ Goto("audit")
  /\ UNCHANGED <<turn, cp, draft, pollVars, deleted, hurt>>

\* The audit entry refers to the row: it is refused once that is deleted.
Audit ==
  /\ At("audit")
  /\ Goto(IF row.status = "absent" THEN "fail" ELSE "publish")
  /\ UNCHANGED <<row, turn, cp, draft, pollVars, deleted, hurt>>

\* The turn's last event, which ends it.
Publish ==
  /\ At("publish")
  /\ Goto("idle")
  /\ UNCHANGED <<row, turn, cp, draft, pollVars, deleted, hurt>>

\* A node's LLM call fails after its retries: nothing of the node is kept.
NodeRaises ==
  /\ "llm" \in Faults
  /\ node \in {"clarify", "brief", "supervisor", "plan", "draft"}
  /\ kept' = mem
  /\ sections' = <<>> /\ parts' = <<>>
  /\ Goto("fail")
  /\ UNCHANGED <<row, turn, mem, saved, pollVars, deleted, hurt>>

RowWriteRaises ==
  /\ "db" \in Faults
  /\ node \in {"start", "ask", "running", "store", "audit"}
  /\ hurt' = hurt \cup {"lost"}
  /\ Goto("fail")
  /\ UNCHANGED <<row, turn, cp, draft, pollVars, deleted>>

\* Redis refuses an event: the progress after a node, or the last one.
EventRaises ==
  /\ "redis" \in Faults
  /\ node \in {"brief", "supervisor", "plan", "publish"}
  /\ hurt' = IF At("publish") THEN hurt \cup {"refused"} ELSE hurt
  /\ Goto("fail")
  /\ UNCHANGED <<row, turn, cp, draft, pollVars, deleted>>

\* Mutant: the failure gets a status of its own.
RecordError ==
  /\ At("fail")
  /\ SetStatus([row EXCEPT !.status = "error"])
  /\ Goto("idle")
  /\ UNCHANGED <<turn, cp, draft, pollVars, deleted, hurt>>

\* record_failure, whose own write is best-effort; it overwrites "done".
RecordFailure ==
  /\ At("fail")
  /\ \/ SetStatus([row EXCEPT !.status = "failed"]) /\ UNCHANGED hurt
     \/ "db" \in Faults /\ hurt' = hurt \cup {"lost"} /\ UNCHANGED row
  /\ Goto("idle")
  /\ UNCHANGED <<turn, cp, draft, pollVars, deleted>>

\* The worker dies: what was not saved is lost.
Crash ==
  /\ "crash" \in Faults
  /\ node \notin {"idle", "queue", "start"}
  /\ mem' = saved /\ kept' = saved
  /\ sections' = <<>> /\ parts' = <<>>
  /\ hurt' = hurt \cup {"lost"}
  /\ Goto("idle")
  /\ UNCHANGED <<row, turn, saved, pollVars, deleted>>

\* The user deletes a session that is not in flight: the row goes, the
\* checkpoint stays.
Delete ==
  /\ Settled(row.status)
  /\ row' = NoRow
  /\ deleted' = turn
  /\ UNCHANGED <<turn, node, cp, draft, pollVars, hurt>>

----------------------------------------------------------------------------
(* The poller.                                                             *)

\* The answer, with the turn it is about: 0 when another was accepted
\* meanwhile, or when there was no session to ask about.
Tell(status, about, asks, question) ==
  answer' = [status |-> status, turn |-> IF about = turn THEN turn ELSE 0,
             asks |-> asks, question |-> question]

\* get_status reads the row, which settles the answer if it failed or
\* waits.  Without a row the checkpoint answers, and has no question.
ReadRow ==
  /\ poll.at = "idle"
  /\ IF row.status \in {"failed", "queued"}
     THEN Tell(row.status, turn, 0, 0) /\ UNCHANGED poll
     ELSE /\ poll' = [at |-> "checkpoint", question |-> row.question,
                       turn |-> IF row = NoRow THEN 0 ELSE turn]
          /\ UNCHANGED answer
  /\ UNCHANGED <<turnVars, saved>>

\* What the checkpoint says; "unknown" is the route's 404.
Classify(values) ==
  IF values.input = 0 THEN "unknown"
  ELSE IF values.report # NoReport THEN "done"
  ELSE IF values.needs # 0 THEN "clarifying"
  ELSE "running"

ReadCheckpoint ==
  /\ poll.at = "checkpoint"
  /\ LET s == Classify(saved) IN
     Tell(s, poll.turn, saved.needs, IF s = "clarifying" THEN poll.question ELSE 0)
  /\ poll' = [at |-> "idle"]
  /\ UNCHANGED <<turnVars, saved>>

----------------------------------------------------------------------------
TurnStep ==
  \/ Start \/ Clarify \/ Ask \/ Brief \/ Supervise \/ SetRunning
  \/ Plan \/ Draft \/ Finish \/ Store \/ Audit \/ Publish
  \/ NodeRaises \/ RowWriteRaises \/ EventRaises \/ RecordFailure

Request == Touch \/ Accept \/ RequestFails \/ RequestLost

Poll == ReadRow \/ ReadCheckpoint

Next == Request \/ TurnStep \/ Crash \/ Delete \/ Save \/ Poll

Spec == Init /\ [][Next]_vars

----------------------------------------------------------------------------
(* Properties.                                                             *)

ReportType ==
  [turn: 0..MaxTurns, notes: Seq(1..MaxTurns),
   parts: Seq([section: Nat, last: BOOLEAN, words: Int])]

TypeOK ==
  /\ row \in [status: {"absent", "queued", "running", "clarifying", "done", "failed"},
              report: 0..MaxTurns, question: 0..MaxTurns]
  /\ turn \in 0..MaxTurns /\ node \in Nodes
  /\ deleted \in 0..turn /\ hurt \subseteq {"lost", "refused"}
  /\ \A c \in {mem, saved, kept} :
       c \in [input: 0..MaxTurns, needs: 0..MaxTurns, notes: Seq(1..MaxTurns), report: ReportType]
  /\ sections \in Seq(Int) /\ Len(parts) <= Len(sections)
  /\ poll.at \in {"idle", "checkpoint"}
  /\ answer.status \in {"none", "queued", "failed", "unknown", "running", "clarifying", "done"}

\* Whatever the model plans and whichever call fails, a report that a
\* reader finds is whole: at least one section and no more than the limit,
\* in order, each of an allowed length, only the last told to conclude.
ReportIsWhole ==
  saved.report # NoReport =>
    LET ps == saved.report.parts IN
    /\ Len(ps) \in 1..Larger(1, MaxSections)
    /\ \A i \in DOMAIN ps :
         /\ ps[i].section = i
         /\ ps[i].words \in MinWords..MaxWords
         /\ ps[i].last <=> i = Len(ps)

\* Over follow-up turns, failures and lost writes, a report never counts a
\* finding twice, nor is it missing one that the thread still holds from
\* the turns up to its own.
FindingsCountedOnce ==
  saved.report # NoReport =>
    /\ \A i, j \in DOMAIN saved.report.notes :
         saved.report.notes[i] = saved.report.notes[j] => i = j
    /\ \A i \in DOMAIN saved.notes :
         saved.notes[i] <= saved.report.turn =>
           \E j \in DOMAIN saved.report.notes : saved.report.notes[j] = saved.notes[i]

\* No write of the row has failed and no worker has died.
Lossless == "lost" \notin hurt

\* Between turns, with everything saved and no lost write, the two stores
\* tell the same: after a "done" the checkpoint holds the very report that
\* GET .../report returns, and after a question it is in the checkpoint,
\* where only a report kept from an earlier turn hides it, and never one
\* that the row has not had, unless a deleted session left it there.
StoresAgree ==
  (node = "idle" /\ saved = mem /\ Lossless) =>
    /\ row.status = "done" => Classify(saved) = "done" /\ saved.report.turn = row.report
    /\ row.status = "clarifying" =>
         /\ saved.needs # 0 /\ Classify(saved) \in {"clarifying", "done"}
         /\ saved.report.turn <= Larger(row.report, deleted)

\* A poller of a session that is told to ask the user is given the
\* question, and none older than the one the checkpoint waits on, although
\* status and question come from two stores.  Not so when a write of the
\* row failed, or when what waits is what a deleted session has left.
ClarifyCarriesQuestion ==
  (answer.status = "clarifying" /\ answer.turn # 0 /\ answer.asks > deleted /\ Lossless)
    => answer.question >= answer.asks

\* During the first turn of a thread, which is not deleted, a poll that says
\* "done", "clarifying" or "failed" is not contradicted by a later one: the
\* client stops there.  With no lost write the one exception is a last
\* event that Redis refused, after which "failed" replaces the outcome.
SettledAnswerStays ==
  [][(/\ answer.turn = 1 /\ answer.status \in {"done", "clarifying", "failed"}
      /\ answer'.turn = 1 /\ Lossless' /\ deleted' = 0)
       => \/ answer'.status = answer.status
          \/ answer'.status = "failed" /\ "refused" \in hurt']_vars
=============================================================================
