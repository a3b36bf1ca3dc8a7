------------------------ MODULE ResearchStatusProofs ------------------------
(***************************************************************************)
(* Proofs about the pipeline's checkpoint, the sessions row and the poller *)
(* that reads both, for every plan of the model, all settings, any number  *)
(* of turns and deletes and all the faults of ResearchStatus:              *)
(*   - a report that a reader finds is whole: the writer keeps its plan    *)
(*     and its drafts to itself until the report is complete;              *)
(*   - it counts no finding twice and misses none;                         *)
(*   - the two stores tell the same between turns, a question comes with   *)
(*     its text, and a first turn's settled answer stays.                  *)
(* The invariants speak of all three states of the checkpoint that a later *)
(* step may bring back: the turn's, the saved one and the one without the  *)
(* last node's writes.                                                     *)
(***************************************************************************)
EXTENDS ResearchStatus, SequenceTheorems, TLAPS

Parts == Seq([section: Nat, last: BOOLEAN, words: Int])
Checkpoint == [input: 0..MaxTurns, needs: 0..MaxTurns, notes: Seq(1..MaxTurns), report: ReportType]

\* A checkpoint whose report, if there is one, is whole.
Whole(c) ==
  c.report # NoReport =>
    LET ps == c.report.parts IN
    /\ Len(ps) \in 1..Larger(1, MaxSections)
    /\ \A i \in DOMAIN ps :
         /\ ps[i].section = i
         /\ ps[i].words \in MinWords..MaxWords
         /\ ps[i].last <=> i = Len(ps)

PlanIsLegal ==
  /\ sections \in Seq(Int)
  /\ Len(sections) <= Larger(1, MaxSections)
  /\ node = "draft" => sections # <<>>

DraftsFollowPlan ==
  /\ parts \in Parts
  /\ Len(parts) <= Len(sections)
  /\ \A i \in 1..Len(parts) : parts[i] = Part(i)

Turns ==
  /\ turn \in 0..MaxTurns
  /\ node \in Nodes
  /\ node \notin {"idle", "queue"} => turn \in 1..MaxTurns
  /\ node = "queue" => turn < MaxTurns

Checkpoints ==
  /\ mem \in Checkpoint /\ saved \in Checkpoint /\ kept \in Checkpoint
  /\ Whole(mem) /\ Whole(saved) /\ Whole(kept)

IInv == Turns /\ Checkpoints /\ PlanIsLegal /\ DraftsFollowPlan

\* The clamp of a section's length stays within the settings.
LEMMA PartIsLegal ==
  ASSUME sections \in Seq(Int), NEW i \in 1..Len(sections)
  PROVE  /\ Part(i) \in [section: Nat, last: BOOLEAN, words: Int]
         /\ Part(i).section = i
         /\ Part(i).words \in MinWords..MaxWords
         /\ Part(i).last <=> i = Len(sections)
<1>1. sections[i] \in Int
  OBVIOUS
<1>2. Larger(MinWords, Smaller(sections[i], MaxWords)) \in MinWords..MaxWords
  BY <1>1, SettingsAssumption DEF Larger, Smaller
<1>3. MinWords..MaxWords \subseteq Int /\ 1..Len(sections) \subseteq Nat
  BY SettingsAssumption
<1>4. QED
  BY <1>2, <1>3 DEF Part

\* What remains of a plan: at least one section, no more than the limit.
LEMMA SectionsAreLegal ==
  ASSUME NEW planned \in Plans \cup {<<>>}
  PROVE  /\ Sections(planned) \in Seq(Int)
         /\ Sections(planned) # <<>>
         /\ Len(Sections(planned)) <= Larger(1, MaxSections)
<1> DEFINE given == IF planned = <<>> THEN <<MaxWords>> ELSE planned
           k == Smaller(Len(given), Larger(1, MaxSections))
<1>1. planned \in Seq(Int) /\ MaxWords \in Int
  <2>1. <<>> \in Seq(Int)
    OBVIOUS
  <2>2. planned \in Seq(Int)
    BY Zenon, <2>1, SettingsAssumption
  <2>3. QED
    BY <2>2, SettingsAssumption
<1>2. given \in Seq(Int) /\ Len(given) >= 1
  BY <1>1
<1>3. k \in 1..Len(given) /\ k <= Larger(1, MaxSections)
  BY <1>2, SettingsAssumption DEF Smaller, Larger
<1> HIDE DEF given, k
<1>4. SubSeq(given, 1, k) \in Seq(Int) /\ Len(SubSeq(given, 1, k)) = k
  BY <1>2, <1>3
<1>5. QED
  BY <1>3, <1>4 DEF Sections, given, k

LEMMA InitIInv == Init => IInv
BY SettingsAssumption DEF Init, IInv, Turns, Checkpoints, Checkpoint, PlanIsLegal,
   DraftsFollowPlan, Parts, Whole, Empty, NoReport, ReportType, Nodes, Larger

\* The step that makes a report.
LEMMA FinishIsWhole ==
  ASSUME IInv, Finish
  PROVE  Checkpoints'
<1> DEFINE r == [turn |-> turn, notes |-> mem.notes, parts |-> parts]
<1>1. /\ turn \in 0..MaxTurns /\ parts \in Parts /\ mem \in Checkpoint
      /\ sections \in Seq(Int) /\ sections # <<>> /\ Len(parts) = Len(sections)
      /\ Len(sections) <= Larger(1, MaxSections)
      /\ \A i \in 1..Len(parts) : parts[i] = Part(i)
  BY DEF IInv, Turns, Checkpoints, PlanIsLegal, DraftsFollowPlan, Finish, At
<1>2. mem.notes \in Seq(1..MaxTurns)
  BY <1>1 DEF Checkpoint
<1>3. r \in ReportType
  BY <1>1, <1>2 DEF ReportType, Parts
<1>4. mem' = [mem EXCEPT !.report = r]
  BY DEF Finish
<1>5. mem' \in Checkpoint /\ mem'.report = r
  BY <1>1, <1>3, <1>4 DEF Checkpoint
<1>6. Len(parts) \in 1..Larger(1, MaxSections)
  BY <1>1, SettingsAssumption DEF Larger
<1>7. \A i \in 1..Len(parts) :
        /\ parts[i].section = i
        /\ parts[i].words \in MinWords..MaxWords
        /\ parts[i].last <=> i = Len(parts)
  BY <1>1, PartIsLegal
<1>8. r.parts = parts /\ DOMAIN parts = 1..Len(parts)
  BY <1>1 DEF Parts
<1>9. Whole(mem')
  BY ZenonT(30), <1>5, <1>6, <1>7, <1>8 DEF Whole
<1>10. saved' = saved /\ kept' = mem
  BY DEF Finish
<1>11. Whole(saved)' /\ Whole(kept)' /\ saved' \in Checkpoint /\ kept' \in Checkpoint
  BY <1>10 DEF IInv, Checkpoints, Whole
<1>12. QED
  BY <1>5, <1>9, <1>11 DEF Checkpoints

\* Every step keeps the invariant, action by action.
LEMMA NextIInv == IInv /\ [Next]_vars => IInv'
<1> SUFFICES ASSUME IInv, [Next]_vars PROVE IInv'
  OBVIOUS
<1>0. /\ turn \in 0..MaxTurns /\ node \in Nodes /\ MaxTurns \in Nat
      /\ mem \in Checkpoint /\ saved \in Checkpoint /\ kept \in Checkpoint
  BY SettingsAssumption DEF IInv, Turns, Checkpoints
\* Plan and drafts thrown away, or not touched.
<1>a. ASSUME sections' = <<>>, parts' = <<>>, node' # "draft"
      PROVE  PlanIsLegal' /\ DraftsFollowPlan'
  BY <1>a, SettingsAssumption DEF PlanIsLegal, DraftsFollowPlan, Parts, Larger
<1>b. ASSUME UNCHANGED draft, node' = "draft" => node = "draft"
      PROVE  PlanIsLegal' /\ DraftsFollowPlan'
  BY <1>b DEF draft, IInv, PlanIsLegal, DraftsFollowPlan, Part
\* A checkpoint that is one of the three.
<1>c. ASSUME mem' \in {mem, saved, kept}, saved' \in {mem, saved, kept}, kept' \in {mem, saved, kept}
      PROVE  Checkpoints'
  BY SMTT(20), <1>c, <1>0 DEF IInv, Checkpoints, Whole
\* One whose report is that of one of them.
<1>d. ASSUME mem' \in Checkpoint, mem'.report \in {mem.report, kept.report}, saved' = saved, kept' \in {mem, kept}
      PROVE  Checkpoints'
  BY <1>d, <1>0 DEF IInv, Checkpoints, Whole
<1>1. CASE Touch
  BY <1>1, <1>0, <1>b, <1>c DEF Touch, At, Goto, cp, Turns, Nodes, IInv
<1>2. CASE Accept
  BY <1>2, <1>0, <1>b, <1>c DEF Accept, At, Goto, cp, Turns, Nodes, IInv
<1>3. CASE Start
  <2>1. PICK from \in {mem, kept} : mem' = [from EXCEPT !.input = turn]
    BY <1>3 DEF Start
  <2>2. mem' \in Checkpoint /\ mem'.report = from.report
    BY <2>1, <1>0 DEF Checkpoint
  <2>3. Checkpoints'
    BY <1>3, <2>1, <2>2, <1>d DEF Start
  <2>4. QED
    BY <1>3, <1>0, <2>3, <1>b DEF Start, At, Goto, Turns, Nodes, IInv
<1>4. CASE Clarify
  <2>1. PICK need \in BOOLEAN : mem' = [mem EXCEPT !.needs = IF need THEN turn ELSE 0]
    BY <1>4 DEF Clarify
  <2>n. \A v \in 0..MaxTurns :
          LET c == [mem EXCEPT !.needs = v] IN c \in Checkpoint /\ c.report = mem.report
    BY <1>0 DEF Checkpoint
  <2>m. (IF need THEN turn ELSE 0) \in 0..MaxTurns
    BY <1>0
  <2>2. mem' \in Checkpoint /\ mem'.report = mem.report
    BY <2>1, <2>m, <2>n
  <2>3. Checkpoints'
    BY <1>4, <2>2, <1>d DEF Clarify
  <2>4. QED
    BY <1>4, <1>0, <2>3, <1>b DEF Clarify, At, Goto, Turns, Nodes, IInv
<1>5. CASE Ask
  BY <1>5, <1>0, <1>b, <1>c DEF Ask, At, Goto, cp, Turns, Nodes, IInv
<1>6. CASE Brief
  BY <1>6, <1>0, <1>b, <1>c DEF Brief, At, Goto, cp, Turns, Nodes, IInv
<1>7. CASE Supervise
  <2>1. PICK new \in {<<>>, <<turn>>} : mem' = [mem EXCEPT !.notes = @ \o new]
    BY <1>7 DEF Supervise
  <2>2. turn \in 1..MaxTurns
    BY <1>7 DEF Supervise, At, IInv, Turns
  <2>3. mem.notes \o new \in Seq(1..MaxTurns)
    <3>1. mem.notes \in Seq(1..MaxTurns)
      BY <1>0 DEF Checkpoint
    <3>2. <<>> \in Seq(1..MaxTurns) /\ <<turn>> \in Seq(1..MaxTurns)
      BY <2>2
    <3>3. new \in Seq(1..MaxTurns)
      BY <3>2
    <3>4. QED
      BY <3>1, <3>3
  <2>n. \A ns \in Seq(1..MaxTurns) :
          LET c == [mem EXCEPT !.notes = ns] IN c \in Checkpoint /\ c.report = mem.report
    BY <1>0 DEF Checkpoint
  <2>4. mem' \in Checkpoint /\ mem'.report = mem.report
    BY <2>1, <2>3, <2>n
  <2>5. Checkpoints'
    BY <1>7, <2>4, <1>d DEF Supervise
  <2>6. QED
    BY <1>7, <1>0, <2>5, <1>b DEF Supervise, At, Goto, Turns, Nodes, IInv
<1>8. CASE SetRunning
  BY <1>8, <1>0, <1>b, <1>c DEF SetRunning, At, Goto, cp, Turns, Nodes, IInv
<1>9. CASE Plan
  <2>1. PICK planned \in Plans \cup {<<>>} : sections' = Sections(planned)
    BY <1>9 DEF Plan
  <2>2. /\ sections' \in Seq(Int) /\ sections' # <<>>
        /\ Len(sections') <= Larger(1, MaxSections)
    BY <2>1, SectionsAreLegal
  <2>3. PlanIsLegal' /\ DraftsFollowPlan'
    BY <1>9, <2>2 DEF Plan, PlanIsLegal, DraftsFollowPlan, Parts, Larger
  <2>4. QED
    BY <1>9, <1>0, <2>3, <1>c DEF Plan, At, Goto, Turns, Nodes, IInv
<1>10. CASE Draft
  <2> DEFINE k == Len(parts) + 1
  <2>1. parts \in Parts /\ sections \in Seq(Int) /\ Len(parts) < Len(sections)
    BY <1>10 DEF Draft, IInv, PlanIsLegal, DraftsFollowPlan
  <2>2. k \in 1..Len(sections)
    BY <2>1 DEF Parts
  <2>3. Part(k) \in [section: Nat, last: BOOLEAN, words: Int]
    BY <2>1, <2>2, PartIsLegal
  <2>4. parts' = Append(parts, Part(k)) /\ sections' = sections
    BY <1>10 DEF Draft
  <2> HIDE DEF k
  <2>5. /\ parts' \in Parts /\ Len(parts') = Len(parts) + 1 /\ parts'[Len(parts) + 1] = Part(k)
        /\ \A i \in 1..Len(parts) : parts'[i] = parts[i]
    BY <2>1, <2>3, <2>4 DEF Parts
  <2>6. \A i \in 1..Len(parts') : parts'[i] = Part(i)
    <3>1. \A i \in 1..Len(parts) : parts[i] = Part(i)
      BY DEF IInv, DraftsFollowPlan
    <3>2. Len(parts) \in Nat
      BY <2>1 DEF Parts
    <3>3. \A i \in 1..Len(parts') : i \in 1..Len(parts) \/ i = Len(parts) + 1
      BY <2>5, <3>2
    <3>4. QED
      BY <3>1, <3>3, <2>5 DEF k
  <2>7. DraftsFollowPlan' /\ PlanIsLegal'
    BY <1>10, <2>1, <2>4, <2>5, <2>6 DEF Draft, DraftsFollowPlan, PlanIsLegal, IInv, Part, Parts
  <2>8. QED
    BY <1>10, <1>0, <2>7, <1>c DEF Draft, Turns, IInv
<1>11. CASE Finish
  BY <1>11, <1>0, <1>a, FinishIsWhole DEF Finish, At, Goto, Turns, Nodes, IInv
<1>12. CASE Store \/ Audit \/ Publish
  BY <1>12, <1>0, <1>b, <1>c DEF Store, Audit, Publish, At, Goto, cp, Turns, Nodes, IInv
<1>13. CASE NodeRaises
  BY <1>13, <1>0, <1>a, <1>c DEF NodeRaises, At, Goto, Turns, Nodes, IInv
<1>14. CASE RowWriteRaises \/ EventRaises
  BY <1>14, <1>0, <1>b, <1>c DEF RowWriteRaises, EventRaises, At, Goto, cp, Turns, Nodes, IInv
<1>15. CASE RecordFailure
  BY <1>15, <1>0, <1>b, <1>c DEF RecordFailure, At, Goto, cp, Turns, Nodes, IInv
<1>16. CASE Crash
  BY <1>16, <1>0, <1>a, <1>c DEF Crash, At, Goto, Turns, Nodes, IInv
<1>17. CASE Save
  BY <1>17, <1>0, <1>b, <1>c DEF Save, turnVars, Turns, IInv
<1>18. CASE Poll
  BY <1>18, <1>0, <1>b, <1>c DEF Poll, ReadRow, ReadCheckpoint, turnVars, Turns, IInv
<1>19. CASE UNCHANGED vars
  BY <1>19, <1>0, <1>b, <1>c DEF vars, turnVars, Turns, IInv
<1>20. CASE RequestFails \/ RequestLost
  BY <1>20, <1>0, <1>b, <1>c DEF RequestFails, RequestLost, At, Goto, cp, Turns, Nodes, IInv
<1>21. CASE Delete
  BY <1>21, <1>0, <1>b, <1>c DEF Delete, cp, Turns, IInv
<1>22. QED
  BY <1>1, <1>2, <1>3, <1>4, <1>5, <1>6, <1>7, <1>8, <1>9, <1>10, <1>11, <1>12,
     <1>13, <1>14, <1>15, <1>16, <1>17, <1>18, <1>19, <1>20, <1>21 DEF Next, Request, TurnStep

LEMMA InvariantHolds == Spec => []IInv
BY InitIInv, NextIInv, PTL DEF Spec

\* Whatever the model plans and whichever call, write or worker fails: a
\* report that a reader finds has between one section and the limit, in
\* order, each within the length bounds, and only the last concludes.
THEOREM ReportsAreWhole == Spec => []ReportIsWhole
<1>1. IInv => ReportIsWhole
  BY DEF IInv, Checkpoints, Whole, ReportIsWhole
<1>2. QED
  BY <1>1, InvariantHolds, PTL

----------------------------------------------------------------------------
(* No finding is counted twice or lost.  The findings of a turn are added  *)
(* once, by the supervisor, and the report copies those of its turn: so a  *)
(* state of the checkpoint holds no finding of the running turn before the *)
(* supervisor's step and no report of it before the writer's.              *)

States == {mem, saved, kept}
BeforeFindings == {"start", "clarify", "ask", "brief", "supervisor"}
BeforeReport == BeforeFindings \cup {"running", "plan", "draft"}

Counted(c) ==
  /\ \A i, j \in DOMAIN c.notes : c.notes[i] = c.notes[j] => i = j
  /\ c.report # NoReport =>
       /\ c.report.turn # 0
       /\ \A i, j \in DOMAIN c.report.notes : c.report.notes[i] = c.report.notes[j] => i = j
       /\ \A i \in DOMAIN c.notes : c.notes[i] <= c.report.turn =>
            \E j \in DOMAIN c.report.notes : c.report.notes[j] = c.notes[i]

OfThePast(c) ==
  /\ \A i \in DOMAIN c.notes :
       c.notes[i] <= turn /\ (node \in BeforeFindings => c.notes[i] < turn)
  /\ c.report.turn <= turn /\ (node \in BeforeReport => c.report.turn < turn)

Findings == \A c \in States : Counted(c) /\ OfThePast(c)

\* Steps that take findings and reports from the states there are, while
\* the turn goes on or the next one begins.
LEMMA FindingsAreInherited ==
  ASSUME IInv, Findings,
         \A c \in {mem', saved', kept'} : \E d \in States : c.notes = d.notes /\ c.report = d.report,
         \/ /\ turn' = turn /\ (node' \in BeforeFindings => node \in BeforeFindings)
            /\ (node' \in BeforeReport => node \in BeforeReport)
         \/ turn' = turn + 1
  PROVE  Findings'
<1>1. SUFFICES ASSUME NEW c \in {mem', saved', kept'}, NEW d \in States,
                      c.notes = d.notes, c.report = d.report
               PROVE  Counted(c) /\ OfThePast(c)'
  BY DEF Findings, States, Counted, OfThePast
<1>2. Counted(d) /\ OfThePast(d)
  BY DEF Findings
<1>3. Counted(c)
  BY <1>1, <1>2 DEF Counted
<1>4. /\ turn \in Nat /\ d.report.turn \in Nat
      /\ \A i \in DOMAIN d.notes : d.notes[i] \in Nat
  <2>1. d \in Checkpoint
    BY DEF IInv, Checkpoints, States
  <2>2. d.notes \in Seq(1..MaxTurns) /\ d.report.turn \in 0..MaxTurns
    BY <2>1 DEF Checkpoint, ReportType
  <2>3. QED
    BY <2>2, SettingsAssumption DEF IInv, Turns
<1>5. OfThePast(c)'
  BY <1>1, <1>2, <1>4 DEF OfThePast
<1>6. QED
  BY <1>3, <1>5

\* A sequence and one element more.
LEMMA OneMore ==
  ASSUME NEW M \in Nat, NEW ns \in Seq(1..M), NEW t \in 1..M
  PROVE  /\ DOMAIN (ns \o <<t>>) = 1..(Len(ns) + 1)
         /\ \A i \in 1..Len(ns) : (ns \o <<t>>)[i] = ns[i]
         /\ (ns \o <<t>>)[Len(ns) + 1] = t
<1>1. <<t>> \in Seq(1..M) /\ Len(<<t>>) = 1 /\ <<t>>[1] = t
  OBVIOUS
<1> DEFINE one == <<t>>
<1> HIDE DEF one
<1>2. one \in Seq(1..M) /\ Len(one) = 1 /\ one[1] = t
  BY <1>1 DEF one
<1>3. /\ ns \o one \in Seq(1..M)
      /\ Len(ns \o one) = Len(ns) + Len(one)
      /\ \A i \in 1..(Len(ns) + Len(one)) :
           (ns \o one)[i] = IF i <= Len(ns) THEN ns[i] ELSE one[i - Len(ns)]
  BY <1>2, ConcatProperties
<1>4. Len(ns) \in Nat
  OBVIOUS
<1>5. DOMAIN (ns \o one) = 1..(Len(ns) + 1)
  BY <1>2, <1>3
<1>6. (ns \o one)[Len(ns) + 1] = t
  BY <1>2, <1>3, <1>4
<1>7. QED
  BY <1>2, <1>3, <1>4, <1>5, <1>6 DEF one

LEMMA SuperviseCountsOnce ==
  ASSUME IInv, Findings, Supervise
  PROVE  Findings'
<1>1. PICK new \in {<<>>, <<turn>>} : mem' = [mem EXCEPT !.notes = @ \o new]
  BY DEF Supervise
<1>2. /\ mem \in Checkpoint /\ turn \in 1..MaxTurns /\ MaxTurns \in Nat
      /\ mem.notes \in Seq(1..MaxTurns) /\ mem.report.turn \in Nat
  BY SettingsAssumption DEF IInv, Turns, Checkpoints, Checkpoint, ReportType, Supervise, At
<1>3. mem'.notes = mem.notes \o new /\ mem'.report = mem.report
  BY <1>1, <1>2 DEF Checkpoint
<1>4. /\ node = "supervisor" /\ node' = "running" /\ turn' = turn
      /\ saved' = saved /\ kept' = mem
  BY DEF Supervise, At, Goto
<1>5. \A c \in States : Counted(c) /\ OfThePast(c)
  BY DEF Findings
\* The findings of the step are the turn's, the ones before are not.
<1>6. /\ DOMAIN mem.notes = 1..Len(mem.notes) /\ Len(mem.notes) \in Nat
      /\ DOMAIN mem.notes \subseteq DOMAIN mem'.notes
      /\ \A i \in DOMAIN mem.notes : mem'.notes[i] = mem.notes[i] /\ mem.notes[i] < turn
      /\ \A i \in DOMAIN mem'.notes : i \notin DOMAIN mem.notes =>
           i = Len(mem.notes) + 1 /\ mem'.notes[i] = turn
  <2>1. \A i \in DOMAIN mem.notes : mem.notes[i] < turn
    BY <1>4, <1>5 DEF States, OfThePast, BeforeFindings
  <2>2. CASE new = <<>>
    BY <2>1, <2>2, <1>2, <1>3
  <2>3. CASE new = <<turn>>
    <3>1. mem'.notes = mem.notes \o <<turn>>
      BY <2>3, <1>3
    <3>2. /\ DOMAIN mem'.notes = 1..(Len(mem.notes) + 1)
          /\ \A i \in 1..Len(mem.notes) : mem'.notes[i] = mem.notes[i]
          /\ mem'.notes[Len(mem.notes) + 1] = turn
      BY <3>1, <1>2, OneMore
    <3>3. DOMAIN mem.notes = 1..Len(mem.notes) /\ Len(mem.notes) \in Nat
      BY <1>2
    <3>4. QED
      BY <2>1, <3>2, <3>3
  <2>4. QED BY <2>2, <2>3
<1>7. \A i \in DOMAIN mem.notes : mem.notes[i] \in Nat
  BY <1>2
<1>8. /\ Counted(mem) /\ OfThePast(mem)
      /\ mem.report.turn < turn
  BY <1>4, <1>5 DEF States, OfThePast, BeforeReport, BeforeFindings
<1>9. \A i, j \in DOMAIN mem'.notes : mem'.notes[i] = mem'.notes[j] => i = j
  BY SMTT(20), <1>2, <1>6, <1>7, <1>8 DEF Counted
<1>10. \A i \in DOMAIN mem'.notes : mem'.notes[i] <= mem.report.turn =>
         i \in DOMAIN mem.notes
  BY <1>2, <1>6, <1>8
<1>11. Counted(mem')
  BY <1>3, <1>6, <1>8, <1>9, <1>10 DEF Counted
<1>12. OfThePast(mem)'
  BY <1>2, <1>3, <1>4, <1>6, <1>7, <1>8 DEF OfThePast, BeforeFindings, BeforeReport
<1>13. \A c \in {saved', kept'} : Counted(c) /\ OfThePast(c)'
  BY <1>4, <1>5 DEF States, OfThePast, BeforeFindings, BeforeReport
<1>14. QED
  BY <1>11, <1>12, <1>13 DEF Findings, States, OfThePast, Counted

LEMMA FinishCountsAll ==
  ASSUME IInv, Findings, Finish
  PROVE  Findings'
<1>1. /\ mem \in Checkpoint /\ turn \in 1..MaxTurns /\ MaxTurns \in Nat
      /\ mem.notes \in Seq(1..MaxTurns)
  BY SettingsAssumption DEF IInv, Turns, Checkpoints, Checkpoint, Finish, At
<1>2. mem' = [mem EXCEPT !.report = [turn |-> turn, notes |-> mem.notes, parts |-> parts]]
  BY DEF Finish
<1>3. /\ mem'.notes = mem.notes /\ mem'.report.notes = mem.notes /\ mem'.report.turn = turn
  BY <1>1, <1>2 DEF Checkpoint
<1>4. node' = "store" /\ turn' = turn /\ saved' = saved /\ kept' = mem
  BY DEF Finish, Goto
<1>5. \A c \in States : Counted(c) /\ OfThePast(c)
  BY DEF Findings
<1>6. Counted(mem')
  BY <1>1, <1>3, <1>5 DEF Counted, States
<1>7. OfThePast(mem)'
  BY <1>1, <1>3, <1>4, <1>5 DEF OfThePast, States, BeforeFindings, BeforeReport
<1>8. \A c \in {saved', kept'} : Counted(c) /\ OfThePast(c)'
  BY <1>4, <1>5 DEF States, OfThePast, BeforeFindings, BeforeReport
<1>9. QED
  BY <1>6, <1>7, <1>8 DEF Findings, States, OfThePast, Counted

LEMMA InitFindings == Init => Findings
BY DEF Init, Findings, States, Empty, NoReport, Counted, OfThePast, BeforeFindings, BeforeReport

LEMMA NextFindings == IInv /\ Findings /\ [Next]_vars => Findings'
<1> SUFFICES ASSUME IInv, Findings, [Next]_vars PROVE Findings'
  OBVIOUS
<1>0. mem \in Checkpoint /\ saved \in Checkpoint /\ kept \in Checkpoint
  BY DEF IInv, Checkpoints
<1>a. ASSUME {mem', saved', kept'} \subseteq States,
             \/ /\ turn' = turn /\ (node' \in BeforeFindings => node \in BeforeFindings)
                /\ (node' \in BeforeReport => node \in BeforeReport)
             \/ turn' = turn + 1
      PROVE  Findings'
  BY <1>a, FindingsAreInherited
<1> USE DEF At, Goto, States, BeforeFindings, BeforeReport
<1>1. CASE Request
  BY <1>1, <1>a DEF Request, Touch, Accept, RequestFails, RequestLost, cp
<1>2. CASE Start
  <2>1. PICK from \in {mem, kept} : mem' = [from EXCEPT !.input = turn]
    BY <1>2 DEF Start
  <2>2. mem'.notes = from.notes /\ mem'.report = from.report
    BY <1>0, <2>1 DEF Checkpoint
  <2>3. QED
    BY <1>2, <2>2, FindingsAreInherited DEF Start
<1>3. CASE Clarify
  <2>1. PICK asks \in {0, turn} :
          /\ mem' = [mem EXCEPT !.needs = asks]
          /\ node' \in {"ask", "brief"}
    BY <1>3 DEF Clarify
  <2>2. mem'.notes = mem.notes /\ mem'.report = mem.report
    BY <1>0, <2>1 DEF Checkpoint
  <2>3. QED
    BY <1>3, <2>2, FindingsAreInherited DEF Clarify
<1>4. CASE Ask \/ Brief \/ SetRunning \/ Plan \/ Draft \/ Store \/ Audit \/ Publish
  BY <1>4, <1>a DEF Ask, Brief, SetRunning, Plan, Draft, Store, Audit, Publish, cp
<1>5. CASE Supervise
  BY <1>5, SuperviseCountsOnce
<1>6. CASE Finish
  BY <1>6, FinishCountsAll
<1>7. CASE NodeRaises \/ RowWriteRaises \/ EventRaises \/ RecordFailure \/ Crash
  BY <1>7, <1>a DEF NodeRaises, RowWriteRaises, EventRaises, RecordFailure, Crash, cp
<1>8. CASE Delete \/ Save \/ Poll \/ UNCHANGED vars
  BY <1>8, <1>a DEF Delete, cp, Save, Poll, ReadRow, ReadCheckpoint, vars, turnVars
<1>9. QED
  BY <1>1, <1>2, <1>3, <1>4, <1>5, <1>6, <1>7, <1>8 DEF Next, TurnStep

\* Over any number of turns, with lost writes, failing nodes and dying
\* workers: a report that a reader finds counts no finding twice and misses
\* none that the thread still has from the turns up to its own.
THEOREM NoFindingCountedTwice == Spec => []FindingsCountedOnce
<1>1. Findings => FindingsCountedOnce
  BY DEF Findings, States, Counted, FindingsCountedOnce
<1>2. QED
  BY <1>1, InitFindings, NextFindings, InvariantHolds, PTL DEF Spec

----------------------------------------------------------------------------
(* What the row, the checkpoint and the poller tell of each other, while   *)
(* no write of the row has failed and no worker has died (`Lossless`).     *)

Typed ==
  /\ row \in [status: {"absent", "queued", "running", "clarifying", "done", "failed"},
              report: 0..MaxTurns, question: 0..MaxTurns]
  /\ row.status = "absent" <=> row = NoRow
  /\ deleted \in 0..turn /\ hurt \subseteq {"lost", "refused"}
  /\ poll \in [at: {"idle"}] \cup [at: {"checkpoint"}, question: 0..MaxTurns, turn: 0..MaxTurns]
  /\ answer \in [status: {"none", "queued", "failed", "unknown", "running", "clarifying", "done"},
                 turn: 0..MaxTurns, asks: 0..MaxTurns, question: 0..MaxTurns]

BetweenTurns == {"idle", "queue"}
AfterOutcome == BetweenTurns \cup {"audit", "publish"}
BeforeRunning == BeforeFindings \cup {"running"}

\* The row's status while a turn works, and the message it works on.
RowFollowsNode ==
  /\ node \in BeforeRunning =>
       row.status = "queued" \/ (node = "start" /\ row.status = "absent")
  /\ node \in {"plan", "draft", "store"} => row.status = "running"
  /\ node \in {"audit", "publish"} => row.status \in {"done", "clarifying", "absent"}
  /\ node = "fail" => row.status # "failed"
  /\ \A c \in States : c.needs <= turn /\ (c.input = 0 => c.report = NoReport /\ c.needs = 0)
  /\ node \notin AfterOutcome \cup {"start", "fail"} => mem.input # 0

\* The current turn has had an outcome, and the row shows it, or shows the
\* failure of its last event, or has been deleted since.
Over(status) ==
  \/ node \in AfterOutcome /\ row.status = status
  \/ node = "fail" /\ row.status = status /\ "refused" \in hurt
  \/ node \in BetweenTurns /\ row.status = "failed" /\ "refused" \in hurt
  \/ node \in AfterOutcome \cup {"fail"} /\ deleted = turn

\* A report of the current turn is in the checkpoint only when the row has
\* it or the next step stores it there, and then it stays; one of an
\* earlier turn that a later turn works with has been in the row.
ReportInRow ==
  Lossless =>
    /\ node # "store" => mem.report.turn <= row.report \/ mem.report.turn <= deleted
    /\ kept.report.turn <= row.report \/ kept.report.turn <= deleted
    /\ \A c \in States : (turn >= 1 /\ c.report.turn = turn) =>
         mem.report.turn = turn /\ (node = "store" \/ Over("done"))
    /\ node = "store" => mem.report.turn = turn
    /\ (node \in AfterOutcome /\ row.status = "done") =>
         turn >= 1 /\ mem.report.turn = turn /\ row.report = turn

\* The same of a question.
QuestionInRow ==
  Lossless =>
    /\ node = "ask" => mem.needs = turn
    /\ \A c \in States : c.needs > deleted =>
         c.needs <= row.question \/ (node = "ask" /\ c.needs = turn)
    /\ (node \in AfterOutcome /\ row.status = "clarifying") => mem.needs # 0

\* A first turn that has asked does nothing more.
FirstTurnAsks ==
  (Lossless /\ turn <= 1) =>
    \A c \in States : c.needs # 0 =>
      /\ turn = 1 /\ mem.needs # 0
      /\ node = "ask" \/ Over("clarifying")
      /\ \A d \in States : d.report.turn = 0

\* A poller that has found a session in this turn did so after its question
\* or after the supervisor: before, the row is "queued" and settles the
\* answer.  So it has the last question of that session.
PollerKnowsTheRow ==
  poll.at = "checkpoint" =>
    /\ poll.turn <= turn
    /\ (poll.turn = turn /\ turn # 0) =>
         /\ node \notin BeforeRunning
         /\ Lossless => \A c \in States : c.needs > deleted => c.needs <= poll.question

AnswersHold ==
  /\ answer.turn <= turn
  /\ (Lossless /\ deleted = 0 /\ answer.turn = 1 /\ turn = 1) =>
       /\ answer.status = "done" => saved.report.turn = 1
       /\ answer.status = "clarifying" => saved.needs # 0 /\ node # "ask"
       /\ answer.status = "failed" =>
            /\ row.status = "failed" /\ node \in BetweenTurns
            /\ poll.at = "checkpoint" => poll.turn # 1

Telling ==
  /\ Typed /\ RowFollowsNode /\ ReportInRow /\ QuestionInRow
  /\ FirstTurnAsks /\ PollerKnowsTheRow /\ AnswersHold /\ ClarifyCarriesQuestion

\* What is known of the three states of the checkpoint.
LEMMA StateFacts ==
  ASSUME IInv, Findings
  PROVE  /\ turn \in 0..MaxTurns /\ MaxTurns \in Nat
         /\ \A c \in States :
              /\ c \in Checkpoint
              /\ c.input \in 0..MaxTurns /\ c.needs \in 0..MaxTurns /\ c.report.turn \in 0..MaxTurns
              /\ c.report = NoReport <=> c.report.turn = 0
              /\ c.report.turn <= turn
              /\ node \in BeforeReport => c.report.turn < turn
<1>1. turn \in 0..MaxTurns /\ MaxTurns \in Nat
  BY SettingsAssumption DEF IInv, Turns
<1>2. SUFFICES ASSUME NEW c \in States
      PROVE  /\ c \in Checkpoint
             /\ c.input \in 0..MaxTurns /\ c.needs \in 0..MaxTurns /\ c.report.turn \in 0..MaxTurns
             /\ c.report = NoReport <=> c.report.turn = 0
             /\ c.report.turn <= turn
             /\ node \in BeforeReport => c.report.turn < turn
  BY <1>1
<1>3. c \in Checkpoint
  BY DEF IInv, Checkpoints, States
<1>4. c.input \in 0..MaxTurns /\ c.needs \in 0..MaxTurns /\ c.report.turn \in 0..MaxTurns
  BY <1>3 DEF Checkpoint, ReportType
<1>5. Counted(c) /\ OfThePast(c)
  BY DEF Findings
<1>6. NoReport.turn = 0
  BY DEF NoReport
<1>7. c.report = NoReport <=> c.report.turn = 0
  BY <1>5, <1>6 DEF Counted
<1>8. QED
  BY <1>3, <1>4, <1>5, <1>7 DEF OfThePast

\* The classes of a checkpoint.
LEMMA Classes ==
  ASSUME NEW c, c.input = 0 => c.report = NoReport /\ c.needs = 0
  PROVE  /\ Classify(c) \in {"unknown", "done", "clarifying", "running"}
         /\ Classify(c) = "done" <=> c.report # NoReport
         /\ Classify(c) = "clarifying" <=> c.report = NoReport /\ c.needs # 0
BY DEF Classify

LEMMA InitTelling == Init => Telling
<1> SUFFICES ASSUME Init PROVE Telling
  OBVIOUS
<1>1. Typed
  <2>1. poll \in [at: {"idle"}]
    BY DEF Init
  <2>2. row \in [status: {"absent", "queued", "running", "clarifying", "done", "failed"},
                 report: 0..MaxTurns, question: 0..MaxTurns]
    BY SettingsAssumption DEF Init, NoRow
  <2>3. answer \in [status: {"none", "queued", "failed", "unknown", "running", "clarifying", "done"},
                    turn: 0..MaxTurns, asks: 0..MaxTurns, question: 0..MaxTurns]
    BY SettingsAssumption DEF Init
  <2>4. QED
    BY <2>1, <2>2, <2>3 DEF Init, Typed, NoRow
<1>2. /\ \A c \in States : c = Empty
      /\ Empty.input = 0 /\ Empty.needs = 0 /\ Empty.report = NoReport /\ NoReport.turn = 0
      /\ node = "idle" /\ row.status = "absent" /\ row.report = 0 /\ turn = 0
      /\ poll.at = "idle" /\ answer.turn = 0 /\ answer.status = "none" /\ mem = Empty /\ kept = Empty
      /\ deleted = 0 /\ hurt = {}
  BY DEF Init, States, Empty, NoReport, NoRow
<1>3. QED
  BY <1>1, <1>2 DEF Telling, RowFollowsNode, ReportInRow, QuestionInRow, FirstTurnAsks,
     PollerKnowsTheRow, AnswersHold, ClarifyCarriesQuestion, AfterOutcome, BetweenTurns,
     BeforeRunning, BeforeFindings, Over

LEMMA TurnStepTelling ==
  ASSUME IInv, Findings, Telling, Request \/ TurnStep \/ Crash \/ Delete
  PROVE  Telling'
<1>0. /\ turn \in 0..MaxTurns /\ MaxTurns \in Nat
      /\ \A c \in States :
           /\ c \in Checkpoint
           /\ c.input \in 0..MaxTurns /\ c.needs \in 0..MaxTurns /\ c.report.turn \in 0..MaxTurns
           /\ c.report = NoReport <=> c.report.turn = 0
           /\ c.report.turn <= turn
           /\ node \in BeforeReport => c.report.turn < turn
  BY StateFacts
<1> USE DEF Telling, Typed, RowFollowsNode, ReportInRow, QuestionInRow,
      FirstTurnAsks, PollerKnowsTheRow, AnswersHold, ClarifyCarriesQuestion, States,
      AfterOutcome, BetweenTurns, BeforeRunning, BeforeFindings, BeforeReport, Over, Lossless,
      At, Goto, cp, pollVars, NoRow
<1>1. CASE Touch
  BY <1>0, <1>1 DEF Touch, Touched
<1>2. CASE Accept
  BY <1>0, <1>2 DEF Accept, SetStatus
<1>3. CASE Start
  <2>1. PICK from \in {mem, kept} : mem' = [from EXCEPT !.input = turn]
    BY <1>3 DEF Start
  <2>2. /\ mem'.input = turn /\ mem'.needs = from.needs /\ mem'.report = from.report
    BY <1>0, <2>1 DEF Checkpoint
  <2>3. turn >= 1
    BY <1>3 DEF Start, IInv, Turns
  <2>4. QED
    BY <1>0, <1>3, <2>2, <2>3 DEF Start, Touched
<1>4. CASE Clarify
  <2>1. PICK need \in BOOLEAN :
          /\ mem' = [mem EXCEPT !.needs = IF need THEN turn ELSE 0]
          /\ node' = (IF need THEN "ask" ELSE "brief")
    BY <1>4 DEF Clarify
  <2>2. mem'.input = mem.input /\ mem'.needs = (IF need THEN turn ELSE 0) /\ mem'.report = mem.report
    BY <1>0, <2>1 DEF Checkpoint
  <2>3. turn >= 1
    BY <1>4 DEF Clarify, IInv, Turns
  <2>4. QED
    BY <1>0, <1>4, <2>1, <2>2, <2>3 DEF Clarify
<1>5. CASE Ask
  <2>1. row'.status = "clarifying" /\ row'.question = turn /\ row'.report = row.report /\ turn >= 1
    BY <1>0, <1>5 DEF Ask, SetStatus, IInv, Turns
  <2>2. Typed'
    BY <1>0, <1>5 DEF Ask, SetStatus
  <2>3. QED
    BY <1>0, <1>5, <2>1, <2>2 DEF Ask
<1>6. CASE Brief
  BY <1>0, <1>6 DEF Brief
<1>7. CASE Supervise
  <2>1. mem'.input = mem.input /\ mem'.needs = mem.needs /\ mem'.report = mem.report
    BY <1>0, <1>7 DEF Checkpoint, Supervise
  <2>2. Typed'
    BY <1>0, <1>7, <2>1 DEF Supervise
  <2>3. QED
    BY <1>0, <1>7, <2>1, <2>2, SMTT(20) DEF Supervise
<1>8. CASE SetRunning
  BY <1>0, <1>8 DEF SetRunning, SetStatus
<1>9. CASE Plan
  BY <1>0, <1>9 DEF Plan
<1>10. CASE Draft
  BY <1>0, <1>10 DEF Draft
<1>11. CASE Finish
  <2>1. mem'.input = mem.input /\ mem'.needs = mem.needs /\ mem'.report.turn = turn
    BY <1>0, <1>11 DEF Checkpoint, Finish
  <2>2. Typed'
    BY <1>0, <1>11, <2>1 DEF Finish
  <2>3. RowFollowsNode'
    <3>1. mem'.input # 0
      BY <1>0, <1>11, <2>1 DEF Finish
    <3>2. kept' = mem /\ UNCHANGED <<row, turn, saved>> /\ node' = "store"
      BY <1>11 DEF Finish
    <3>3. row.status = "running"
      BY <1>11 DEF Finish
    <3>4. QED
      BY <1>0, <2>1, <3>1, <3>2, <3>3
  <2>4. PollerKnowsTheRow'
    BY <1>0, <1>11, <2>1 DEF Finish
  <2>5. AnswersHold'
    BY <1>0, <1>11, <2>1 DEF Finish
  <2>6. ReportInRow'
    BY <1>0, <1>11, <2>1 DEF Finish
  <2>7. QuestionInRow' /\ FirstTurnAsks'
    BY <1>0, <1>11, <2>1 DEF Finish
  <2>8. ClarifyCarriesQuestion'
    BY <1>0, <1>11 DEF Finish
  <2>9. QED
    BY <2>2, <2>3, <2>4, <2>5, <2>6, <2>7, <2>8
<1>12. CASE Store
  <2>1. row'.status = "done" /\ row'.question = row.question /\ row'.report = turn /\ turn >= 1
    BY <1>0, <1>12 DEF Store, SetStatus, IInv, Turns
  <2>2. Typed'
    BY <1>0, <1>12 DEF Store, SetStatus
  <2>3. QED
    BY <1>0, <1>12, <2>1, <2>2 DEF Store
<1>13. CASE NodeRaises
  <2>1. /\ node \in {"clarify", "brief", "supervisor", "plan", "draft"} /\ node' = "fail"
        /\ kept' = mem /\ UNCHANGED <<row, turn, mem, saved, poll, answer, deleted, hurt>>
    BY <1>13 DEF NodeRaises
  <2>2. Lossless => /\ mem.report.turn <= row.report \/ mem.report.turn <= deleted
                    /\ \A c \in States : turn >= 1 => c.report.turn # turn
                    /\ turn <= 1 => \A c \in States : c.needs = 0
    BY <1>0, <2>1
  <2>3. \A c \in {mem', saved', kept'} : c \in States
    BY <2>1
  <2>4. QED
    BY <1>0, <2>1, <2>2, <2>3
<1>14. CASE RowWriteRaises
  BY <1>0, <1>14 DEF RowWriteRaises
<1>15. CASE RecordFailure
  BY <1>0, <1>15 DEF RecordFailure, SetStatus
<1>16. CASE Crash
  BY <1>0, <1>16 DEF Crash
<1>17. CASE RequestFails
  BY <1>0, <1>17 DEF RequestFails, SetStatus, Settled
<1>18. CASE RequestLost
  BY <1>0, <1>18 DEF RequestLost
<1>19. CASE Audit
  BY <1>0, <1>19 DEF Audit
<1>20. CASE Publish
  BY <1>0, <1>20 DEF Publish
<1>21. CASE EventRaises
  BY <1>0, <1>21 DEF EventRaises
<1>22. CASE Delete
  BY <1>0, <1>22 DEF Delete, Settled
<1>23. QED
  BY <1>1, <1>2, <1>3, <1>4, <1>5, <1>6, <1>7, <1>8, <1>9, <1>10, <1>11, <1>12,
     <1>13, <1>14, <1>15, <1>16, <1>17, <1>18, <1>19, <1>20, <1>21, <1>22 DEF TurnStep, Request

LEMMA OtherStepTelling ==
  ASSUME IInv, Findings, Telling, Save \/ Poll \/ UNCHANGED vars
  PROVE  Telling'
<1>0. /\ turn \in 0..MaxTurns /\ MaxTurns \in Nat
      /\ \A c \in States :
           /\ c.input \in 0..MaxTurns /\ c.needs \in 0..MaxTurns /\ c.report.turn \in 0..MaxTurns
           /\ c.report = NoReport <=> c.report.turn = 0
           /\ c.report.turn <= turn
  BY StateFacts
<1> USE DEF Telling, Typed, RowFollowsNode, ReportInRow, QuestionInRow,
      FirstTurnAsks, PollerKnowsTheRow, AnswersHold, ClarifyCarriesQuestion, States,
      AfterOutcome, BetweenTurns, BeforeRunning, BeforeFindings, Over, Lossless
<1>1. CASE Save
  BY <1>0, <1>1 DEF Save, turnVars, pollVars
<1>2. CASE ReadRow
  <2>1. CASE row.status \in {"failed", "queued"}
    <3>1. /\ answer' = [status |-> row.status, turn |-> turn, asks |-> 0, question |-> 0]
          /\ poll' = poll
      BY <1>2, <2>1 DEF ReadRow, Tell
    <3>2. node \in Nodes
      BY DEF IInv, Turns
    <3>3. row.status = "failed" => node \in BetweenTurns
      BY <2>1, <3>2 DEF Nodes
    <3>4. QED
      BY <1>0, <1>2, <2>1, <3>1, <3>3 DEF ReadRow, turnVars
  <2>2. CASE row.status \notin {"failed", "queued"}
    <3> DEFINE about == IF row = NoRow THEN 0 ELSE turn
    <3>1. /\ poll' = [at |-> "checkpoint", question |-> row.question, turn |-> about]
          /\ answer' = answer
      BY <1>2, <2>2 DEF ReadRow
    <3>2. poll' \in [at: {"checkpoint"}, question: 0..MaxTurns, turn: 0..MaxTurns]
      BY <1>0, <3>1
    <3>3. QED
      BY <1>0, <1>2, <2>2, <3>1, <3>2 DEF ReadRow, turnVars
  <2>3. QED
    BY <2>1, <2>2
<1>3. CASE ReadCheckpoint
  <2> DEFINE s == Classify(saved)
             q == IF s = "clarifying" THEN poll.question ELSE 0
             about == IF poll.turn = turn THEN turn ELSE 0
  <2>1. poll.at = "checkpoint" /\ poll' = [at |-> "idle"]
    BY <1>3 DEF ReadCheckpoint
  <2>2. answer' = [status |-> s, turn |-> about, asks |-> saved.needs, question |-> q]
    BY <1>3 DEF ReadCheckpoint, Tell
  <2>3. poll.question \in 0..MaxTurns /\ poll.turn \in 0..MaxTurns
    BY <2>1
  <2>4. /\ s \in {"unknown", "done", "clarifying", "running"}
        /\ s = "done" <=> saved.report # NoReport
        /\ s = "clarifying" <=> saved.report = NoReport /\ saved.needs # 0
    BY <1>0, Classes
  <2> HIDE DEF s
  <2>5. /\ q \in 0..MaxTurns /\ (s = "clarifying" => q = poll.question)
        /\ about \in 0..turn /\ (about # 0 => poll.turn = turn)
    BY <1>0, <2>3
  <2> HIDE DEF q, about
  <2>6. UNCHANGED <<turnVars, saved>>
    BY <1>3 DEF ReadCheckpoint
  <2>7. Typed'
    BY <1>0, <2>1, <2>2, <2>4, <2>5, <2>6 DEF turnVars
  <2>8. /\ answer'.status = s /\ answer'.turn = about /\ answer'.question = q
        /\ answer'.asks = saved.needs
        /\ poll'.at = "idle"
    BY <2>1, <2>2
  <2>9. AnswersHold' /\ ClarifyCarriesQuestion' /\ PollerKnowsTheRow'
    BY <1>0, <2>1, <2>4, <2>5, <2>6, <2>8 DEF turnVars
  <2>10. QED
    BY <2>6, <2>7, <2>9 DEF turnVars
<1>4. CASE UNCHANGED vars
  BY <1>4 DEF vars, turnVars, pollVars
<1>5. QED
  BY <1>1, <1>2, <1>3, <1>4 DEF Poll

LEMMA TellingHolds == Spec => [](IInv /\ Findings /\ Telling)
<1>1. IInv /\ Findings /\ Telling /\ [Next]_vars => Telling'
  BY TurnStepTelling, OtherStepTelling DEF Next
<1>2. QED
  BY <1>1, InitFindings, NextFindings, InitTelling, InvariantHolds, PTL DEF Spec

\* The types of the row, the checkpoint, the writer's plan and the poller.
THEOREM StatusTyping == Spec => []TypeOK
<1>1. IInv /\ Telling => TypeOK
  <2> SUFFICES ASSUME IInv, Telling PROVE TypeOK
    OBVIOUS
  <2>1. \A c \in {mem, saved, kept} : c \in Checkpoint
    BY DEF IInv, Checkpoints
  <2>2. poll.at \in {"idle", "checkpoint"} /\
        answer.status \in {"none", "queued", "failed", "unknown", "running", "clarifying", "done"}
    BY DEF Telling, Typed
  <2>3. QED
    BY <2>1, <2>2 DEF TypeOK, Checkpoint, IInv, Turns, PlanIsLegal, DraftsFollowPlan, Telling, Typed
<1>2. QED
  BY <1>1, TellingHolds, PTL

\* After any number of turns and deletes: as long as no write of the row has
\* failed and no worker has died, the row and the checkpoint tell the same
\* between turns, which is what lets the poller read the two one after the
\* other; a report that the row has never had is one of a deleted session.
THEOREM StoresTellTheSame == Spec => []StoresAgree
<1>1. IInv /\ Findings /\ Telling => StoresAgree
  <2> SUFFICES ASSUME IInv, Findings, Telling, node = "idle", saved = mem, Lossless
               PROVE  /\ row.status = "done" =>
                           Classify(saved) = "done" /\ saved.report.turn = row.report
                      /\ row.status = "clarifying" =>
                           /\ saved.needs # 0 /\ Classify(saved) \in {"clarifying", "done"}
                           /\ saved.report.turn <= Larger(row.report, deleted)
    BY DEF StoresAgree
  <2>1. /\ turn \in Nat /\ saved \in States
        /\ saved.needs \in 0..MaxTurns /\ saved.report.turn \in 0..MaxTurns
        /\ saved.report = NoReport <=> saved.report.turn = 0
    BY StateFacts DEF States
  <2>2. /\ Classify(saved) = "done" <=> saved.report # NoReport
        /\ Classify(saved) = "clarifying" <=> saved.report = NoReport /\ saved.needs # 0
    BY <2>1, Classes DEF Telling, RowFollowsNode
  <2>3. row.report \in Nat /\ deleted \in Nat /\ saved.report.turn \in Nat
    BY <2>1, SettingsAssumption DEF Telling, Typed
  <2>4. saved.report.turn <= row.report \/ saved.report.turn <= deleted
    BY DEF Telling, ReportInRow
  <2>5. saved.report.turn <= Larger(row.report, deleted)
    BY <2>3, <2>4 DEF Larger
  <2>6. QED
    BY <2>1, <2>2, <2>5 DEF Telling, ReportInRow, QuestionInRow, AfterOutcome, BetweenTurns
<1>2. QED
  BY <1>1, TellingHolds, PTL

\* A poller of a session that is told to ask the user has the question, the
\* latest of that session, although the status and the question were read
\* from two stores at two moments and the session may be deleted at any.
THEOREM QuestionComesAlong == Spec => []ClarifyCarriesQuestion
<1>1. Telling => ClarifyCarriesQuestion
  BY DEF Telling
<1>2. QED
  BY <1>1, TellingHolds, PTL

\* In the first turn of a thread that is not deleted, a poll that says how
\* the turn ended is not contradicted by a later one, unless a write of the
\* row failed or a worker died: the client may stop polling there.  Only a
\* last event that Redis refuses turns what was said into "failed".
THEOREM SettledAnswersStay == Spec => SettledAnswerStays
<1> DEFINE Stays == (/\ answer.turn = 1 /\ answer.status \in {"done", "clarifying", "failed"}
                     /\ answer'.turn = 1 /\ Lossless' /\ deleted' = 0)
                    => \/ answer'.status = answer.status
                       \/ answer'.status = "failed" /\ "refused" \in hurt'
<1>1. IInv /\ Findings /\ Telling /\ [Next]_vars => [Stays]_vars
  <2> SUFFICES ASSUME IInv, Findings, Telling, Next,
                      answer.turn = 1, answer.status \in {"done", "clarifying", "failed"},
                      answer'.turn = 1, Lossless', deleted' = 0
               PROVE  \/ answer'.status = answer.status
                      \/ answer'.status = "failed" /\ "refused" \in hurt'
    OBVIOUS
  <2>0. /\ turn \in 0..MaxTurns
        /\ \A c \in States :
             /\ c.needs \in 0..MaxTurns /\ c.report.turn \in 0..MaxTurns
             /\ c.report = NoReport <=> c.report.turn = 0
    BY StateFacts
  <2>1. CASE ReadRow
    <3>1. /\ answer' = answer \/ (/\ row.status \in {"failed", "queued"}
                                 /\ answer' = [status |-> row.status, turn |-> turn,
                                               asks |-> 0, question |-> 0])
          /\ hurt' = hurt /\ deleted' = deleted
      BY <2>1 DEF ReadRow, Tell, turnVars
    <3>2. CASE answer' # answer
      <4>1. /\ row.status \in {"failed", "queued"} /\ turn = 1 /\ deleted = 0 /\ Lossless
            /\ answer'.status = row.status
        BY <3>1, <3>2 DEF Lossless
      <4>2. CASE answer.status = "done"
        <5>1. node = "store" \/ Over("done")
          BY <2>0, <4>1, <4>2 DEF Telling, AnswersHold, ReportInRow, States
        <5>2. QED
          BY <3>1, <4>1, <5>1 DEF Telling, RowFollowsNode, Over
      <4>3. CASE answer.status = "clarifying"
        <5>1. Over("clarifying")
          BY <2>0, <4>1, <4>3 DEF Telling, AnswersHold, FirstTurnAsks, States
        <5>2. QED
          BY <3>1, <4>1, <5>1 DEF Over
      <4>4. CASE answer.status = "failed"
        BY <4>1, <4>4 DEF Telling, AnswersHold
      <4>5. QED
        BY <4>2, <4>3, <4>4
    <3>3. QED
      BY <3>2
  <2>2. CASE ReadCheckpoint
    <3>1. /\ answer'.status = Classify(saved) /\ turn = 1 /\ poll.turn = 1 /\ poll.at = "checkpoint"
          /\ hurt' = hurt /\ deleted' = deleted /\ Lossless /\ deleted = 0
      BY <2>2 DEF ReadCheckpoint, Tell, turnVars, Lossless
    <3>2. /\ Classify(saved) = "done" <=> saved.report # NoReport
          /\ Classify(saved) = "clarifying" <=> saved.report = NoReport /\ saved.needs # 0
      BY <2>0, Classes DEF Telling, RowFollowsNode, States
    <3>3. CASE answer.status = "done"
      BY <2>0, <3>1, <3>2, <3>3 DEF Telling, AnswersHold, States
    <3>4. CASE answer.status = "clarifying"
      <4>1. saved.needs # 0
        BY <3>1, <3>4 DEF Telling, AnswersHold
      <4>2. saved.report.turn = 0
        BY <3>1, <4>1 DEF Telling, FirstTurnAsks, States
      <4>3. QED
        BY <2>0, <3>1, <3>2, <3>4, <4>1, <4>2 DEF States
    <3>5. CASE answer.status = "failed"
      BY <3>1, <3>5 DEF Telling, AnswersHold
    <3>6. QED
      BY <3>3, <3>4, <3>5
  <2>3. CASE ~Poll
    <3>1. answer' = answer
      BY <2>3 DEF Next, Request, TurnStep, Touch, Accept, RequestFails, RequestLost, Start, Clarify, Ask,
         Brief, Supervise, SetRunning, Plan, Draft, Finish, Store, Audit, Publish, NodeRaises,
         RowWriteRaises, EventRaises, RecordFailure, Crash, Delete, Save, pollVars
    <3>2. QED
      BY <3>1
  <2>4. QED
    BY <2>1, <2>2, <2>3 DEF Poll
<1>2. QED
  BY <1>1, TellingHolds, PTL DEF Spec, SettledAnswerStays
=============================================================================
