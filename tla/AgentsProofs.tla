---------------------------- MODULE AgentsProofs ----------------------------
(***************************************************************************)
(* Proofs about the two components that MCAgents runs: the supervisor with *)
(* its sub-agents, for any bounds and any answers of the model, and the    *)
(* Context Hub in the two settings of the run, whose invariants are those  *)
(* of ContextHubProofs.                                                    *)
(***************************************************************************)
EXTENDS MCAgents, ContextHubProofs, FiniteSetTheorems

----------------------------------------------------------------------------
(* The supervisor and its sub-agents.                                      *)

Slots == Agents!Slots
ResearchCalls == Agents!ResearchCalls
Done == {i \in Slots : topic[i] = "done"}

\* The topics that may still announce a source.
Pending == {i \in Slots : topic[i] \in {"waiting", "llm_call", "tool_node", "compress"}}

\* What n rounds of topics may announce.
Budget(n) == n * MaxCalls

\* Both loops count below their caps while they go on.
LoopsAreCapped ==
  /\ pc \in {"supervisor", "tools", "gather"} => iterations < MaxIterations
  /\ \A i \in Slots : topic[i] \in {"waiting", "llm_call", "tool_node"} => rounds[i] < MaxToolRounds

\* While topics are gathered each of them is one research call and the done
\* ones are announced but not yet noted; otherwise none is under way.
GatheredAreNoted ==
  /\ pc = "gather" =>
       /\ \A i \in Slots : topic[i] = "none" <=> i \notin ResearchCalls
       /\ sources = notes + Cardinality(Done)
  /\ pc \in {"supervisor", "tools", "end"} =>
       /\ \A i \in Slots : topic[i] \in {"none", "done"}
       /\ notes = sources

\* The rounds that have begun pay for the sources announced and for those
\* still pending, also after a failed round has left its topics behind.
SpendingIsPaid ==
  /\ pc = "tools" => iterations >= 1 /\ sources <= Budget(iterations - 1)
  /\ pc \in {"supervisor", "gather"} => sources + Cardinality(Pending) <= Budget(iterations)
  /\ pc \in {"supervisor", "tools", "end"} => Pending = {}
  /\ sources + Cardinality(Pending) <= Budget(MaxIterations - 1)

SInv ==
  /\ Agents!TypeOK /\ LoopsAreCapped /\ GatheredAreNoted /\ SpendingIsPaid
  /\ Tools \subseteq Agents!Known => Agents!EveryCallIsResolved

\* The sets whose size the settings bound or the notes count are finite.
LEMMA SlotsAreFinite ==
  /\ IsFiniteSet(Slots)
  /\ \A S \in SUBSET Slots :
       /\ IsFiniteSet(S) /\ Cardinality(S) \in Nat
       /\ \A i \in Slots \ S : Cardinality(S \cup {i}) = Cardinality(S) + 1
       /\ \A i \in S : Cardinality(S \ {i}) = Cardinality(S) - 1
       /\ Cardinality(S) <= MaxCalls
<1>1. IsFiniteSet(Slots) /\ Cardinality(Slots) = MaxCalls
  BY SupervisorAssumption, FS_Interval DEF Slots, Agents!Slots
<1>2. ASSUME NEW S \in SUBSET Slots
      PROVE  /\ IsFiniteSet(S) /\ Cardinality(S) \in Nat
             /\ \A i \in Slots \ S : Cardinality(S \cup {i}) = Cardinality(S) + 1
             /\ \A i \in S : Cardinality(S \ {i}) = Cardinality(S) - 1
             /\ Cardinality(S) <= MaxCalls
  <2>1. IsFiniteSet(S)
    BY <1>1, FS_Subset
  <2>2. Cardinality(S) \in Nat
    BY <2>1, FS_CardinalityType
  <2>3. \A i : i \notin S => Cardinality(S \cup {i}) = Cardinality(S) + 1
    BY <2>1, FS_AddElement
  <2>4. \A i \in S : Cardinality(S \ {i}) = Cardinality(S) - 1
    BY <2>1, FS_RemoveElement
  <2>5. Cardinality(S) <= MaxCalls
    BY <1>1, FS_Subset
  <2>6. QED
    BY <2>1, <2>2, <2>3, <2>4, <2>5
<1>3. QED
  BY <1>1, <1>2

\* One more round has MaxCalls more to spend.
LEMMA BudgetGrows ==
  \A n \in Nat : /\ Budget(n) \in Nat
                 /\ Budget(n + 1) = Budget(n) + MaxCalls
                 /\ \A m \in 0..n : Budget(m) <= Budget(n)
<1> TAKE n \in Nat
<1>1. Budget(n) \in Nat /\ Budget(n + 1) = Budget(n) + MaxCalls
  BY SupervisorAssumption DEF Budget
<1>2. ASSUME NEW m \in 0..n PROVE Budget(m) <= Budget(n)
  <2>1. n - m \in Nat /\ (n - m) * MaxCalls \in Nat /\ m * MaxCalls \in Nat
    BY SupervisorAssumption
  <2>2. (m + (n - m)) * MaxCalls = m * MaxCalls + (n - m) * MaxCalls
    BY SupervisorAssumption
  <2>3. m + (n - m) = n
    OBVIOUS
  <2>4. QED
    BY <2>1, <2>2, <2>3 DEF Budget
<1>3. QED
  BY <1>1, <1>2

\* The supervisor's module brings its own copy of the library's definition.
LEMMA SameCardinality == \A S : Agents!Cardinality(S) = Cardinality(S)
BY Zenon DEF Agents!Cardinality, Cardinality

LEMMA InitSInv == Agents!Init => SInv
<1> SUFFICES ASSUME Agents!Init PROVE SInv
  OBVIOUS
<1>1. <<>> \in Agents!Answers
  BY SupervisorAssumption DEF Agents!Answers
<1>2. Agents!TypeOK /\ LoopsAreCapped
  BY <1>1, SupervisorAssumption DEF Agents!Init, Agents!TypeOK, LoopsAreCapped, Slots, Agents!TopicPc
<1>3. Pending = {} /\ Cardinality(Pending) = 0
  BY FS_EmptySet DEF Pending, Slots, Agents!Init
<1>4. SpendingIsPaid
  <2>1. MaxIterations - 1 \in Nat
    BY SupervisorAssumption
  <2>2. Budget(0) \in Nat /\ Budget(MaxIterations - 1) \in Nat
    BY <2>1, BudgetGrows
  <2>3. QED
    BY <1>3, <2>2 DEF SpendingIsPaid, Agents!Init
<1>5. GatheredAreNoted
  BY DEF Agents!Init, GatheredAreNoted, Slots
<1>6. Agents!EveryCallIsResolved
  BY DEF Agents!Init, Agents!EveryCallIsResolved, Agents!HistoryAccepted
<1>7. QED
  BY <1>2, <1>4, <1>5, <1>6 DEF SInv

\* A step of the supervisor graph.
LEMMA SupervisorStepSInv ==
  ASSUME SInv, Agents!SupervisorStep
  PROVE  SInv'
<1> USE DEF Slots, ResearchCalls, LoopsAreCapped, GatheredAreNoted, Agents!TypeOK,
            Agents!EveryCallIsResolved, Agents!HistoryAccepted
<1>0. /\ Agents!TypeOK /\ LoopsAreCapped /\ GatheredAreNoted /\ SpendingIsPaid
      /\ Cardinality(Pending) \in Nat /\ Cardinality(Pending) <= MaxCalls
      /\ Tools \subseteq Agents!Known => Agents!EveryCallIsResolved
  BY SlotsAreFinite DEF SInv, Pending
<1>1. CASE Agents!SupervisorTurn
  <2>1. PICK answer \in Agents!Answers :
          /\ calls' = answer
          /\ pc' = Agents!ShouldContinue(answer, iterations + 1)
    BY <1>1 DEF Agents!SupervisorTurn
  <2>2. /\ pc = "supervisor" /\ iterations' = iterations + 1 /\ answered' = {}
        /\ UNCHANGED <<topic, rounds, sources, notes>>
    BY <1>1 DEF Agents!SupervisorTurn
  <2>3. /\ pc' \in {"end", "tools"}
        /\ pc' = "tools" => iterations' < MaxIterations
        /\ iterations' \in 0..MaxIterations
    BY <1>0, <2>1, <2>2, SupervisorAssumption DEF Agents!ShouldContinue
  <2>4. Pending' = Pending
    BY <2>2 DEF Pending
  <2>5. SpendingIsPaid'
    BY <1>0, <2>2, <2>3, <2>4, FS_EmptySet DEF SpendingIsPaid
  <2>6. QED
    BY <1>0, <2>1, <2>2, <2>3, <2>5 DEF SInv
<1>2. CASE Agents!SupervisorRaises \/ Agents!GatherRaises
  <2>1. /\ pc' = "failed"
        /\ UNCHANGED <<iterations, calls, answered, topic, rounds, sources, notes>>
    BY <1>2 DEF Agents!SupervisorRaises, Agents!GatherRaises
  <2>2. Pending' = Pending
    BY <2>1 DEF Pending
  <2>3. SpendingIsPaid'
    BY <1>0, <2>1, <2>2 DEF SpendingIsPaid
  <2>4. QED
    BY <1>0, <2>1, <2>3 DEF SInv
<1>3. CASE Agents!StartTopics
  <2>1. PICK malformed \in SUBSET ResearchCalls :
          topic' = [i \in Slots |-> IF i \in malformed THEN "raised"
                                   ELSE IF i \in ResearchCalls THEN "waiting" ELSE "none"]
    BY <1>3 DEF Agents!StartTopics
  <2>2. /\ pc = "tools" /\ pc' = "gather"
        /\ rounds' = [i \in Slots |-> 0]
        /\ UNCHANGED <<iterations, calls, answered, sources, notes>>
    BY <1>3 DEF Agents!StartTopics
  <2>3. Done' = {} /\ ResearchCalls' = ResearchCalls
    BY <2>1, <2>2 DEF Done, Agents!ResearchCalls
  <2>4. Cardinality({}) = 0
    BY FS_EmptySet
  <2>5. Agents!TypeOK'
    BY <1>0, <2>1, <2>2, SupervisorAssumption DEF Agents!TopicPc
  <2>6. LoopsAreCapped'
    BY <1>0, <2>1, <2>2, SupervisorAssumption
  <2>7. GatheredAreNoted'
    BY <1>0, <2>1, <2>2, <2>3, <2>4
  <2>8. SpendingIsPaid'
    <3>1. Pending' \in SUBSET Slots
      BY DEF Pending
    <3>2. Cardinality(Pending') \in Nat /\ Cardinality(Pending') <= MaxCalls
      BY <3>1, SlotsAreFinite
    <3>3. /\ iterations \in Nat /\ iterations - 1 \in Nat /\ iterations \in 0..(MaxIterations - 1)
          /\ MaxIterations - 1 \in Nat /\ sources \in Nat /\ sources <= Budget(iterations - 1)
      BY <1>0, <2>2, SupervisorAssumption DEF SpendingIsPaid
    <3>4. Budget((iterations - 1) + 1) = Budget(iterations - 1) + MaxCalls /\ Budget(iterations - 1) \in Nat
      BY <3>3, BudgetGrows
    <3>5. Budget(iterations) <= Budget(MaxIterations - 1)
          /\ Budget(iterations) \in Nat /\ Budget(MaxIterations - 1) \in Nat
      BY <3>3, BudgetGrows
    <3>6. (iterations - 1) + 1 = iterations
      BY <3>3
    <3>7. sources' + Cardinality(Pending') <= Budget(iterations)
      BY <2>2, <3>2, <3>3, <3>4, <3>6, SupervisorAssumption
    <3>8. QED
      BY <2>2, <3>2, <3>3, <3>5, <3>7 DEF SpendingIsPaid
  <2>9. QED
    BY <2>2, <2>5, <2>6, <2>7, <2>8 DEF SInv
<1>4. CASE Agents!AnswerCalls
  <2>1. /\ pc = "gather" /\ pc' = "supervisor"
        /\ \A i \in ResearchCalls : topic[i] = "done"
        /\ answered' = {i \in DOMAIN calls : calls[i] \in Agents!Known}
        /\ notes' = notes + Cardinality(ResearchCalls)
        /\ UNCHANGED <<iterations, calls, topic, rounds, sources>>
    BY <1>4, SameCardinality DEF Agents!AnswerCalls, Agents!Findings
  <2>2. Pending' = Pending
    BY <2>1 DEF Pending
\* Each research call is a done topic and every other slot is free.
  <2>3. PICK n \in 0..MaxCalls : calls \in [1..n -> Tools]
    BY <1>0 DEF Agents!Answers
  <2>4. ResearchCalls \subseteq Slots /\ DOMAIN calls = 1..n
    BY <2>3, SupervisorAssumption DEF Agents!ResearchCalls, Agents!Slots
  <2>5. ResearchCalls = Done /\ \A i \in Slots : topic[i] \in {"none", "done"}
    BY <1>0, <2>1, <2>4 DEF Done
  <2>6. Cardinality(Done) \in Nat
    BY SlotsAreFinite DEF Done
  <2>7. GatheredAreNoted' /\ notes' \in Nat
    BY <1>0, <2>1, <2>5, <2>6
  <2>8. Tools \subseteq Agents!Known => answered' = DOMAIN calls'
    BY <2>1, <2>3
  <2>9. SpendingIsPaid'
    <3>1. Pending = {}
      BY <2>5 DEF Pending
    <3>2. QED
      BY <1>0, <2>1, <2>2, <3>1 DEF SpendingIsPaid
  <2>10. QED
    BY <1>0, <2>1, <2>7, <2>8, <2>9 DEF SInv
<1>5. QED
  BY <1>1, <1>2, <1>3, <1>4 DEF Agents!SupervisorStep

\* A step of a sub-agent.
LEMMA TopicStepSInv ==
  ASSUME SInv, NEW i \in Slots, Agents!TopicStep(i)
  PROVE  SInv'
<1> USE DEF Slots, ResearchCalls, LoopsAreCapped, GatheredAreNoted, Agents!TypeOK,
            Agents!EveryCallIsResolved, Agents!HistoryAccepted, Agents!At, Agents!Goto
<1>0. /\ Agents!TypeOK /\ LoopsAreCapped /\ GatheredAreNoted /\ SpendingIsPaid
      /\ Tools \subseteq Agents!Known => Agents!EveryCallIsResolved
  BY DEF SInv
<1>1. /\ topic[i] \in {"waiting", "llm_call", "tool_node", "compress"}
      /\ pc \in {"gather", "failed"}
      /\ UNCHANGED <<pc, iterations, calls, answered, notes>>
      /\ ResearchCalls' = ResearchCalls
  BY <1>0 DEF Agents!TopicStep, Agents!Acquire, Agents!LlmCall, Agents!ToolNode, Agents!Compress,
     Agents!TopicRaises, Agents!Running, Agents!ResearchCalls
<1>2. PICK s \in {"llm_call", "tool_node", "compress", "done", "raised"} :
        topic' = [topic EXCEPT ![i] = s]
  BY DEF Agents!TopicStep, Agents!Acquire, Agents!LlmCall, Agents!ToolNode, Agents!Compress, Agents!TopicRaises
<1>3. /\ topic' \in [Slots -> Agents!TopicPc]
      /\ topic'[i] = s /\ \A j \in Slots : j # i => topic'[j] = topic[j]
  BY <1>0, <1>2 DEF Agents!TopicPc
\* Only a pending topic announces a source, and it is pending no longer.
<1>4. SpendingIsPaid'
  <2>1. Pending \in SUBSET Slots /\ i \in Pending
    BY <1>1 DEF Pending
  <2>2. /\ Cardinality(Pending) \in Nat /\ sources \in Nat
        /\ Cardinality(Pending \ {i}) = Cardinality(Pending) - 1
    BY <1>0, <2>1, SlotsAreFinite
  <2>3. Pending' = Pending \/ Pending' = Pending \ {i}
    BY <1>1, <1>3, <2>1 DEF Pending
  <2>4. sources' = sources \/ (sources' = sources + 1 /\ Pending' = Pending \ {i})
    BY <1>3, <2>1 DEF Agents!TopicStep, Agents!Acquire, Agents!LlmCall, Agents!ToolNode, Agents!Compress,
       Agents!TopicRaises, Pending
  <2>5. sources' + Cardinality(Pending') <= sources + Cardinality(Pending)
        /\ sources' + Cardinality(Pending') \in Nat
    <3>1. \/ Cardinality(Pending') = Cardinality(Pending) /\ sources' = sources
          \/ Cardinality(Pending') = Cardinality(Pending \ {i}) /\ sources' \in {sources, sources + 1}
      BY <2>3, <2>4
    <3>2. i \in Pending => Cardinality(Pending) >= 1
      BY <2>1, <2>2, <3>1, SlotsAreFinite
    <3>3. QED
      BY <2>1, <2>2, <3>1, <3>2
  <2>6. iterations \in Nat /\ MaxIterations - 1 \in Nat
    BY <1>0, SupervisorAssumption
  <2>7. Budget(iterations) \in Nat /\ Budget(MaxIterations - 1) \in Nat
    BY <2>6, BudgetGrows
  <2>8. QED
    BY <1>0, <1>1, <2>2, <2>5, <2>6, <2>7 DEF SpendingIsPaid
\* The rounds of a topic.
<1>5. rounds' \in [Slots -> 0..MaxToolRounds] /\ LoopsAreCapped'
  <2>1. CASE Agents!ToolNode(i)
    <3>1. /\ topic[i] = "tool_node" /\ rounds' = [rounds EXCEPT ![i] = rounds[i] + 1]
          /\ topic' = [topic EXCEPT ![i] = IF rounds[i] + 1 < MaxToolRounds THEN "llm_call" ELSE "compress"]
      BY <2>1 DEF Agents!ToolNode
    <3>2. rounds[i] \in 0..MaxToolRounds /\ rounds[i] < MaxToolRounds
      BY <1>0, <3>1
    <3>3. QED
      BY <1>0, <1>1, <3>1, <3>2, SupervisorAssumption
  <2>2. CASE ~Agents!ToolNode(i)
    <3>1. rounds' = rounds /\ (s \in {"llm_call", "tool_node"} => topic[i] \in {"waiting", "llm_call"})
      BY <1>3, <2>2 DEF Agents!TopicStep, Agents!Acquire, Agents!LlmCall, Agents!Compress, Agents!TopicRaises
    <3>2. QED
      BY <1>0, <1>1, <1>3, <3>1
  <2>3. QED
    BY <2>1, <2>2
\* What is announced is done.
<1>6. sources' \in Nat /\ GatheredAreNoted'
  <2>1. Done \in SUBSET Slots /\ i \notin Done
    BY <1>1 DEF Done
  <2>2. CASE Agents!Compress(i)
    <3>1. s = "done" /\ sources' = sources + 1
      BY <1>3, <2>2 DEF Agents!Compress
    <3>2. Done' = Done \cup {i}
      BY <1>3, <3>1 DEF Done
    <3>3. Cardinality(Done \cup {i}) = Cardinality(Done) + 1 /\ Cardinality(Done) \in Nat
      BY <2>1, SlotsAreFinite
    <3>4. QED
      BY <1>0, <1>1, <1>3, <3>1, <3>2, <3>3
  <2>3. CASE ~Agents!Compress(i)
    <3>1. s # "done" /\ sources' = sources
      BY <1>3, <2>3 DEF Agents!TopicStep, Agents!Acquire, Agents!LlmCall, Agents!ToolNode, Agents!TopicRaises
    <3>2. Done' = Done
      BY <1>1, <1>3, <3>1 DEF Done
    <3>3. QED
      BY <1>0, <1>1, <1>3, <3>1, <3>2
  <2>4. QED
    BY <2>2, <2>3
<1>7. Agents!TypeOK'
  BY <1>0, <1>1, <1>3, <1>5, <1>6
<1>8. QED
  BY <1>0, <1>1, <1>4, <1>5, <1>6, <1>7 DEF SInv

LEMMA NextSInv == SInv /\ [Agents!Next]_agentVars => SInv'
<1> SUFFICES ASSUME SInv, [Agents!Next]_agentVars PROVE SInv'
  OBVIOUS
<1>1. CASE Agents!Next
  BY <1>1, SupervisorStepSInv, TopicStepSInv DEF Agents!Next, Slots
<1>2. CASE UNCHANGED agentVars
  BY <1>2 DEF agentVars, SInv, Agents!TypeOK, LoopsAreCapped, SpendingIsPaid, Pending, Slots,
     GatheredAreNoted, Agents!EveryCallIsResolved, Agents!HistoryAccepted, Done, ResearchCalls, Agents!ResearchCalls
<1>3. QED
  BY <1>1, <1>2

----------------------------------------------------------------------------
(* The Context Hub of the run.                                             *)

\* The Context Hub's proofs for the part "ingest".
Hub == INSTANCE ContextHubProofs WITH Faults <- {"content"}, EarlyDelete <- TRUE

\* Its operations and its invariants are those of the run's instance.
LEMMA IngestIsHub == Ingest!Next => Hub!Next
BY Zenon DEF Ingest!Next, Ingest!Create, Ingest!UploadStep, Ingest!PutFile, Ingest!SetKey, Ingest!Send,
   Ingest!UploadRaises, Ingest!DeleteRead, Ingest!MayDelete, Ingest!DeleteStep, Ingest!DeleteObject,
   Ingest!DeleteRow, Ingest!DeleteRaises, Ingest!IngestStep, Ingest!Take, Ingest!SetUp,
   Ingest!SetupRaises, Ingest!ReadDocument, Ingest!Extract, Ingest!Embed, Ingest!InsertChunks,
   Ingest!MarkReady, Ingest!IngestRaises, Ingest!IngestFaultsAt, Ingest!MarkFailed, Ingest!WorkerCrash,
   Ingest!On, Ingest!Move, Ingest!Stop, Ingest!Mark, Ingest!Exists, Ingest!rowVars, Ingest!workVars,
   Hub!Next, Hub!Create, Hub!UploadStep, Hub!PutFile, Hub!SetKey, Hub!Send,
   Hub!UploadRaises, Hub!DeleteRead, Hub!MayDelete, Hub!DeleteStep, Hub!DeleteObject,
   Hub!DeleteRow, Hub!DeleteRaises, Hub!IngestStep, Hub!Take, Hub!SetUp,
   Hub!SetupRaises, Hub!ReadDocument, Hub!Extract, Hub!Embed, Hub!InsertChunks,
   Hub!MarkReady, Hub!IngestRaises, Hub!IngestFaultsAt, Hub!MarkFailed, Hub!WorkerCrash,
   Hub!On, Hub!Move, Hub!Stop, Hub!Mark, Hub!Exists, Hub!rowVars, Hub!workVars

LEMMA HubInvariants ==
  /\ Hub!IInv = IInv /\ Hub!OInv = OInv /\ Hub!DInv = DInv
  /\ Hub!IInv' = IInv' /\ Hub!OInv' = OInv' /\ Hub!DInv' = DInv'
BY Zenon DEF IInv, OInv, DInv, TypeOK, UploadPc, DeletePc, IngestPc, BusyWorkerHasDoc, NewIsUnknown, AboutToMark,
   BlankHasNone, ReadyIsIndexed, NoOrphanChunks, Found, Exists, IdleWorkerHasNone, ProcessingHasOwner, OneDelivery,
   IndexedOnce, BeforeInsert,
   Hub!IInv, Hub!OInv, Hub!DInv, Hub!TypeOK, Hub!UploadPc, Hub!DeletePc, Hub!IngestPc,
   Hub!BusyWorkerHasDoc, Hub!NewIsUnknown, Hub!AboutToMark, Hub!BlankHasNone, Hub!ReadyIsIndexed, Hub!NoOrphanChunks,
   Hub!Found, Hub!Exists, Hub!IdleWorkerHasNone, Hub!ProcessingHasOwner, Hub!OneDelivery,
   Hub!IndexedOnce, Hub!BeforeInsert

\* A step of the part "ingest", whose faults are unreadable content only.
LEMMA IngestStepInv ==
  ASSUME IInv, OInv, DInv, Ingest!Next
  PROVE  IInv' /\ OInv' /\ DInv'
<1>1. Hub!DeliveredOnce /\ Hub!WorkGoesOn
  BY DEF Hub!DeliveredOnce, Hub!WorkGoesOn
<1>2. Hub!ContextHubAssumption
  BY ContextHubAssumption DEF Hub!ContextHubAssumption, Hub!FaultNames
<1>3. [Hub!Next]_Hub!vars
  BY IngestIsHub
<1>4. Hub!IInv /\ Hub!OInv /\ Hub!DInv
  BY HubInvariants
<1>5. Hub!IInv'
  BY Zenon, <1>2, <1>3, <1>4, Hub!NextIInv
<1>6. Hub!OInv'
  BY Zenon, <1>1, <1>2, <1>3, <1>4, Hub!NextOInv
<1>7. Hub!DInv'
  BY Zenon, <1>1, <1>2, <1>3, <1>4, Hub!NextDInv
<1>8. QED
  BY <1>5, <1>6, <1>7, HubInvariants

----------------------------------------------------------------------------
(* The run's specification.                                                *)

RunInv ==
  /\ part \in {"faults", "ingest", "agents"}
  /\ SInv /\ IInv
  /\ part = "ingest" => OInv /\ DInv
  /\ part = "faults" /\ UploadsAreAlone => FInv

LEMMA RunInvHolds == AgentsSpec => []RunInv
<1>1. AgentsInit => RunInv
  BY InitSInv, InitIInv, InitOInv, InitDInv, InitFInv DEF AgentsInit, RunInv
<1>2. RunInv /\ [AgentsNext]_allVars => RunInv'
  <2> SUFFICES ASSUME RunInv, [AgentsNext]_allVars PROVE RunInv'
    OBVIOUS
  <2>1. CASE In("faults", Next) /\ UNCHANGED agentVars
    <3>1. part = "faults" /\ part' = part /\ [Next]_vars /\ [Agents!Next]_agentVars
      BY <2>1 DEF In
    <3>2. SInv' /\ IInv'
      BY <3>1, NextSInv, NextIInv DEF RunInv
    <3>3. UploadsAreAlone => FInv'
      BY <3>1, NextFInv DEF RunInv
    <3>4. QED
      BY <3>1, <3>2, <3>3 DEF RunInv
  <2>2. CASE In("ingest", Ingest!Next) /\ UNCHANGED agentVars
    <3>1. part = "ingest" /\ part' = part /\ Ingest!Next /\ [Agents!Next]_agentVars
      BY <2>2 DEF In
    <3>2. SInv'
      BY <3>1, NextSInv DEF RunInv
    <3>3. IInv' /\ OInv' /\ DInv'
      BY <3>1, IngestStepInv DEF RunInv
    <3>4. QED
      BY <3>1, <3>2, <3>3 DEF RunInv
  <2>3. CASE In("agents", Agents!Next) /\ UNCHANGED vars
    <3>1. part = "agents" /\ part' = part /\ [Next]_vars /\ [Agents!Next]_agentVars
      BY <2>3 DEF In
    <3>2. SInv' /\ IInv'
      BY <3>1, NextSInv, NextIInv DEF RunInv
    <3>3. QED
      BY <3>1, <3>2 DEF RunInv
  <2>4. CASE UNCHANGED allVars
    <3>1. part' = part /\ [Next]_vars /\ [Agents!Next]_agentVars
      BY <2>4 DEF allVars
    <3>2. SInv' /\ IInv'
      BY <3>1, NextSInv, NextIInv DEF RunInv
    <3>3. (OInv /\ DInv) => (OInv' /\ DInv')
      BY <2>4 DEF allVars, vars, OInv, DInv, IdleWorkerHasNone, ProcessingHasOwner, OneDelivery,
         IndexedOnce, BeforeInsert
    <3>4. UploadsAreAlone /\ FInv => FInv'
      BY <2>4 DEF allVars, vars, FInv, FilesFollowRows, NoOrphanObject, Exists
    <3>5. QED
      BY <3>1, <3>2, <3>3, <3>4 DEF RunInv
  <2>5. QED
    BY <2>1, <2>2, <2>3, <2>4 DEF AgentsNext
<1>3. QED
  BY <1>1, <1>2, PTL DEF AgentsSpec

\* The types of the supervisor and of the Context Hub.
THEOREM AgentsTyping == AgentsSpec => []AgentsTypeOK
<1>1. RunInv => AgentsTypeOK
  BY DEF RunInv, SInv, IInv, AgentsTypeOK
<1>2. QED
  BY <1>1, RunInvHolds, PTL

\* However many topics the model delegates in its answers, whichever of them
\* fail, and also when a failed round leaves topics running by themselves:
\* no more sources are announced than the settings' rounds of calls pay for.
THEOREM SpendingCapHolds == AgentsSpec => []SpendingIsCapped
<1>1. RunInv => SpendingIsCapped
  <2> SUFFICES ASSUME RunInv PROVE SpendingIsCapped
    OBVIOUS
  <2>1. Cardinality(Pending) \in Nat /\ sources \in Nat
    BY SlotsAreFinite DEF RunInv, SInv, Agents!TypeOK, Pending
  <2>2. MaxIterations - 1 \in Nat
    BY SupervisorAssumption
  <2>3. Budget(MaxIterations - 1) \in Nat
    BY <2>2, BudgetGrows
  <2>4. sources <= Budget(MaxIterations - 1)
    BY <2>1, <2>3 DEF RunInv, SInv, SpendingIsPaid
  <2>5. QED
    BY <2>4 DEF Budget, SpendingIsCapped, Agents!SpendingIsCapped
<1>2. QED
  BY <1>1, RunInvHolds, PTL

\* When the model only calls tools it was given, the history it is asked
\* with next always has an answer for each call.
THEOREM EveryCallIsAnswered ==
  ASSUME Tools \subseteq Agents!Known
  PROVE  AgentsSpec => []EveryCallIsResolved
<1>1. RunInv => EveryCallIsResolved
  BY DEF RunInv, SInv, EveryCallIsResolved
<1>2. QED
  BY <1>1, RunInvHolds, PTL

\* Between two rounds of the supervisor, and when it has ended, there are as
\* many findings as sources were announced.
THEOREM NotesAreTheSources == AgentsSpec => []NotesMatchSources
<1>1. RunInv => NotesMatchSources
  BY DEF RunInv, SInv, GatheredAreNoted, NotesMatchSources, Agents!NotesMatchSources
<1>2. QED
  BY <1>1, RunInvHolds, PTL

\* The Context Hub of the run: what its two settings promise.
THEOREM RunKeepsFiles ==
  ASSUME UploadsAreAlone
  PROVE  AgentsSpec => []FilesAreNamed
<1>1. RunInv => FilesAreNamed
  BY DEF RunInv, FInv, FilesAreNamed
<1>2. QED
  BY <1>1, RunInvHolds, PTL

\* With unreadable content only: a processing document has an owner.
THEOREM RunKeepsOwners == AgentsSpec => []IngestHasOwner
<1>1. RunInv => IngestHasOwner
  BY DEF RunInv, OInv, IngestHasOwner
<1>2. QED
  BY <1>1, RunInvHolds, PTL

\* With unreadable content only: a document is indexed once.
THEOREM RunIndexesOnce == AgentsSpec => []IngestedOnce
<1>1. RunInv => IngestedOnce
  BY DEF RunInv, DInv, IngestedOnce
<1>2. QED
  BY <1>1, RunInvHolds, PTL
=============================================================================
