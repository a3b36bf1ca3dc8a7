------------------------------ MODULE MCAgents ------------------------------
(***************************************************************************)
(* Three instances side by side; `part` says which of them runs:           *)
(*   "faults"  the Context Hub with all faults but Postgres's, a document  *)
(*             deleted only after its upload has answered;                 *)
(*   "ingest"  the Context Hub with unreadable content only, a document    *)
(*             deleted at any time, and fair;                              *)
(*   "agents"  the supervisor and its sub-agents, fair.                    *)
(***************************************************************************)
EXTENDS ContextHub, Sequences

CONSTANTS Tools, MaxCalls, MaxIterations, MaxConcurrent, MaxToolRounds, MayFail

ASSUME SupervisorAssumption ==
  /\ {MaxCalls, MaxConcurrent} \subseteq Nat
  /\ {MaxIterations, MaxToolRounds} \subseteq Nat \ {0}

VARIABLES part, pc, iterations, calls, answered, topic, rounds, sources, notes

Ingest == INSTANCE ContextHub WITH Faults <- {"content"}, EarlyDelete <- TRUE
Agents == INSTANCE Supervisor

agentVars == <<pc, iterations, calls, answered, topic, rounds, sources, notes>>
allVars == <<part, vars, agentVars>>

AgentsInit ==
  /\ part \in {"faults", "ingest", "agents"}
  /\ Init /\ Agents!Init

In(p, step) == part = p /\ UNCHANGED part /\ step

AgentsNext ==
  \/ In("faults", Next) /\ UNCHANGED agentVars
  \/ In("ingest", Ingest!Next) /\ UNCHANGED agentVars
  \/ In("agents", Agents!Next) /\ UNCHANGED vars

\* The fairness of Ingest!FairSpec and Agents!FairSpec.
AgentsFairness ==
  /\ \A d \in Docs :
       /\ WF_allVars(In("ingest", Ingest!UploadStep(d)) /\ UNCHANGED agentVars)
       /\ WF_allVars(In("ingest", Ingest!DeleteStep(d)) /\ UNCHANGED agentVars)
  /\ \A w \in Workers : WF_allVars(In("ingest", Ingest!IngestStep(w)) /\ UNCHANGED agentVars)
  /\ WF_allVars(In("agents", Agents!SupervisorStep) /\ UNCHANGED vars)
  /\ \A i \in Agents!Slots : WF_allVars(In("agents", Agents!TopicStep(i)) /\ UNCHANGED vars)

AgentsSpec == AgentsInit /\ [][AgentsNext]_allVars /\ AgentsFairness

----------------------------------------------------------------------------
\* The types of both components.
AgentsTypeOK == TypeOK /\ Agents!TypeOK

\* ContextHub: a file always has a row that names it, when nobody deletes
\* the document during its upload.
FilesAreNamed == part = "faults" => NoOrphanObject

\* ContextHub: while content is all that can go wrong, a processing document
\* has somebody working on it, is indexed once, and is settled in the end.
IngestHasOwner == part = "ingest" => ProcessingHasOwner
IngestedOnce == part = "ingest" => IndexedOnce
IngestEnds ==
  \A d \in Docs : (part = "ingest" /\ status[d] = "processing") ~> status[d] # "processing"

\* Supervisor: the settings cap the topics of a turn.
SpendingIsCapped == Agents!SpendingIsCapped

\* Supervisor: every tool call has its answer before the model is asked.
EveryCallIsResolved == Agents!EveryCallIsResolved

\* Supervisor: one finding per announced source.
NotesMatchSources == Agents!NotesMatchSources

\* Supervisor: whatever the model answers, both loops end.
ResearchEnds == part = "agents" ~> pc \in {"end", "failed"}
=============================================================================
