----------------------------- MODULE Supervisor -----------------------------
(***************************************************************************)
(* The research stage of one turn: the supervisor graph (supervisor <->    *)
(* supervisor_tools) that delegates topics, and for each topic the         *)
(* research graph (llm_call <-> tool_node -> compress_research) that runs  *)
(* concurrently with the others under a semaphore.                         *)
(*                                                                         *)
(* The model's answers are the environment: any sequence of tool calls.    *)
(* A call is its position in the answer; texts are abstracted, a finding   *)
(* is counted.  The LLM API refuses a history in which a tool call has no  *)
(* ToolMessage, which is what the comments of both graphs guard against.   *)
(***************************************************************************)
EXTENDS Naturals, Sequences, FiniteSets

CONSTANTS
  Tools,          \* tool names the model may call; Known are the bound ones
  MaxCalls,       \* bound on the tool calls of one answer
  MaxIterations,  \* settings.max_researcher_iterations
  MaxConcurrent,  \* settings.max_concurrent_researchers
  MaxToolRounds,  \* settings.max_tool_call_iterations
  MayFail         \* may an LLM call or a search tool raise, or an answer be malformed?

Known == {"think_tool", "ConductResearch", "ResearchComplete"}

VARIABLES
  pc,          \* "supervisor", "tools", "gather", "end" or "failed"
  iterations,  \* research_iterations
  calls,       \* the tool names of the last answer, in order
  answered,    \* which of them have their ToolMessage
  topic,       \* where the sub-agent of each call is
  rounds,      \* its tool_call_iterations
  sources,     \* how many `source` events were written to the stream
  notes        \* how many ConductResearch findings the history holds

vars == <<pc, iterations, calls, answered, topic, rounds, sources, notes>>

Slots   == 1..MaxCalls
Answers == UNION {[1..n -> Tools] : n \in 0..MaxCalls}
TopicPc == {"none", "waiting", "llm_call", "tool_node", "compress", "done", "raised"}

TypeOK ==
  /\ pc \in {"supervisor", "tools", "gather", "end", "failed"}
  /\ iterations \in 0..MaxIterations
  /\ calls \in Answers
  /\ answered \subseteq DOMAIN calls
  /\ topic \in [Slots -> TopicPc]
  /\ rounds \in [Slots -> 0..MaxToolRounds]
  /\ sources \in Nat
  /\ notes \in Nat

Init ==
  /\ pc = "supervisor"
  /\ iterations = 0
  /\ calls = <<>>
  /\ answered = {}
  /\ topic = [i \in Slots |-> "none"]
  /\ rounds = [i \in Slots |-> 0]
  /\ sources = 0
  /\ notes = 0

----------------------------------------------------------------------------
(* The supervisor graph.                                                   *)

\* Mutant: the cap is compared before the turn is counted.
ShouldContinueLate(answer, turn) ==
  IF answer = <<>> \/ turn > MaxIterations THEN "end" ELSE "tools"

\* should_continue.
ShouldContinue(answer, turn) ==
  IF answer = <<>> \/ turn >= MaxIterations THEN "end" ELSE "tools"

HistoryAccepted == answered = DOMAIN calls

SupervisorTurn ==
  /\ pc = "supervisor"
  /\ HistoryAccepted
  /\ \E answer \in Answers :
       /\ calls' = answer
       /\ pc' = ShouldContinue(answer, iterations + 1)
  /\ iterations' = iterations + 1
  /\ answered' = {}
  /\ UNCHANGED <<topic, rounds, sources, notes>>

\* The LLM call raises after its retries, or refuses the history.
SupervisorRaises ==
  /\ pc = "supervisor"
  /\ MayFail \/ ~HistoryAccepted
  /\ pc' = "failed"
  /\ UNCHANGED <<iterations, calls, answered, topic, rounds, sources, notes>>

ResearchCalls == {i \in DOMAIN calls : calls[i] = "ConductResearch"}

\* supervisor_tools starts one run_topic per ConductResearch call; a call
\* without its research_topic raises before it waits for the semaphore.
StartTopics ==
  /\ pc = "tools"
  /\ pc' = "gather"
  /\ \E malformed \in (IF MayFail THEN SUBSET ResearchCalls ELSE {{}}) :
       topic' = [i \in Slots |-> IF i \in malformed THEN "raised"
                                ELSE IF i \in ResearchCalls THEN "waiting" ELSE "none"]
  /\ rounds' = [i \in Slots |-> 0]
  /\ UNCHANGED <<iterations, calls, answered, sources, notes>>

\* get_notes_from_tool_calls: the findings among the new ToolMessages.
Findings == Cardinality(ResearchCalls)

\* Mutant: a call that is not research is not answered.
AnswerResearchOnly ==
  /\ pc = "gather"
  /\ \A i \in ResearchCalls : topic[i] = "done"
  /\ answered' = ResearchCalls
  /\ notes' = notes + Findings
  /\ pc' = "supervisor"
  /\ UNCHANGED <<iterations, calls, topic, rounds, sources>>

\* Mutant: results are merged by topic, equal topics collapse.
AnswerMerged ==
  /\ pc = "gather"
  /\ \A i \in ResearchCalls : topic[i] = "done"
  /\ answered' = {i \in DOMAIN calls : calls[i] \in Known}
  /\ notes' = notes + (IF ResearchCalls = {} THEN 0 ELSE 1)
  /\ pc' = "supervisor"
  /\ UNCHANGED <<iterations, calls, topic, rounds, sources>>

\* gather returned: every call whose name is known gets its ToolMessage.
AnswerCalls ==
  /\ pc = "gather"
  /\ \A i \in ResearchCalls : topic[i] = "done"
  /\ answered' = {i \in DOMAIN calls : calls[i] \in Known}
  /\ notes' = notes + Findings
  /\ pc' = "supervisor"
  /\ UNCHANGED <<iterations, calls, topic, rounds, sources>>

\* gather raises with its first failed topic; the others go on unobserved.
GatherRaises ==
  /\ pc = "gather"
  /\ \E i \in ResearchCalls : topic[i] = "raised"
  /\ pc' = "failed"
  /\ UNCHANGED <<iterations, calls, answered, topic, rounds, sources, notes>>

----------------------------------------------------------------------------
(* run_topic and the research graph.                                       *)

Running == {i \in Slots : topic[i] \in {"llm_call", "tool_node", "compress"}}

At(i, state) == topic[i] = state
Goto(i, state) == topic' = [topic EXCEPT ![i] = state]

\* The semaphore has a place.
Acquire(i) ==
  /\ At(i, "waiting")
  /\ Cardinality(Running) < MaxConcurrent
  /\ Goto(i, "llm_call")
  /\ UNCHANGED <<pc, iterations, calls, answered, rounds, sources, notes>>

\* llm_call and route_after_llm: tools were requested, or it is time to compress.
LlmCall(i) ==
  /\ At(i, "llm_call")
  /\ Goto(i, "tool_node") \/ Goto(i, "compress")
  /\ UNCHANGED <<pc, iterations, calls, answered, rounds, sources, notes>>

\* Mutant: a topic keeps searching as long as its model asks to.
ToolNodeUncapped(i) ==
  /\ At(i, "tool_node")
  /\ UNCHANGED rounds
  /\ Goto(i, "llm_call")
  /\ UNCHANGED <<pc, iterations, calls, answered, sources, notes>>

\* tool_node and route_after_tools.
ToolNode(i) ==
  /\ At(i, "tool_node")
  /\ rounds' = [rounds EXCEPT ![i] = @ + 1]
  /\ Goto(i, IF rounds[i] + 1 < MaxToolRounds THEN "llm_call" ELSE "compress")
  /\ UNCHANGED <<pc, iterations, calls, answered, sources, notes>>

\* compress_research ends the sub-agent, which frees its place in the
\* semaphore and announces the topic as a source.
Compress(i) ==
  /\ At(i, "compress")
  /\ Goto(i, "done")
  /\ sources' = sources + 1
  /\ UNCHANGED <<pc, iterations, calls, answered, rounds, notes>>

TopicRaises(i) ==
  /\ MayFail
  /\ i \in Running
  /\ Goto(i, "raised")
  /\ UNCHANGED <<pc, iterations, calls, answered, rounds, sources, notes>>

----------------------------------------------------------------------------
SupervisorStep == SupervisorTurn \/ SupervisorRaises \/ StartTopics
                  \/ AnswerCalls \/ GatherRaises
TopicStep(i) == \/ Acquire(i) \/ LlmCall(i) \/ ToolNode(i) \/ Compress(i)
                \/ TopicRaises(i)

Next == SupervisorStep \/ \E i \in Slots : TopicStep(i)

Spec == Init /\ [][Next]_vars

\* Every await of the graphs returns or raises (llm_request_timeout_seconds,
\* the 30 s HTTP timeout); the event loop serves every sub-agent.
FairSpec ==
  Spec /\ WF_vars(SupervisorStep) /\ \A i \in Slots : WF_vars(TopicStep(i))

----------------------------------------------------------------------------
(* Properties.                                                             *)

\* The settings cap what a turn spends, whatever the model answers and also
\* when topics of a failed round go on by themselves: the turn of the model
\* that reaches max_researcher_iterations no longer delegates, so that one
\* round of topics less is researched than there are turns.
SpendingIsCapped == sources <= (MaxIterations - 1) * MaxCalls

\* When the supervisor speaks again, every call of its last answer has been
\* resolved, so that the LLM API accepts the history.
EveryCallIsResolved == pc = "supervisor" => HistoryAccepted

\* The writer gets one finding for each source the user saw announced, and
\* no finding that was not announced.
NotesMatchSources == pc \in {"supervisor", "tools", "end"} => notes = sources

\* The model cannot keep the research going: whatever it answers, both
\* loops end.
ResearchEnds == <>(pc \in {"end", "failed"})
=============================================================================
