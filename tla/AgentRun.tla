---- MODULE AgentRun ----
(***************************************************************************)
(* The graph of AgentRunner.run for the task in hand: two nodes,           *)
(* call_model and execute_tool, under the timer of wait_for.  The model    *)
(* answers with any tool calls, of tools that are registered or not; a     *)
(* message keeps what the loop depends on: who it is from, the calls it    *)
(* makes, the call it answers and whether the answer is an error.  The     *)
(* number of supersteps is limited by LangGraph.  AgentService has the     *)
(* initial state and the steps around a run.                               *)
(***************************************************************************)
EXTENDS Integers, Sequences, FiniteSets, SequencesExt

CONSTANTS
  Names,           \* names a model may call a tool by
  Registered,      \* those the registry knows
  MaxCalls,        \* bound: tool calls in one answer of the model
  RecursionLimit   \* supersteps LangGraph allows a graph

ASSUME RunAssumption ==
  /\ Registered \subseteq Names
  /\ MaxCalls \in Nat /\ RecursionLimit \in Nat \ {0}

VARIABLES
  maxIterations,  \* max_iterations of the task
  pc,             \* the node to run, "done" with no graph running
  messages,       \* state["messages"], without the prompt
  iterations,     \* state["iterations"]
  steps,          \* supersteps done
  answers,        \* the local results of execute_tool_node
  open,           \* a tool has its database engine or HTTP client open
  result          \* the status and error run() returned

runVars == <<maxIterations, pc, messages, iterations, steps, answers, open, result>>

CallLists == UNION {[1..n -> Names] : n \in 0..MaxCalls}
AIMessage(calls) == [from |-> "model", calls |-> calls, answers |-> 0, failed |-> FALSE]
ToolMessage(call, failed) == [from |-> "tool", calls |-> <<>>, answers |-> call, failed |-> failed]

NoResult == [status |-> "none", error |-> "none"]
Returns(status, error) ==
  /\ pc' = "done"
  /\ result' = [status |-> status, error |-> error]

(* The locals of run() at its start, or without a run. *)
Fresh(limit) ==
  /\ maxIterations' = limit /\ messages' = <<>> /\ iterations' = 0 /\ steps' = 0
  /\ answers' = <<>> /\ open' = FALSE /\ result' = NoResult

StartRun(limit) == pc' = "call_model" /\ Fresh(limit)
ForgetRun       == pc' = "done" /\ Fresh(0)

----
WithinSteps == steps < RecursionLimit

(* should_continue, after the n-th call of the model. *)
ShouldContinue(calls, n) == calls # <<>> /\ n < maxIterations

ConcludeAtLimit(calls, n) ==  \* mutant: the limit alone decides
  IF n >= maxIterations
  THEN Returns("failed", "max_iterations_reached")
  ELSE Returns("completed", "none")

(* What run() makes of the last message once the graph has ended. *)
Conclude(calls, n) ==
  IF calls # <<>> /\ n >= maxIterations
  THEN Returns("failed", "max_iterations_reached")
  ELSE Returns("completed", "none")

(* call_model: the model answers, and the graph goes on or ends. *)
CallModel ==
  /\ pc = "call_model" /\ WithinSteps
  /\ steps' = steps + 1 /\ iterations' = iterations + 1
  /\ \E calls \in CallLists :
       /\ messages' = Append(messages, AIMessage(calls))
       /\ \/ ShouldContinue(calls, iterations') /\ pc' = "execute_tool" /\ UNCHANGED result
          \/ ~ ShouldContinue(calls, iterations') /\ Conclude(calls, iterations')
  /\ UNCHANGED <<maxIterations, answers, open>>

(* The model's client raises; a TimeoutError of its own is taken for the   *)
(* expiry of the task's timer.                                             *)
CallModelRaises ==
  /\ pc = "call_model" /\ WithinSteps
  /\ Returns("failed", "exception") \/ Returns("timeout", "timeout")
  /\ UNCHANGED <<maxIterations, messages, iterations, steps, answers, open>>

Calls == Last(messages).calls

Executing == pc = "execute_tool" /\ WithinSteps
Call == Len(answers) + 1
Answer(failed) == answers' = Append(answers, ToolMessage(Call, failed))

(* A call of an unregistered tool, or one the tool refuses before it opens *)
(* anything: a query that is not a SELECT, a private address, an input     *)
(* that is missing.                                                        *)
RefuseCall ==
  /\ Executing /\ Call <= Len(Calls) /\ ~ open
  /\ Answer(TRUE)
  /\ UNCHANGED <<maxIterations, pc, messages, iterations, steps, open, result>>

OpenTool ==
  /\ Executing /\ Call <= Len(Calls) /\ ~ open
  /\ Calls[Call] \in Registered
  /\ open' = TRUE
  /\ UNCHANGED <<maxIterations, pc, messages, iterations, steps, answers, result>>

CloseToolOnSuccess ==  \* mutant: no finally
  /\ Executing /\ Call <= Len(Calls) /\ open
  /\ \E failed \in BOOLEAN : Answer(failed) /\ open' = failed
  /\ UNCHANGED <<maxIterations, pc, messages, iterations, steps, result>>

(* The query or the request returns or raises, and what it used is closed. *)
CloseTool ==
  /\ Executing /\ Call <= Len(Calls) /\ open
  /\ \E failed \in BOOLEAN : Answer(failed) /\ open' = FALSE
  /\ UNCHANGED <<maxIterations, pc, messages, iterations, steps, result>>

ToolsDoneDropsErrors ==  \* mutant: a call that fails gets no message
  /\ Executing /\ Call > Len(Calls)
  /\ messages' = messages \o SelectSeq(answers, LAMBDA m : ~ m.failed) /\ answers' = <<>>
  /\ steps' = steps + 1
  /\ pc' = "call_model"
  /\ UNCHANGED <<maxIterations, iterations, open, result>>

(* execute_tool_node returns and its answers join the messages. *)
ToolsDone ==
  /\ Executing /\ Call > Len(Calls)
  /\ messages' = messages \o answers /\ answers' = <<>>
  /\ steps' = steps + 1
  /\ pc' = "call_model"
  /\ UNCHANGED <<maxIterations, iterations, open, result>>

(* GraphRecursionError, caught as any exception. *)
OutOfSteps ==
  /\ pc # "done" /\ ~ WithinSteps
  /\ Returns("failed", "exception")
  /\ UNCHANGED <<maxIterations, messages, iterations, steps, answers, open>>

(* The timer of wait_for cancels the graph in any await, and waits for the *)
(* tool that is open to close.                                             *)
TimesOut ==
  /\ pc # "done"
  /\ Returns("timeout", "timeout")
  /\ open' = FALSE
  /\ UNCHANGED <<maxIterations, messages, iterations, steps, answers>>

Graph ==
  \/ CallModel \/ CallModelRaises
  \/ RefuseCall \/ OpenTool \/ CloseTool \/ ToolsDone
  \/ OutOfSteps

----
ModelMessages == {i \in DOMAIN messages : messages[i].from = "model"}

(* Message k answers call j of the message that many places before it.     *)
Answers(k, j) == messages[k].from = "tool" /\ messages[k].answers = j

(* The model is only called with a conversation in which every tool call   *)
(* has its answer, in the order of the calls and right after them, and no  *)
(* answer is without its call: models refuse any other.  No tool that is   *)
(* not registered or raises, and none of the limits, upsets it.            *)
CallsAnswered ==
  pc = "call_model" =>
    /\ \A i \in ModelMessages : \A j \in DOMAIN messages[i].calls :
         i + j \in DOMAIN messages /\ Answers(i + j, j)
    /\ \A k \in DOMAIN messages \ ModelMessages : \E i \in ModelMessages :
         \E j \in DOMAIN messages[i].calls : k = i + j /\ Answers(k, j)

(* The model's last message, which nothing has answered.                   *)
LastWord == messages # <<>> /\ Last(messages).from = "model" /\ Calls = <<>>
CutOff == messages # <<>> /\ Last(messages).from = "model" /\ Calls # <<>>

(* What run() returns agrees with the conversation: completed exactly when *)
(* the model has said its last word, be it in the last iteration, and      *)
(* max_iterations_reached exactly when the model was cut off with the limit*)
(* used up, for zero and negative limits too.  The limit bounds the calls  *)
(* of the model but for the first one.                                     *)
VerdictMatches ==
  LET n == Cardinality(ModelMessages) IN
    /\ n <= IF maxIterations > 1 THEN maxIterations ELSE 1
    /\ result.status = "completed" <=> LastWord
    /\ result.error = "max_iterations_reached" <=> CutOff /\ n >= maxIterations

(* A tool that opened a database engine or an HTTP client has closed it    *)
(* before the next call of the model and before run() returns, whether it  *)
(* succeeds, raises or is cancelled by the timer.                          *)
ToolClosed == pc # "execute_tool" => ~ open

====
