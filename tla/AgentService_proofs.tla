---- MODULE AgentService_proofs ----
(***************************************************************************)
(* Proofs about AgentService and the runs in it, for any tasks, models,    *)
(* limits, batch sizes and number of failures.                             *)
(***************************************************************************)
EXTENDS AgentService, RedisStream_proofs, FiniteSetTheorems, TLAPS

----
(* One run.  Its types first. *)
Messages == [from : {"model", "tool"}, calls : Seq(Names), answers : Nat, failed : BOOLEAN]
RunResults == [status : Statuses \union {"none"}, error : {"none", "exception", "timeout", "max_iterations_reached"}]

RunType ==
  /\ maxIterations \in Int /\ pc \in {"call_model", "execute_tool", "done"}
  /\ messages \in Seq(Messages) /\ answers \in Seq(Messages)
  /\ iterations \in Nat /\ steps \in Nat /\ open \in BOOLEAN
  /\ result \in RunResults

(* In the conversation up to entry n calls and answers match. *)
Matched(n) ==
  /\ \A i \in ModelMessages : i <= n => \A j \in DOMAIN messages[i].calls :
       i + j \in 1..n /\ Answers(i + j, j)
  /\ \A k \in 1..n : k \notin ModelMessages => \E i \in ModelMessages :
       \E j \in DOMAIN messages[i].calls : k = i + j /\ Answers(k, j)

(* While tools run the last message is the model's, and answers holds the  *)
(* answers to its first calls.                                             *)
Conversation ==
  /\ pc = "call_model" => answers = <<>> /\ Matched(Len(messages))
  /\ pc = "execute_tool" =>
       /\ Len(messages) >= 1 /\ Len(messages) \in ModelMessages
       /\ Matched(Len(messages) - 1)
       /\ Len(answers) <= Len(Calls)
       /\ \A k \in 1..Len(answers) : answers[k].from = "tool" /\ answers[k].answers = k

(* iterations counts the messages of the model, within the limit. *)
Counted ==
  /\ IsFiniteSet(ModelMessages) /\ Cardinality(ModelMessages) = iterations
  /\ iterations <= IF maxIterations > 1 THEN maxIterations ELSE 1
  /\ pc = "call_model" => iterations = 0 \/ iterations < maxIterations
  /\ pc = "execute_tool" => iterations < maxIterations

Verdict ==
  /\ result.status = "completed" <=> LastWord
  /\ result.error = "max_iterations_reached" <=> CutOff /\ iterations >= maxIterations
  /\ pc # "done" => result = NoResult

(* A tool is only open at a call, with supersteps left. *)
Opened == open => pc = "execute_tool" /\ Call <= Len(Calls) /\ WithinSteps

RunInv == RunType /\ Conversation /\ Counted /\ Verdict /\ Opened

LEMMA NoMessages == <<>> \in Seq(Messages) /\ Len(<<>>) = 0 /\ DOMAIN <<>> = {}
OBVIOUS

LEMMA FreshRun ==
  ASSUME NEW limit \in Int, Fresh(limit), pc' \in {"call_model", "done"}
  PROVE  RunInv'
<1>1. /\ messages' = <<>> /\ answers' = <<>> /\ iterations' = 0 /\ steps' = 0 /\ open' = FALSE
      /\ result' = NoResult /\ maxIterations' = limit
  BY DEF Fresh
<1>2. NoResult \in RunResults
  BY DEF RunResults, NoResult
<1>3. RunType'
  BY <1>1, <1>2, NoMessages DEF RunType
<1>4. ModelMessages' = {} /\ Len(messages') = 0
  BY <1>1, NoMessages DEF ModelMessages
<1>5. Conversation'
  BY <1>1, <1>4 DEF Conversation, Matched
<1>6. Counted'
  BY <1>1, <1>4, FS_EmptySet DEF Counted
<1>7. Verdict' /\ Opened'
  BY <1>1 DEF Verdict, Opened, NoResult, LastWord, CutOff
<1> QED BY <1>3, <1>5, <1>6, <1>7 DEF RunInv

(* A run that is cut short, wherever it is. *)
LEMMA RunEnds ==
  ASSUME RunInv, pc # "done", NEW status \in {"failed", "timeout"}, NEW error \in {"exception", "timeout"},
         Returns(status, error), open' = FALSE,
         UNCHANGED <<maxIterations, messages, iterations, steps, answers>>
  PROVE  RunInv' /\ result'.status \in Statuses
<1>1. pc' = "done" /\ result' = [status |-> status, error |-> error]
  BY DEF Returns
<1>2. result'.status = status /\ result'.error = error /\ result' \in RunResults
  BY <1>1 DEF RunResults, Statuses
<1>3. RunType'
  BY <1>1, <1>2 DEF RunInv, RunType
<1>4. ModelMessages' = ModelMessages
  BY DEF ModelMessages
<1>5. Conversation' /\ Opened'
  BY <1>1 DEF Conversation, Opened
<1>6. Counted'
  BY <1>1, <1>4 DEF RunInv, Counted
<1>7. Verdict'
  <2>1. ~ LastWord /\ ~ (CutOff /\ iterations >= maxIterations)
    BY DEF RunInv, Verdict, NoResult
  <2>2. ~ LastWord' /\ ~ (CutOff' /\ iterations' >= maxIterations')
    BY <2>1 DEF LastWord, CutOff, Calls
  <2> QED BY <1>1, <1>2, <2>2 DEF Verdict
<1> QED BY <1>2, <1>3, <1>5, <1>6, <1>7 DEF RunInv, Statuses

LEMMA NotOpen == RunInv /\ (pc = "call_model" \/ ~ WithinSteps) => ~ open
BY DEF RunInv, Opened

(* Messages that are added leave what is matched as it is. *)
LEMMA StaysMatched ==
  ASSUME NEW n \in Nat, messages \in Seq(Messages), messages' \in Seq(Messages),
         n <= Len(messages), n <= Len(messages'), Matched(n),
         \A i \in 1..n : messages'[i] = messages[i]
  PROVE  Matched(n)'
<1>1. /\ DOMAIN messages = 1..Len(messages) /\ Len(messages) \in Nat
      /\ DOMAIN messages' = 1..Len(messages') /\ Len(messages') \in Nat
  OBVIOUS
<1>2. \A i \in 1..n : i \in ModelMessages <=> i \in ModelMessages'
  BY <1>1 DEF ModelMessages
<1>3. \A i \in ModelMessages' : i <= n => i \in 1..n
  BY <1>1 DEF ModelMessages
<1>4. \A k \in 1..n : \A j : Answers(k, j) <=> Answers(k, j)'
  BY DEF Answers
<1>5. ASSUME NEW i \in ModelMessages', i <= n, NEW j \in DOMAIN messages'[i].calls
      PROVE  i + j \in 1..n /\ Answers(i + j, j)'
  <2>1. i \in 1..n /\ i \in ModelMessages /\ j \in DOMAIN messages[i].calls
    BY <1>2, <1>3, <1>5
  <2>2. i + j \in 1..n /\ Answers(i + j, j)
    BY <2>1, <1>5 DEF Matched
  <2> QED BY <2>2, <1>4
<1>6. ASSUME NEW k \in 1..n, k \notin ModelMessages'
      PROVE  \E i \in ModelMessages' : \E j \in DOMAIN messages'[i].calls : k = i + j /\ Answers(k, j)'
  <2>1. k \notin ModelMessages
    BY <1>2, <1>6
  <2>2. PICK i \in ModelMessages : \E j \in DOMAIN messages[i].calls : k = i + j /\ Answers(k, j)
    BY <2>1 DEF Matched
  <2>3. PICK j \in DOMAIN messages[i].calls : k = i + j /\ Answers(k, j)
    BY <2>2
  <2>4. i \in 1..Len(messages) /\ messages[i] \in Messages
    BY <1>1 DEF ModelMessages
  <2>5. messages[i].calls \in Seq(Names)
    BY <2>4 DEF Messages
  <2>6. j \in Nat \ {0}
    BY <2>5
  <2>7. i \in 1..n
    BY <2>3, <2>4, <2>6
  <2> QED BY <2>3, <2>7, <1>2, <1>4
<1> QED BY <1>5, <1>6 DEF Matched

LEMMA CallModelRun ==
  ASSUME RunInv, CallModel
  PROVE  RunInv' /\ (pc' = "done" => result'.status \in Statuses)
<1>1. PICK calls \in CallLists :
        /\ messages' = Append(messages, AIMessage(calls))
        /\ \/ ShouldContinue(calls, iterations') /\ pc' = "execute_tool" /\ UNCHANGED result
           \/ ~ ShouldContinue(calls, iterations') /\ Conclude(calls, iterations')
  BY DEF CallModel
<1>2. /\ pc = "call_model" /\ steps' = steps + 1 /\ iterations' = iterations + 1
      /\ UNCHANGED <<maxIterations, answers, open>>
  BY DEF CallModel
<1>3. /\ maxIterations \in Int /\ messages \in Seq(Messages) /\ answers = <<>>
      /\ iterations \in Nat /\ steps \in Nat /\ result = NoResult /\ ~ open
      /\ Matched(Len(messages))
      /\ iterations = 0 \/ iterations < maxIterations
  BY <1>2, NotOpen DEF RunInv, RunType, Conversation, Counted, Verdict
<1>4. PICK n \in Nat : n = Len(messages)
  BY <1>3
<1>5. calls \in Seq(Names)
  BY DEF CallLists
<1>6. AIMessage(calls) \in Messages /\ AIMessage(calls).from = "model" /\ AIMessage(calls).calls = calls
  BY <1>5 DEF AIMessage, Messages
<1>7. /\ messages' \in Seq(Messages) /\ Len(messages') = n + 1
      /\ messages'[n + 1] = AIMessage(calls)
      /\ \A i \in 1..n : messages'[i] = messages[i]
  BY <1>1, <1>3, <1>4, <1>6
<1>8. DOMAIN messages = 1..n /\ DOMAIN messages' = 1..(n + 1)
  BY <1>3, <1>4, <1>7
<1>9. Last(messages') = AIMessage(calls)
  BY <1>7 DEF Last
<1>10. ModelMessages' = ModelMessages \union {n + 1} /\ n + 1 \notin ModelMessages
  BY <1>4, <1>6, <1>7, <1>8 DEF ModelMessages
<1>11. Matched(n)'
  BY <1>3, <1>4, <1>7, StaysMatched
<1>12. CASE pc' = "execute_tool" /\ ShouldContinue(calls, iterations') /\ UNCHANGED result
  <2>1. RunType'
    BY <1>2, <1>7, <1>12 DEF RunInv, RunType
  <2>2. Conversation'
    BY <1>2, <1>3, <1>4, <1>7, <1>9, <1>5, <1>6, <1>10, <1>11, <1>12 DEF Conversation, Calls
  <2>3. Counted'
    <3>1. IsFiniteSet(ModelMessages') /\ Cardinality(ModelMessages') = iterations + 1
      BY <1>10, FS_AddElement DEF RunInv, Counted
    <3> QED BY <3>1, <1>2, <1>3, <1>12 DEF Counted, ShouldContinue
  <2>4. Verdict' /\ Opened'
    <3>1. ~ LastWord' /\ ~ iterations' >= maxIterations'
      BY <1>2, <1>3, <1>6, <1>9, <1>12 DEF LastWord, Calls, ShouldContinue
    <3> QED BY <1>2, <1>3, <1>12, <3>1 DEF Verdict, Opened, NoResult
  <2> QED BY <1>12, <2>1, <2>2, <2>3, <2>4 DEF RunInv
<1>13. CASE ~ ShouldContinue(calls, iterations') /\ Conclude(calls, iterations')
  <2>1. /\ pc' = "done" /\ result' \in RunResults /\ result'.status \in Statuses
        /\ result'.error = "max_iterations_reached" <=> calls # <<>> /\ iterations' >= maxIterations
        /\ result'.status = "completed" <=> calls = <<>>
    <3>1. iterations' \in Nat
      BY <1>2, <1>3
    <3>2. CASE calls # <<>> /\ iterations' >= maxIterations
      <4>1. pc' = "done" /\ result' = [status |-> "failed", error |-> "max_iterations_reached"]
        BY <3>2, <1>13 DEF Conclude, Returns
      <4> QED BY <4>1, <3>2 DEF RunResults, Statuses
    <3>3. CASE ~ (calls # <<>> /\ iterations' >= maxIterations)
      <4>1. pc' = "done" /\ result' = [status |-> "completed", error |-> "none"]
        BY <3>3, <1>13 DEF Conclude, Returns
      <4>2. calls = <<>>
        BY <3>1, <3>3, <1>3, <1>13 DEF ShouldContinue
      <4> QED BY <4>1, <4>2 DEF RunResults, Statuses
    <3> QED BY <3>2, <3>3
  <2>2. RunType'
    BY <1>2, <1>7, <2>1 DEF RunInv, RunType
  <2>3. Conversation' /\ Opened'
    BY <2>1, <1>2, <1>3 DEF Conversation, Opened
  <2>4. Counted'
    <3>1. IsFiniteSet(ModelMessages') /\ Cardinality(ModelMessages') = iterations + 1
      BY <1>10, FS_AddElement DEF RunInv, Counted
    <3> QED BY <3>1, <1>2, <1>3, <2>1 DEF Counted
  <2>5. Verdict'
    <3>1. messages' # <<>>
      BY <1>7
    <3> QED BY <1>2, <1>6, <1>9, <2>1, <3>1 DEF Verdict, LastWord, CutOff, Calls
  <2> QED BY <2>1, <2>2, <2>3, <2>4, <2>5 DEF RunInv
<1> QED BY <1>1, <1>12, <1>13

(* An answer of a tool joins answers. *)
LEMMA AnswerRun ==
  ASSUME RunInv, Executing, Call <= Len(Calls), NEW failed \in BOOLEAN, Answer(failed), open' = FALSE,
         UNCHANGED <<maxIterations, pc, messages, iterations, steps, result>>
  PROVE  RunInv'
<1>1. /\ pc = "execute_tool" /\ answers \in Seq(Messages) /\ messages \in Seq(Messages)
      /\ Len(messages) \in ModelMessages
  BY DEF RunInv, Conversation, RunType, Executing
<1>2. PICK m \in Nat : m = Len(answers)
  BY <1>1
<1>3. DEFINE msg == ToolMessage(m + 1, failed)
<1>4. msg \in Messages /\ msg.from = "tool" /\ msg.answers = m + 1
  BY <1>2 DEF ToolMessage, Messages
<1>5. answers' = Append(answers, msg)
  BY <1>2 DEF Answer, Call
<1> HIDE DEF msg
<1>6. /\ answers' \in Seq(Messages) /\ Len(answers') = m + 1 /\ answers'[m + 1] = msg
      /\ \A k \in 1..m : answers'[k] = answers[k]
  BY <1>1, <1>2, <1>4, <1>5
<1>7. ModelMessages' = ModelMessages /\ Calls' = Calls
  BY DEF ModelMessages, Calls
<1>8. Matched(Len(messages) - 1)'
  BY <1>1, <1>7 DEF RunInv, Conversation, Matched, Answers
<1>9. \A k \in 1..(m + 1) : answers'[k].from = "tool" /\ answers'[k].answers = k
  <2> TAKE k \in 1..(m + 1)
  <2>1. CASE k = m + 1
    BY <2>1, <1>4, <1>6
  <2>2. CASE k \in 1..m
    BY <2>2, <1>1, <1>2, <1>6 DEF RunInv, Conversation
  <2> QED BY <2>1, <2>2, <1>2
<1>10. Conversation'
  BY <1>1, <1>2, <1>6, <1>7, <1>8, <1>9 DEF RunInv, Conversation, Call
<1>11. RunType'
  BY <1>6 DEF RunInv, RunType
<1>12. Counted' /\ Opened'
  BY <1>7 DEF RunInv, Counted, Opened
<1>13. Verdict'
  BY <1>7 DEF RunInv, Verdict, LastWord, CutOff
<1> QED BY <1>10, <1>11, <1>12, <1>13 DEF RunInv

LEMMA OpenToolRun ==
  ASSUME RunInv, OpenTool
  PROVE  RunInv'
<1>1. /\ pc = "execute_tool" /\ WithinSteps /\ Call <= Len(Calls) /\ open' = TRUE
      /\ UNCHANGED <<maxIterations, pc, messages, iterations, steps, answers, result>>
  BY DEF OpenTool, Executing
<1>2. ModelMessages' = ModelMessages /\ Calls' = Calls /\ Call' = Call
  BY <1>1 DEF ModelMessages, Calls, Call
<1>3. RunType'
  BY <1>1 DEF RunInv, RunType
<1>4. Conversation'
  BY <1>1, <1>2 DEF RunInv, Conversation, Matched, Answers
<1>5. Counted' /\ Verdict'
  BY <1>1, <1>2 DEF RunInv, Counted, Verdict, LastWord, CutOff, Calls
<1>6. Opened'
  BY <1>1, <1>2 DEF Opened, WithinSteps
<1> QED BY <1>3, <1>4, <1>5, <1>6 DEF RunInv

LEMMA ToolsDoneRun ==
  ASSUME RunInv, ToolsDone
  PROVE  RunInv'
<1>1. /\ pc = "execute_tool" /\ Call > Len(Calls) /\ messages' = messages \o answers
      /\ answers' = <<>> /\ steps' = steps + 1 /\ pc' = "call_model"
      /\ UNCHANGED <<maxIterations, iterations, open, result>>
  BY DEF ToolsDone, Executing
<1>2. /\ messages \in Seq(Messages) /\ answers \in Seq(Messages)
      /\ iterations \in Nat /\ steps \in Nat /\ maxIterations \in Int
  BY DEF RunInv, RunType
<1>3. PICK n \in Nat, m \in Nat : n = Len(messages) /\ m = Len(answers)
  BY <1>2
<1>4. /\ n >= 1 /\ n \in ModelMessages /\ Matched(n - 1) /\ m <= Len(Calls)
      /\ \A k \in 1..m : answers[k].from = "tool" /\ answers[k].answers = k
      /\ iterations < maxIterations /\ result = NoResult
  BY <1>1, <1>3 DEF RunInv, Conversation, Counted, Verdict
<1>5. messages[n] \in Messages /\ Calls = messages[n].calls
  BY <1>2, <1>3, <1>4 DEF Calls, Last
<1>6. messages[n].calls \in Seq(Names)
  BY <1>5 DEF Messages
<1>7. DOMAIN messages[n].calls = 1..m
  BY <1>1, <1>3, <1>4, <1>5, <1>6 DEF Call
<1>8. /\ messages' \in Seq(Messages) /\ Len(messages') = n + m
      /\ \A i \in 1..n : messages'[i] = messages[i]
      /\ \A k \in 1..m : messages'[n + k] = answers[k]
  BY <1>1, <1>2, <1>3
<1>9. DOMAIN messages = 1..n /\ DOMAIN messages' = 1..(n + m)
  BY <1>2, <1>3, <1>8
<1>10. \A k \in 1..(n + m) : k \in 1..n \/ (k - n \in 1..m /\ k = n + (k - n))
  BY <1>3
<1>11. \A k \in 1..m : Answers(n + k, k)'
  BY <1>4, <1>8 DEF Answers
<1>12. ModelMessages' = ModelMessages
  <2>1. \A k \in 1..(n + m) : messages'[k].from = "model" <=> k \in ModelMessages
    <3> TAKE k \in 1..(n + m)
    <3>1. CASE k \in 1..n
      BY <3>1, <1>8, <1>9 DEF ModelMessages
    <3>2. CASE k - n \in 1..m /\ k = n + (k - n)
      <4>1. messages'[k].from = "tool"
        BY <3>2, <1>4, <1>8
      <4>2. k \notin ModelMessages
        BY <3>2, <1>3, <1>9 DEF ModelMessages
      <4> QED BY <4>1, <4>2
    <3> QED BY <3>1, <3>2, <1>10
  <2> QED BY <2>1, <1>9 DEF ModelMessages
<1>13. Matched(n - 1)'
  <2>1. PICK p \in Nat : p = n - 1
    BY <1>3, <1>4
  <2>2. Matched(p)'
    BY <2>1, <1>2, <1>3, <1>4, <1>8, StaysMatched
  <2> QED BY <2>1, <2>2
<1>14. Matched(n + m)'
  <2>1. ASSUME NEW i \in ModelMessages', NEW j \in DOMAIN messages'[i].calls
        PROVE  i + j \in 1..(n + m) /\ Answers(i + j, j)'
    <3>1. i \in 1..n
      BY <1>9, <1>12 DEF ModelMessages
    <3>2. CASE i = n
      <4>1. j \in 1..m
        BY <3>2, <1>7, <1>8, <3>1
      <4> QED BY <4>1, <3>2, <1>3, <1>11
    <3>3. CASE i <= n - 1
      <4>1. i + j \in 1..(n - 1) /\ Answers(i + j, j)'
        BY <3>3, <1>13 DEF Matched
      <4> QED BY <4>1, <1>3
    <3> QED BY <3>1, <3>2, <3>3, <1>3
  <2>2. ASSUME NEW k \in 1..(n + m), k \notin ModelMessages'
        PROVE  \E i \in ModelMessages' : \E j \in DOMAIN messages'[i].calls : k = i + j /\ Answers(k, j)'
    <3>1. CASE k - n \in 1..m /\ k = n + (k - n)
      <4>1. n \in ModelMessages' /\ k - n \in DOMAIN messages'[n].calls
        BY <3>1, <1>4, <1>7, <1>8, <1>12
      <4>2. Answers(k, k - n)'
        BY <3>1, <1>11
      <4> QED BY <3>1, <4>1, <4>2
    <3>2. CASE k \in 1..(n - 1)
      BY <3>2, <2>2, <1>13 DEF Matched
    <3>3. k # n
      BY <2>2, <1>4, <1>12
    <3> QED BY <3>1, <3>2, <3>3, <1>10, <1>3
  <2> QED BY <2>1, <2>2 DEF Matched
<1>15. Conversation'
  BY <1>1, <1>8, <1>14 DEF Conversation
<1>16. RunType'
  BY <1>1, <1>2, <1>8, NoMessages DEF RunInv, RunType
<1>17. Counted'
  BY <1>1, <1>4, <1>12 DEF RunInv, Counted
<1>18. Verdict'
  <2>1. m >= 1 /\ n >= 1 /\ messages # <<>>
    <3>1. messages # <<>> /\ Last(messages).from = "model"
      BY <1>2, <1>3, <1>4 DEF Last, ModelMessages
    <3>2. Calls # <<>>
      BY <1>1, <3>1 DEF Verdict, LastWord, NoResult, RunInv
    <3>3. Len(Calls) # 0 /\ Len(Calls) \in Nat
      BY <1>5, <1>6, <3>2
    <3> QED BY <1>1, <1>3, <1>4, <3>1, <3>3 DEF Call
  <2>2. Last(messages').from = "tool"
    <3>1. m \in 1..m /\ messages'[n + m] = answers[m]
      BY <1>3, <1>8, <2>1
    <3> QED BY <1>4, <1>8, <3>1 DEF Last
  <2>3. ~ LastWord' /\ ~ CutOff'
    BY <2>2 DEF LastWord, CutOff
  <2> QED BY <1>1, <1>4, <2>3 DEF Verdict, NoResult
<1>19. Opened'
  BY <1>1, <1>2, <1>5, <1>6, <1>3 DEF RunInv, Opened, Call
<1> QED BY <1>15, <1>16, <1>17, <1>18, <1>19 DEF RunInv

LEMMA GraphRun ==
  ASSUME RunInv, Graph
  PROVE  RunInv' /\ (pc' = "done" => result'.status \in Statuses)
<1>1. CASE CallModel
  BY <1>1, CallModelRun
<1>2. CASE CallModelRaises
  <2>1. open' = FALSE
    BY <1>2, NotOpen DEF CallModelRaises, RunInv, RunType
  <2> QED BY <1>2, <2>1, RunEnds DEF CallModelRaises
<1>3. CASE RefuseCall
  <2>1. RunInv'
    BY <1>3, AnswerRun DEF RefuseCall, RunInv, RunType
  <2> QED BY <1>3, <2>1 DEF RefuseCall, Executing
<1>4. CASE OpenTool
  BY <1>4, OpenToolRun DEF OpenTool, Executing
<1>5. CASE CloseTool
  <2>1. RunInv'
    BY <1>5, AnswerRun DEF CloseTool
  <2> QED BY <1>5, <2>1 DEF CloseTool, Executing
<1>6. CASE ToolsDone
  BY <1>6, ToolsDoneRun DEF ToolsDone
<1>7. CASE OutOfSteps
  <2>1. open' = FALSE
    BY <1>7, NotOpen DEF OutOfSteps, RunInv, RunType
  <2> QED BY <1>7, <2>1, RunEnds DEF OutOfSteps
<1> QED BY <1>1, <1>2, <1>3, <1>4, <1>5, <1>6, <1>7 DEF Graph

LEMMA TimeoutRun ==
  ASSUME RunInv, TimesOut
  PROVE  RunInv' /\ pc' = "done" /\ result'.status \in Statuses
BY RunEnds DEF TimesOut, Returns


----
(* The worker around its runs. *)
Models  == {Default, ""} \union {t.override : t \in Tasks}
Replies == [task : Nat \ {0}, status : Statuses, model : Models]
Stages  == {"idle", "run", "publish", "memory", "publishFailed", "ack"}

ServiceType ==
  /\ tasks \in Seq(Tasks) /\ group \in GroupsUpTo(Len(tasks)) /\ stage \in Stages
  /\ last_model_used \in Models
  /\ results \in Seq(Replies) /\ logs \in Seq(Replies)
  /\ stage # "idle" => ~ Drained(group)

(* All results are of tasks the worker is past. *)
Unanswered == \A i \in DOMAIN results : results[i].task <= group.pos

(* The last result is the only one of the task in hand. *)
JustAnswered ==
  /\ Len(results) >= 1
  /\ results[Len(results)].task = InHand(group)
  /\ \A i \in DOMAIN results : i # Len(results) => results[i].task <= group.pos

(* What has been answered where the worker is; a reply that is published    *)
(* in "publish" names the model of its task.                                *)
Progress ==
  /\ stage \in {"idle", "run", "publish"} => Unanswered
  /\ stage = "memory" => JustAnswered /\ results[Len(results)].model = ResolveModelId(Task)
  /\ stage = "publishFailed" => Unanswered \/ JustAnswered
  /\ stage = "ack" => \A i \in DOMAIN results : results[i].task <= InHand(group)

LogsInPast ==
  \A k \in DOMAIN logs :
    /\ logs[k].task \in DOMAIN tasks
    /\ logs[k].task <= InHand(group)
    /\ stage \in {"idle", "run", "publish", "memory"} => logs[k].task <= group.pos

RunOfTask ==
  /\ stage \in {"run", "publish"} => last_model_used = ResolveModelId(Task)
  /\ stage = "run" => pc # "done"
  /\ stage = "publish" => result.status \in Statuses

IInv == RunInv /\ ServiceType /\ Progress /\ LogsInPast /\ LogsAgree /\ RunOfTask

LEMMA ServiceFacts ==
  ASSUME ServiceType
  PROVE  /\ group.pos \in Nat /\ group.last \in Nat /\ group.pos <= group.last
         /\ group.last <= Len(tasks) /\ Len(tasks) \in Nat /\ DOMAIN tasks = 1..Len(tasks)
         /\ InHand(group) = group.pos + 1
         /\ ~ Drained(group) => InHand(group) \in 1..Len(tasks) /\ Task \in Tasks
         /\ Len(results) \in Nat /\ DOMAIN results = 1..Len(results)
         /\ Len(logs) \in Nat /\ DOMAIN logs = 1..Len(logs)
         /\ \A i \in DOMAIN results : results[i] \in Replies
         /\ \A k \in DOMAIN logs : logs[k] \in Replies
<1>1. tasks \in Seq(Tasks) /\ group \in GroupsUpTo(Len(tasks)) /\ results \in Seq(Replies) /\ logs \in Seq(Replies)
  BY DEF ServiceType
<1>2. Len(tasks) \in Nat /\ DOMAIN tasks = 1..Len(tasks)
  BY <1>1
<1>3. /\ group.pos \in Nat /\ group.last \in Nat /\ group.pos <= group.last /\ group.last <= Len(tasks)
      /\ InHand(group) = group.pos + 1
  BY <1>1, <1>2 DEF GroupsUpTo, InHand
<1>4. ~ Drained(group) => InHand(group) \in 1..Len(tasks) /\ Task \in Tasks
  <2>1. ~ Drained(group) => InHand(group) \in 1..Len(tasks)
    BY <1>2, <1>3 DEF Drained
  <2> QED BY <2>1, <1>1 DEF Task
<1>5. /\ Len(results) \in Nat /\ DOMAIN results = 1..Len(results)
      /\ Len(logs) \in Nat /\ DOMAIN logs = 1..Len(logs)
  BY <1>1
<1>6. /\ \A i \in DOMAIN results : results[i] \in Replies
      /\ \A k \in DOMAIN logs : logs[k] \in Replies
  BY <1>1
<1> QED BY <1>2, <1>3, <1>4, <1>5, <1>6

LEMMA ResolvesToModel == \A t \in Tasks : ResolveModelId(t) \in Models
BY DEF ResolveModelId, Models

LEMMA NoReplies == <<>> \in Seq(Replies) /\ <<>> \in Seq(Tasks) /\ Len(<<>>) = 0 /\ DOMAIN <<>> = {}
OBVIOUS

LEMMA InitInv == Init => IInv
<1> SUFFICES ASSUME Init PROVE IInv
  OBVIOUS
<1>1. RunInv
  <2>0. /\ maxIterations = 0 /\ pc = "done" /\ messages = <<>> /\ answers = <<>>
        /\ iterations = 0 /\ steps = 0 /\ open = FALSE /\ result = NoResult
    BY DEF Init
  <2>1. NoResult \in RunResults
    BY DEF RunResults, NoResult
  <2>2. RunType
    <3>1. messages \in Seq(Messages) /\ answers \in Seq(Messages)
      BY <2>0, NoMessages
    <3>2. /\ maxIterations \in Int /\ iterations \in Nat /\ steps \in Nat
          /\ pc \in {"call_model", "execute_tool", "done"} /\ result \in RunResults
      BY <2>0, <2>1
    <3>3. open \in BOOLEAN
      BY <2>0
    <3> QED BY <3>1, <3>2, <3>3 DEF RunType
  <2>3. ModelMessages = {} /\ Len(messages) = 0
    BY NoMessages DEF Init, ModelMessages
  <2>4. Conversation /\ Opened
    BY DEF Init, Conversation, Opened
  <2>5. Counted
    BY <2>0, <2>3, FS_EmptySet DEF Counted
  <2>6. Verdict
    BY DEF Init, Verdict, NoResult, LastWord, CutOff
  <2> QED BY <2>2, <2>4, <2>5, <2>6 DEF RunInv
<1>2. ServiceType
  <2>1. Len(tasks) = 0 /\ group = [last |-> 0, pos |-> 0]
    BY NoReplies DEF Init, NewGroup
  <2>2. group \in GroupsUpTo(Len(tasks))
    BY <2>1 DEF GroupsUpTo
  <2> QED BY <2>2, NoReplies DEF Init, ServiceType, Stages, Models
<1>3. DOMAIN results = {} /\ DOMAIN logs = {}
  BY NoReplies DEF Init
<1>4. Progress /\ LogsInPast /\ LogsAgree /\ RunOfTask
  BY <1>3 DEF Init, Progress, Unanswered, LogsInPast, LogsAgree, RunOfTask
<1> QED BY <1>1, <1>2, <1>4 DEF IInv

LEMMA StutterRun == RunInv /\ UNCHANGED runVars => RunInv'
<1> SUFFICES ASSUME RunInv, UNCHANGED runVars PROVE RunInv'
  OBVIOUS
<1>1. /\ UNCHANGED <<maxIterations, pc, messages, iterations, steps, answers, open, result>>
      /\ ModelMessages' = ModelMessages /\ Calls' = Calls /\ Call' = Call
  BY DEF runVars, ModelMessages, Calls, Call
<1> QED BY <1>1 DEF RunInv, RunType, Conversation, Matched, Answers, Counted, Verdict,
       LastWord, CutOff, Opened, WithinSteps

(* Nothing is published or logged, and the worker goes back to no task. *)
LEMMA QuietAgrees ==
  ASSUME IInv, ServiceType', UNCHANGED <<results, logs>>, group'.pos >= group.pos,
         \A t \in DOMAIN tasks : t \in DOMAIN tasks' /\ tasks'[t] = tasks[t]
  PROVE  /\ LogsAgree'
         /\ \A k \in DOMAIN logs' : logs'[k].task \in DOMAIN tasks' /\ logs'[k].task <= InHand(group')
<1>1. /\ group.pos \in Nat /\ group'.pos \in Nat
      /\ InHand(group) = group.pos + 1 /\ InHand(group') = group'.pos + 1
  BY ServiceFacts DEF IInv, ServiceType, GroupsUpTo, InHand
<1>2. \A k \in DOMAIN logs : logs[k] \in Replies
  BY ServiceFacts DEF IInv
<1>3. \A k \in DOMAIN logs : logs[k].task \in DOMAIN tasks /\ logs[k].task \in Nat
  BY <1>2 DEF IInv, LogsInPast, Replies
<1>4. LogsAgree'
  BY <1>3 DEF IInv, LogsAgree, ResolveModelId
<1>5. \A k \in DOMAIN logs : logs[k].task <= InHand(group)
  BY DEF IInv, LogsInPast
<1>6. \A k \in DOMAIN logs : logs[k].task <= InHand(group')
  BY <1>1, <1>3, <1>5
<1> QED BY <1>3, <1>4, <1>6

LEMMA EnqueueInv == IInv /\ Enqueue => IInv'
<1> SUFFICES ASSUME IInv, Enqueue PROVE IInv'
  OBVIOUS
<1>1. PICK t \in Tasks : tasks' = Append(tasks, t)
  BY DEF Enqueue
<1>2. UNCHANGED <<runVars, group, stage, last_model_used, results, logs>>
  BY DEF Enqueue
<1>3. tasks \in Seq(Tasks) /\ ServiceType
  BY DEF IInv, ServiceType
<1>4. /\ tasks' \in Seq(Tasks) /\ Len(tasks') = Len(tasks) + 1
      /\ \A i \in DOMAIN tasks : i \in DOMAIN tasks' /\ tasks'[i] = tasks[i]
  BY <1>1, <1>3
<1>5. group' \in GroupsUpTo(Len(tasks'))
  BY <1>2, <1>3, <1>4, GroupMoves DEF ServiceType
<1>6. ServiceType'
  BY <1>2, <1>3, <1>4, <1>5 DEF ServiceType
<1>7. LogsAgree' /\ LogsInPast'
  <2>1. group'.pos >= group.pos
    BY <1>2, <1>3, ServiceFacts
  <2> QED BY <2>1, <1>2, <1>4, <1>6, QuietAgrees DEF IInv, LogsInPast
<1>8. ~ Drained(group) => Task' = Task
  BY <1>2, <1>3, <1>4, ServiceFacts DEF Task
<1>9. Progress' /\ RunOfTask'
  BY <1>2, <1>3, <1>8 DEF IInv, Progress, Unanswered, JustAnswered, RunOfTask, ServiceType, runVars, ResolveModelId
<1>10. RunInv'
  BY <1>2, StutterRun DEF IInv
<1> QED BY <1>6, <1>7, <1>9, <1>10 DEF IInv

(* The worker is idle, before a task it has not reached so far. *)
LEMMA IdleInv ==
  ASSUME IInv, RunInv', stage' = "idle", group' \in GroupsUpTo(Len(tasks)), group'.pos >= group.pos,
         group'.pos > group.pos \/ stage \in {"idle", "run", "publish"},
         last_model_used' \in Models, UNCHANGED <<tasks, results, logs>>
  PROVE  IInv'
<1>1. ServiceType'
  BY DEF IInv, ServiceType, Stages
<1>2. /\ group.pos \in Nat /\ group'.pos \in Nat /\ InHand(group) = group.pos + 1
  BY ServiceFacts DEF IInv, GroupsUpTo
<1>3. ServiceType /\ (\A i \in DOMAIN results : results[i].task \in Nat) /\ (\A k \in DOMAIN logs : logs[k].task \in Nat)
  BY ServiceFacts DEF IInv, Replies
<1>4. \A i \in DOMAIN results : results[i].task <= group'.pos
  <2>1. CASE stage \in {"idle", "run", "publish"}
    BY <2>1, <1>2, <1>3 DEF IInv, Progress, Unanswered
  <2>2. CASE group'.pos > group.pos
    <3>1. \A i \in DOMAIN results : results[i].task <= InHand(group)
      <4>1. stage \in Stages
        BY <1>3 DEF ServiceType
      <4>2. Unanswered => \A i \in DOMAIN results : results[i].task <= InHand(group)
        BY <1>2, <1>3 DEF Unanswered
      <4>3. JustAnswered => \A i \in DOMAIN results : results[i].task <= InHand(group)
        BY <1>2, <1>3 DEF JustAnswered
      <4> QED BY <4>1, <4>2, <4>3 DEF IInv, Progress, Stages
    <3> QED BY <3>1, <2>2, <1>2, <1>3
  <2> QED BY <2>1, <2>2
<1>5. Progress' /\ RunOfTask'
  BY <1>4 DEF Progress, Unanswered, RunOfTask
<1>6. \A k \in DOMAIN logs : logs[k].task <= group'.pos
  <2>1. CASE stage \in {"idle", "run", "publish"}
    BY <2>1, <1>2, <1>3 DEF IInv, LogsInPast
  <2>2. CASE group'.pos > group.pos
    BY <2>2, <1>2, <1>3 DEF IInv, LogsInPast
  <2> QED BY <2>1, <2>2
<1>7. LogsAgree' /\ LogsInPast'
  BY <1>1, <1>6, QuietAgrees DEF LogsInPast
<1> QED BY <1>1, <1>5, <1>7 DEF IInv

LEMMA ReadTasksInv == IInv /\ ReadTasks => IInv'
<1> SUFFICES ASSUME IInv, ReadTasks PROVE IInv'
  OBVIOUS
<1>1. /\ stage = "idle" /\ stage' = "idle" /\ CanRead(group, tasks)
      /\ UNCHANGED <<runVars, tasks, last_model_used, results, logs>>
      /\ \/ group' = XReadGroup(group, tasks, TaskCount)
         \/ group' = DropBatch(XReadGroup(group, tasks, TaskCount))
  BY DEF ReadTasks
<1>2. ServiceType /\ tasks \in Seq(Tasks) /\ group \in GroupsUpTo(Len(tasks)) /\ TaskCount \in Nat \ {0}
  BY ServiceAssumption DEF IInv, ServiceType
<1>3. group' \in GroupsUpTo(Len(tasks)) /\ group'.pos >= group.pos
  <2>1. CASE group' = XReadGroup(group, tasks, TaskCount)
    BY <2>1, <1>1, <1>2, GroupReads, ServiceFacts
  <2>2. CASE group' = DropBatch(XReadGroup(group, tasks, TaskCount))
    BY <2>2, <1>1, <1>2, GroupLoses
  <2> QED BY <1>1, <2>1, <2>2
<1>4. RunInv'
  BY <1>1, StutterRun DEF IInv
<1> QED BY <1>1, <1>2, <1>3, <1>4, IdleInv DEF ServiceType

LEMMA CrashInv == IInv /\ Crash => IInv'
<1> SUFFICES ASSUME IInv, Crash PROVE IInv'
  OBVIOUS
<1>1. /\ stage' = "idle" /\ ForgetRun /\ group' = DropBatch(group)
      /\ ~ Drained(group) /\ UNCHANGED <<tasks, results, logs>>
  BY DEF Crash
<1>2. RunInv'
  <2>1. pc' \in {"call_model", "done"} /\ Fresh(0) /\ 0 \in Int
    BY <1>1 DEF ForgetRun
  <2> QED BY <2>1, FreshRun
<1>3. ServiceType
  BY DEF IInv
<1>4. group' \in GroupsUpTo(Len(tasks))
  BY <1>1, <1>3, ServiceFacts, GroupMoves DEF ServiceType
<1>5. group'.pos = group.last
  BY <1>1, <1>3 DEF DropBatch, ServiceType, GroupsUpTo
<1>6. group.pos \in Nat /\ group.last \in Nat /\ group.pos <= group.last /\ group.pos # group.last
  BY <1>1, <1>3, ServiceFacts DEF Drained
<1>7. group'.pos > group.pos /\ group'.pos >= group.pos
  BY <1>5, <1>6
<1>8. last_model_used' \in Models
  BY DEF Crash, Models
<1> QED BY <1>1, <1>2, <1>4, <1>7, <1>8, IdleInv

LEMMA AckTaskInv == IInv /\ AckTask => IInv'
<1> SUFFICES ASSUME IInv, AckTask PROVE IInv'
  OBVIOUS
<1>1. /\ stage = "ack" /\ stage' = "idle" /\ ForgetRun
      /\ group' = Advance(group) \/ group' = DropBatch(group)
      /\ UNCHANGED <<tasks, last_model_used, results, logs>>
  BY DEF AckTask
<1>2. RunInv'
  <2>1. pc' \in {"call_model", "done"} /\ Fresh(0) /\ 0 \in Int
    BY <1>1 DEF ForgetRun
  <2> QED BY <2>1, FreshRun
<1>3. ServiceType /\ ~ Drained(group)
  BY <1>1 DEF IInv, ServiceType
<1>4. group' \in GroupsUpTo(Len(tasks))
  BY <1>1, <1>3, ServiceFacts, GroupMoves DEF ServiceType
<1>5. group'.pos = group.last \/ group'.pos = group.pos + 1
  BY <1>1, <1>3 DEF DropBatch, Advance, ServiceType, GroupsUpTo
<1>6. group.pos \in Nat /\ group.last \in Nat /\ group.pos <= group.last /\ group.pos # group.last
  BY <1>3, ServiceFacts DEF Drained
<1>7. group'.pos > group.pos /\ group'.pos >= group.pos
  BY <1>5, <1>6
<1>8. last_model_used' \in Models
  BY <1>1, <1>3 DEF ServiceType
<1> QED BY <1>1, <1>2, <1>4, <1>7, <1>8, IdleInv

(* The worker goes on with its task, having published nothing since. *)
LEMMA BusyInv ==
  ASSUME IInv, RunInv', ~ Drained(group), stage' \in Stages, last_model_used' \in Models,
         Progress', RunOfTask',
         stage' # "ack" => stage \in {"idle", "run", "publish"} \/ stage' = "publishFailed",
         UNCHANGED <<tasks, group, results, logs>>
  PROVE  IInv'
<1>1. ServiceType'
  BY DEF IInv, ServiceType, Drained
<1>2. group'.pos >= group.pos
  BY ServiceFacts DEF IInv
<1>3. LogsAgree' /\ LogsInPast'
  BY <1>1, <1>2, QuietAgrees DEF IInv, LogsInPast
<1> QED BY <1>1, <1>3 DEF IInv

LEMMA BeginTaskInv == IInv /\ BeginTask => IInv'
<1> SUFFICES ASSUME IInv, BeginTask PROVE IInv'
  OBVIOUS
<1>1. /\ stage = "idle" /\ ~ Drained(group) /\ last_model_used' = ResolveModelId(Task)
      /\ \/ stage' = "run" /\ StartRun(Task.limit)
         \/ stage' = "publishFailed" /\ UNCHANGED runVars
      /\ UNCHANGED <<tasks, group, results, logs>>
  BY DEF BeginTask, ModelUsed
<1>2. ServiceType /\ Task \in Tasks
  BY <1>1, ServiceFacts DEF IInv
<1>3. last_model_used' \in Models /\ Task.limit \in Int
  BY <1>1, <1>2, ResolvesToModel, ServiceAssumption
<1>4. RunInv' /\ (stage' = "run" => pc' # "done")
  <2>1. CASE stage' = "run" /\ StartRun(Task.limit)
    <3>1. PICK limit \in Int : limit = Task.limit
      BY <1>3
    <3>2. pc' = "call_model" /\ Fresh(limit)
      BY <2>1, <3>1 DEF StartRun
    <3> QED BY <3>2, FreshRun
  <2>2. CASE stage' = "publishFailed" /\ UNCHANGED runVars
    BY <2>2, StutterRun DEF IInv
  <2> QED BY <1>1, <2>1, <2>2
<1>5. Task' = Task
  BY <1>1 DEF Task
<1>6. Unanswered'
  BY <1>1 DEF IInv, Progress, Unanswered
<1>7. Progress' /\ RunOfTask' /\ stage' \in Stages
  BY <1>1, <1>4, <1>5, <1>6 DEF Progress, RunOfTask, Stages, ResolveModelId
<1> QED BY <1>1, <1>3, <1>4, <1>7, BusyInv

(* A step of the graph, or the expiry of its timer. *)
LEMMA RunningInv ==
  ASSUME IInv, stage = "run", RunInv', pc' = "done" => result'.status \in Statuses,
         stage' = IF pc' = "done" THEN "publish" ELSE "run",
         UNCHANGED <<tasks, group, last_model_used, results, logs>>
  PROVE  IInv'
<1>1. ~ Drained(group) /\ last_model_used' \in Models /\ stage' \in {"run", "publish"}
  BY DEF IInv, ServiceType
<1>2. Progress'
  BY <1>1 DEF IInv, Progress, Unanswered
<1>3. RunOfTask' /\ stage' \in Stages
  BY <1>1 DEF IInv, RunOfTask, Task, ResolveModelId, Stages
<1> QED BY <1>1, <1>2, <1>3, BusyInv

LEMMA RunInvs == IInv /\ (RunStep \/ RunTimesOut) => IInv'
<1>1. ASSUME IInv, RunStep PROVE IInv'
  <2>1. Graph /\ RunInv
    BY <1>1 DEF RunStep, IInv
  <2>2. RunInv' /\ (pc' = "done" => result'.status \in Statuses)
    BY <2>1, GraphRun
  <2> QED BY <1>1, <2>2, RunningInv DEF RunStep
<1>2. ASSUME IInv, RunTimesOut PROVE IInv'
  <2>1. TimesOut /\ RunInv
    BY <1>2 DEF RunTimesOut, IInv
  <2>2. RunInv' /\ pc' = "done" /\ result'.status \in Statuses
    BY <2>1, TimeoutRun
  <2> QED BY <1>2, <2>2, RunningInv DEF RunTimesOut
<1> QED BY <1>1, <1>2

(* A result of the task in hand joins the stream. *)
LEMMA Published ==
  ASSUME IInv, ~ Drained(group), NEW status \in Statuses, NEW model \in Models,
         Publish(status, model), UNCHANGED <<tasks, group, logs>>
  PROVE  /\ results' \in Seq(Replies)
         /\ Len(results') = Len(results) + 1 /\ DOMAIN results' = 1..(Len(results) + 1)
         /\ results'[Len(results) + 1] = [task |-> InHand(group), status |-> status, model |-> model]
         /\ \A i \in DOMAIN results : results'[i] = results[i]
         /\ LogsAgree'
<1>1. DEFINE reply == [task |-> InHand(group), status |-> status, model |-> model]
<1>2. results \in Seq(Replies) /\ InHand(group) \in Nat \ {0}
  BY ServiceFacts DEF IInv, ServiceType
<1>3. reply \in Replies
  BY <1>2 DEF Replies
<1>4. results' = Append(results, reply)
  BY DEF Publish
<1> HIDE DEF reply
<1>5. /\ results' \in Seq(Replies) /\ Len(results) \in Nat
      /\ Len(results') = Len(results) + 1 /\ DOMAIN results' = 1..(Len(results) + 1)
      /\ DOMAIN results = 1..Len(results)
      /\ results'[Len(results) + 1] = reply
      /\ \A i \in DOMAIN results : results'[i] = results[i]
  BY <1>2, <1>3, <1>4
<1>6. ASSUME NEW k \in DOMAIN logs
      PROVE  /\ logs[k].model = ResolveModelId(tasks[logs[k].task])
             /\ \E i \in DOMAIN results' :
                  /\ results'[i] = logs[k]
                  /\ \A j \in 1..(i - 1) : results'[j].task # logs[k].task
  <2>1. PICK i \in DOMAIN results :
          results[i] = logs[k] /\ \A j \in 1..(i - 1) : results[j].task # logs[k].task
    BY <1>6 DEF IInv, LogsAgree
  <2>2. \A j \in 1..(i - 1) : j \in DOMAIN results
    BY <1>5
  <2>3. i \in DOMAIN results' /\ results'[i] = logs[k] /\ \A j \in 1..(i - 1) : results'[j].task # logs[k].task
    BY <1>5, <2>1, <2>2
  <2> QED BY <1>6, <2>3 DEF IInv, LogsAgree
<1>7. LogsAgree'
  BY <1>6 DEF IInv, LogsAgree, ResolveModelId
<1> QED BY <1>5, <1>7 DEF reply

(* What is in place once it has: after "publish" only one result is of the *)
(* task, when a failure is reported there may be two.                      *)
LEMMA PublishedInv ==
  ASSUME IInv, ~ Drained(group), NEW status \in Statuses, NEW model \in Models,
         Publish(status, model), UNCHANGED <<runVars, tasks, group, last_model_used, logs>>,
         \/ /\ stage = "publish" /\ stage' = "memory" /\ model = ResolveModelId(Task)
         \/ stage = "publish" /\ stage' = "publishFailed"
         \/ stage = "publishFailed" /\ stage' = "ack"
  PROVE  IInv'
<1>1. /\ results' \in Seq(Replies)
      /\ Len(results') = Len(results) + 1 /\ DOMAIN results' = 1..(Len(results) + 1)
      /\ results'[Len(results) + 1] = [task |-> InHand(group), status |-> status, model |-> model]
      /\ \A i \in DOMAIN results : results'[i] = results[i]
      /\ LogsAgree'
  BY Published
<1>2. /\ results'[Len(results) + 1].task = InHand(group) /\ results'[Len(results) + 1].model = model
      /\ group' = group /\ Task' = Task
      /\ Len(results) \in Nat /\ DOMAIN results = 1..Len(results)
      /\ InHand(group) \in Nat /\ group.pos \in Nat /\ InHand(group) = group.pos + 1
      /\ \A i \in DOMAIN results : results[i].task \in Nat
  BY <1>1, ServiceFacts DEF IInv, Task, Replies
<1>3. RunInv'
  BY StutterRun DEF IInv
<1>4. ServiceType'
  BY <1>1, <1>2 DEF IInv, ServiceType, Stages
<1>5. CASE stage = "publish"
  <2>1. Unanswered
    BY <1>5 DEF IInv, Progress
  <2>2. JustAnswered'
    BY <1>1, <1>2, <2>1 DEF JustAnswered, Unanswered
  <2>3. Progress'
    BY <1>1, <1>2, <1>5, <2>2 DEF Progress, ResolveModelId
  <2>4. LogsInPast' /\ RunOfTask'
    BY <1>2, <1>5 DEF IInv, LogsInPast, RunOfTask
  <2> QED BY <1>1, <1>3, <1>4, <2>3, <2>4 DEF IInv
<1>6. CASE stage = "publishFailed" /\ stage' = "ack"
  <2>1. \A i \in DOMAIN results : results[i].task <= InHand(group)
    <3>1. Unanswered \/ JustAnswered
      BY <1>6 DEF IInv, Progress
    <3> QED BY <3>1, <1>2 DEF Unanswered, JustAnswered
  <2>2. \A i \in DOMAIN results' : results'[i].task <= InHand(group')
    BY <1>1, <1>2, <2>1
  <2>3. Progress'
    BY <1>6, <2>2 DEF Progress
  <2>4. LogsInPast' /\ RunOfTask'
    BY <1>2, <1>6 DEF IInv, LogsInPast, RunOfTask
  <2> QED BY <1>1, <1>3, <1>4, <2>3, <2>4 DEF IInv
<1> QED BY <1>5, <1>6

LEMMA PublishInvs == IInv /\ (PublishResult \/ PublishResultRaises \/ PublishFailure) => IInv'
<1>1. ASSUME IInv, ~ Drained(group), stage \in {"publish", "publishFailed"}, UNCHANGED results,
             stage = "publish" => stage' = "publishFailed",
             stage = "publishFailed" => stage' = "ack",
             UNCHANGED <<runVars, tasks, group, last_model_used, logs>>
      PROVE  IInv'
  <2>1. RunInv' /\ last_model_used' \in Models /\ Task' = Task
    BY <1>1, StutterRun DEF IInv, ServiceType, Task
  <2>2. CASE stage = "publish" /\ stage' = "publishFailed"
    <3>1. Unanswered'
      BY <1>1, <2>2 DEF IInv, Progress, Unanswered
    <3>2. Progress' /\ RunOfTask' /\ stage' \in Stages
      BY <2>2, <3>1 DEF Progress, RunOfTask, Stages
    <3> QED BY <1>1, <2>1, <2>2, <3>2, BusyInv
  <2>3. CASE stage = "publishFailed" /\ stage' = "ack"
    <3>1. /\ group.pos \in Nat /\ InHand(group) = group.pos + 1 /\ DOMAIN results = 1..Len(results)
          /\ \A i \in DOMAIN results : results[i].task \in Nat
      BY <1>1, ServiceFacts DEF IInv, Replies
    <3>2. Unanswered \/ JustAnswered
      BY <1>1, <2>3 DEF IInv, Progress
    <3>3. \A i \in DOMAIN results : results[i].task <= InHand(group)
      BY <3>1, <3>2 DEF Unanswered, JustAnswered
    <3>4. Progress' /\ RunOfTask' /\ stage' \in Stages
      BY <1>1, <2>3, <3>3 DEF Progress, RunOfTask, Stages
    <3> QED BY <1>1, <2>1, <2>3, <3>4, BusyInv
  <2> QED BY <1>1, <2>2, <2>3
<1>2. ASSUME IInv, stage # "idle"
      PROVE  ~ Drained(group)
  BY <1>2 DEF IInv, ServiceType
<1>3. ASSUME IInv, stage = "publish"
      PROVE  result.status \in Statuses /\ last_model_used \in Models /\ last_model_used = ResolveModelId(Task)
  BY <1>3 DEF IInv, RunOfTask, ServiceType
<1>4. ASSUME IInv, PublishResult PROVE IInv'
  <2>1. /\ stage = "publish" /\ stage' = "memory" /\ Publish(result.status, last_model_used)
        /\ UNCHANGED <<runVars, tasks, group, last_model_used, logs>>
    BY <1>4 DEF PublishResult
  <2>2. PICK status \in Statuses, model \in Models :
          Publish(status, model) /\ model = ResolveModelId(Task)
    BY <1>3, <1>4, <2>1
  <2> QED BY <1>2, <1>4, <2>1, <2>2, PublishedInv
<1>5. ASSUME IInv, PublishResultRaises PROVE IInv'
  <2>1. /\ stage = "publish" /\ stage' = "publishFailed"
        /\ UNCHANGED <<runVars, tasks, group, last_model_used, logs>>
        /\ Publish(result.status, last_model_used) \/ UNCHANGED results
    BY <1>5 DEF PublishResultRaises
  <2>2. CASE Publish(result.status, last_model_used)
    <3>1. PICK status \in Statuses, model \in Models : Publish(status, model)
      BY <1>3, <1>5, <2>1, <2>2
    <3> QED BY <1>2, <1>5, <2>1, <3>1, PublishedInv
  <2>3. CASE UNCHANGED results
    BY <1>1, <1>2, <1>5, <2>1, <2>3
  <2> QED BY <2>1, <2>2, <2>3
<1>6. ASSUME IInv, PublishFailure PROVE IInv'
  <2>1. /\ stage = "publishFailed" /\ stage' = "ack"
        /\ UNCHANGED <<runVars, tasks, group, last_model_used, logs>>
        /\ Publish("failed", "") \/ UNCHANGED results
    BY <1>6 DEF PublishFailure
  <2>2. CASE Publish("failed", "")
    <3>1. "failed" \in Statuses /\ "" \in Models
      BY DEF Statuses, Models
    <3>2. PICK status \in Statuses, model \in Models : Publish(status, model)
      BY <2>2, <3>1
    <3> QED BY <1>2, <1>6, <2>1, <3>2, PublishedInv
  <2>3. CASE UNCHANGED results
    BY <1>1, <1>2, <1>6, <2>1, <2>3
  <2> QED BY <2>1, <2>2, <2>3
<1> QED BY <1>4, <1>5, <1>6

LEMMA WriteMemoryInv == IInv /\ WriteMemory => IInv'
<1> SUFFICES ASSUME IInv, WriteMemory PROVE IInv'
  OBVIOUS
<1>1. /\ stage = "memory" /\ stage' \in {"ack", "publishFailed"}
      /\ logs' = Log \/ (logs' = logs /\ stage' = "publishFailed")
      /\ UNCHANGED <<runVars, tasks, group, last_model_used, results>>
  BY DEF WriteMemory
<1>2. /\ ~ Drained(group) /\ JustAnswered /\ results[Len(results)].model = ResolveModelId(Task)
      /\ ServiceType
  BY <1>1 DEF IInv, Progress, ServiceType
<1>3. /\ group.pos \in Nat /\ InHand(group) = group.pos + 1 /\ InHand(group) \in DOMAIN tasks
      /\ Len(results) \in Nat /\ DOMAIN results = 1..Len(results)
      /\ \A i \in DOMAIN results : results[i] \in Replies /\ results[i].task \in Nat
  BY <1>2, ServiceFacts DEF Replies
<1>4. Len(results) \in DOMAIN results /\ results[Len(results)].task = InHand(group)
  BY <1>2, <1>3 DEF JustAnswered
<1>5. RunInv' /\ last_model_used' \in Models /\ stage' \in Stages /\ RunOfTask'
  BY <1>1, <1>2, StutterRun DEF IInv, ServiceType, Stages, RunOfTask
<1>6. \A i \in DOMAIN results : results[i].task <= InHand(group)
  BY <1>2, <1>3 DEF JustAnswered
<1>7. JustAnswered'
  BY <1>1, <1>2 DEF JustAnswered
<1>8. Progress'
  BY <1>1, <1>6, <1>7 DEF Progress
<1>9. CASE logs' = logs /\ stage' = "publishFailed"
  BY <1>1, <1>2, <1>5, <1>8, <1>9, BusyInv
<1>10. CASE logs' = Log
  <2>1. PICK row : row = results[Len(results)]
    OBVIOUS
  <2>2. row \in Replies /\ row.task = InHand(group) /\ row.model = ResolveModelId(tasks[row.task])
    BY <1>2, <1>3, <1>4, <2>1 DEF Task
  <2>3. logs' = Append(logs, row)
    BY <1>10, <2>1 DEF Log, Last
  <2>4. /\ logs' \in Seq(Replies) /\ Len(logs) \in Nat /\ DOMAIN logs = 1..Len(logs)
        /\ DOMAIN logs' = 1..(Len(logs) + 1) /\ logs'[Len(logs) + 1] = row
        /\ \A k \in DOMAIN logs : logs'[k] = logs[k]
    BY <1>2, <2>2, <2>3 DEF ServiceType
  <2>5. ServiceType'
    BY <1>1, <1>2, <1>5, <2>4 DEF ServiceType
  <2>6. \A k \in DOMAIN logs : logs[k].task \in DOMAIN tasks /\ logs[k].task <= group.pos
    BY <1>1 DEF IInv, LogsInPast
  <2>7. \A k \in DOMAIN logs : logs[k] \in Replies /\ logs[k].task \in Nat
    BY <1>2, ServiceFacts DEF Replies
  <2>8. \A k \in DOMAIN logs : logs[k].task # row.task
    BY <1>3, <2>2, <2>6, <2>7
  <2>9. \A k \in DOMAIN logs' : k \in DOMAIN logs \/ logs'[k] = row
    BY <2>4
  <2>10. \A k \in DOMAIN logs' : logs'[k].task \in DOMAIN tasks /\ logs'[k].task <= InHand(group)
    BY <1>3, <2>2, <2>4, <2>6, <2>7, <2>9
  <2>11. LogsInPast'
    BY <1>1, <2>10 DEF LogsInPast
  <2>12. \A k \in DOMAIN logs' :
           /\ logs'[k].model = ResolveModelId(tasks[logs'[k].task])
           /\ \E i \in DOMAIN results :
                /\ results[i] = logs'[k]
                /\ \A j \in 1..(i - 1) : results[j].task # logs'[k].task
    <3> TAKE k \in DOMAIN logs'
    <3>1. CASE k \in DOMAIN logs
      BY <3>1, <2>4 DEF IInv, LogsAgree
    <3>2. CASE logs'[k] = row
      <4>1. \A j \in 1..(Len(results) - 1) : j \in DOMAIN results /\ j # Len(results)
        BY <1>3
      <4>2. \A j \in 1..(Len(results) - 1) : results[j].task <= group.pos /\ results[j].task \in Nat
        BY <4>1, <1>2, <1>3 DEF JustAnswered
      <4>3. \A j \in 1..(Len(results) - 1) : results[j].task # row.task
        BY <4>2, <1>3, <2>2
      <4> QED BY <3>2, <4>3, <1>4, <2>1, <2>2
    <3> QED BY <3>1, <3>2, <2>9
  <2>13. \A k, l \in DOMAIN logs' : logs'[k].task = logs'[l].task => k = l
    <3> TAKE k, l \in DOMAIN logs'
    <3> HAVE logs'[k].task = logs'[l].task
    <3>1. CASE k \in DOMAIN logs /\ l \in DOMAIN logs
      BY <3>1, <2>4 DEF IInv, LogsAgree
    <3>2. CASE k \notin DOMAIN logs
      BY <3>2, <2>4, <2>8
    <3>3. CASE l \notin DOMAIN logs
      BY <3>3, <2>4, <2>8
    <3> QED BY <3>1, <3>2, <3>3
  <2>14. LogsAgree'
    BY <1>1, <2>12, <2>13 DEF LogsAgree, ResolveModelId
  <2> QED BY <1>5, <1>8, <2>5, <2>11, <2>14 DEF IInv
<1> QED BY <1>1, <1>9, <1>10

LEMMA RestInv == IInv /\ UNCHANGED vars => IInv'
<1> SUFFICES ASSUME IInv, UNCHANGED vars PROVE IInv'
  OBVIOUS
<1>1. UNCHANGED <<tasks, group, stage, last_model_used, results, logs>> /\ UNCHANGED runVars
  BY DEF vars, serviceVars
<1>2. RunInv'
  BY <1>1, StutterRun DEF IInv
<1>3. Task' = Task /\ UNCHANGED <<pc, result>>
  BY <1>1 DEF Task, runVars
<1>4. ServiceType'
  BY <1>1 DEF IInv, ServiceType
<1>5. Progress' /\ RunOfTask'
  BY <1>1, <1>3 DEF IInv, Progress, Unanswered, JustAnswered, RunOfTask, ResolveModelId
<1>6. LogsInPast' /\ LogsAgree'
  BY <1>1 DEF IInv, LogsInPast, LogsAgree, ResolveModelId
<1> QED BY <1>2, <1>4, <1>5, <1>6 DEF IInv

LEMMA NextInv == IInv /\ [Next]_vars => IInv'
BY EnqueueInv, ReadTasksInv, BeginTaskInv, RunInvs, PublishInvs, WriteMemoryInv, AckTaskInv,
   CrashInv, RestInv DEF Next, Worker, AtRest

LEMMA Invariant == Spec => []IInv
BY InitInv, NextInv, PTL DEF Spec

(* Models are only called with conversations in which calls and answers    *)
(* match, whatever tools, limits and failures there are.                   *)
THEOREM ConversationsAnswered == Spec => []CallsAnswered
<1>1. IInv => CallsAnswered
  <2> SUFFICES ASSUME IInv, pc = "call_model"
               PROVE  /\ \A i \in ModelMessages : \A j \in DOMAIN messages[i].calls :
                           i + j \in DOMAIN messages /\ Answers(i + j, j)
                      /\ \A k \in DOMAIN messages \ ModelMessages : \E i \in ModelMessages :
                           \E j \in DOMAIN messages[i].calls : k = i + j /\ Answers(k, j)
    BY DEF CallsAnswered
  <2>1. messages \in Seq(Messages) /\ Matched(Len(messages))
    BY DEF IInv, RunInv, RunType, Conversation
  <2>2. DOMAIN messages = 1..Len(messages) /\ Len(messages) \in Nat
    BY <2>1
  <2>3. \A i \in ModelMessages : i <= Len(messages)
    BY <2>2 DEF ModelMessages
  <2> QED BY <2>1, <2>2, <2>3 DEF Matched
<1> QED BY <1>1, Invariant, PTL

(* What run() returns agrees with the conversation and the limits.         *)
THEOREM VerdictsMatch == Spec => []VerdictMatches
<1>1. IInv => VerdictMatches
  BY DEF IInv, RunInv, RunType, Counted, Verdict, VerdictMatches
<1> QED BY <1>1, Invariant, PTL

(* No tool has anything open when the model is called or run() returns.    *)
THEOREM ToolsClosed == Spec => []ToolClosed
<1>1. IInv => ToolClosed
  BY DEF IInv, RunInv, Opened, ToolClosed
<1> QED BY <1>1, Invariant, PTL

(* Every log row repeats the first result of its task and names the model  *)
(* the task asks for; no task has two.                                     *)
THEOREM LogsFollowResults == Spec => []LogsAgree
<1>1. IInv => LogsAgree
  BY DEF IInv
<1> QED BY <1>1, Invariant, PTL

----
(* The refinement of TaskService.                                          *)
Replied == [i \in DOMAIN results |-> [task |-> results[i].task, status |-> results[i].status]]

LEMMA RepliedGrows ==
  ASSUME IInv, ~ Drained(group), NEW status \in Statuses, NEW model \in Models,
         Publish(status, model), UNCHANGED <<tasks, group, logs>>
  PROVE  Replied' = Append(Replied, [task |-> InHand(group), status |-> status])
<1>1. /\ results' \in Seq(Replies)
      /\ Len(results') = Len(results) + 1 /\ DOMAIN results' = 1..(Len(results) + 1)
      /\ results'[Len(results) + 1] = [task |-> InHand(group), status |-> status, model |-> model]
      /\ \A i \in DOMAIN results : results'[i] = results[i]
  BY Published
<1>2. Len(results) \in Nat /\ DOMAIN results = 1..Len(results)
  BY ServiceFacts DEF IInv
<1>3. PICK n \in Nat : n = Len(results)
  BY <1>2
<1> DEFINE R == Nat \X Statuses
           new == [task |-> InHand(group), status |-> status]
<1>4. /\ DOMAIN Replied = 1..n /\ Replied = [i \in 1..n |-> Replied[i]]
      /\ \A i \in 1..n : Replied[i] = [task |-> results[i].task, status |-> results[i].status]
  BY <1>2, <1>3 DEF Replied
<1>5. Len(Replied) = n
  BY <1>4
<1>6. /\ Replied' = [i \in 1..(n + 1) |-> [task |-> results'[i].task, status |-> results'[i].status]]
  BY <1>1, <1>3 DEF Replied
<1>7. results'[n + 1].task = InHand(group) /\ results'[n + 1].status = status
  BY <1>1, <1>3
<1>8. \A i \in 1..(n + 1) :
        [task |-> results'[i].task, status |-> results'[i].status] = IF i = n + 1 THEN new ELSE Replied[i]
  BY <1>1, <1>2, <1>3, <1>4, <1>7
<1>9. Append(Replied, new) = [i \in 1..(n + 1) |-> IF i = n + 1 THEN new ELSE Replied[i]]
  BY <1>4, <1>5
<1> QED BY <1>6, <1>8, <1>9

(* The first reply for a task, and the failure that may follow it.         *)
LEMMA FirstReply ==
  ASSUME IInv, ~ Drained(group), Unanswered, NEW status \in Statuses, NEW model \in Models,
         Publish(status, model), UNCHANGED <<tasks, group, logs>>
  PROVE  Service!Next
<1>1. Replied' = Append(Replied, [task |-> InHand(group), status |-> status])
  BY RepliedGrows
<1>2. /\ InHand(group) \in 1..Len(tasks) /\ InHand(group) = group.pos + 1 /\ group.pos \in Nat
      /\ \A i \in DOMAIN results : results[i].task \in Nat
  BY ServiceFacts DEF IInv, Replies
<1>3. \A i \in DOMAIN Replied : Replied[i].task < InHand(group)
  BY <1>2 DEF Replied, Unanswered
<1>4. Service!Respond(InHand(group), status)
  BY <1>1 DEF Service!Respond, Replied
<1>5. Service!Answer(InHand(group))
  BY <1>3, <1>4 DEF Service!Answer, Replied
<1> QED BY <1>2, <1>5 DEF Service!Next

LEMMA SecondReply ==
  ASSUME IInv, ~ Drained(group), JustAnswered, NEW status \in Statuses, NEW model \in Models,
         status = "failed", Publish(status, model), UNCHANGED <<tasks, group, logs>>
  PROVE  Service!Next
<1>1. Replied' = Append(Replied, [task |-> InHand(group), status |-> "failed"])
  BY RepliedGrows
<1>2. /\ InHand(group) \in 1..Len(tasks) /\ InHand(group) = group.pos + 1 /\ group.pos \in Nat
      /\ Len(results) \in Nat /\ DOMAIN results = 1..Len(results)
      /\ \A i \in DOMAIN results : results[i].task \in Nat
  BY ServiceFacts DEF IInv, Replies
<1>3. /\ DOMAIN Replied = DOMAIN results
      /\ \A i \in DOMAIN results : Replied[i].task = results[i].task
  BY DEF Replied
<1>4. \A i \in DOMAIN Replied : Replied[i].task <= InHand(group)
  BY <1>2, <1>3 DEF JustAnswered
<1>5. Len(results) \in DOMAIN Replied /\ Service!AnswersOf(InHand(group)) = {Len(results)}
  <2>1. Len(results) \in DOMAIN Replied /\ Replied[Len(results)].task = InHand(group)
    BY <1>2, <1>3 DEF JustAnswered
  <2>2. \A i \in DOMAIN Replied : i # Len(results) => Replied[i].task # InHand(group)
    BY <1>2, <1>3 DEF JustAnswered
  <2>3. Service!AnswersOf(InHand(group)) = {i \in DOMAIN Replied : Replied[i].task = InHand(group)}
    BY DEF Service!AnswersOf, Replied
  <2> QED BY <2>1, <2>2, <2>3
<1>6. PICK t \in 1..Len(tasks) : t = InHand(group)
  BY <1>2
<1>7. Service!Respond(t, "failed")
  BY <1>1, <1>6 DEF Service!Respond, Replied
<1>8. \A i \in DOMAIN Replied : Replied[i].task <= t
  BY <1>4, <1>6
<1>9. Len(results) \in DOMAIN Replied /\ Service!AnswersOf(t) = {Len(results)}
  BY <1>5, <1>6 DEF Service!AnswersOf
<1>10. Service!ReportFailure(t)
  BY <1>7, <1>8, <1>9 DEF Service!ReportFailure, Replied
<1> QED BY <1>10 DEF Service!Next

LEMMA NextServes == IInv /\ [Next]_vars => [Service!Next]_(Service!vars)
<1> SUFFICES ASSUME IInv, [Next]_vars PROVE [Service!Next]_(Service!vars)
  OBVIOUS
<1>1. ASSUME UNCHANGED <<tasks, results>>
      PROVE  UNCHANGED Service!vars
  BY <1>1 DEF Service!vars
<1>2. CASE Enqueue
  <2>1. tasks \in Seq(Tasks)
    BY DEF IInv, ServiceType
  <2>2. Len(tasks') = Len(tasks) + 1 /\ UNCHANGED results
    BY <1>2, <2>1 DEF Enqueue
  <2> QED BY <2>2 DEF Service!Next, Service!Enqueue
<1>3. CASE PublishResult \/ PublishResultRaises
  <2>1. stage = "publish" /\ ~ Drained(group) /\ Unanswered
    BY <1>3 DEF PublishResult, PublishResultRaises, IInv, ServiceType, Progress
  <2>2. result.status \in Statuses /\ last_model_used \in Models
    BY <2>1 DEF IInv, RunOfTask, ServiceType
  <2>3. /\ UNCHANGED <<tasks, group, logs>>
        /\ Publish(result.status, last_model_used) \/ UNCHANGED results
    BY <1>3 DEF PublishResult, PublishResultRaises
  <2>4. CASE Publish(result.status, last_model_used)
    <3>1. PICK status \in Statuses, model \in Models : Publish(status, model)
      BY <2>2, <2>4
    <3> QED BY <2>1, <2>3, <3>1, FirstReply
  <2> QED BY <1>1, <2>3, <2>4
<1>4. CASE PublishFailure
  <2>1. stage = "publishFailed" /\ ~ Drained(group) /\ (Unanswered \/ JustAnswered)
    BY <1>4 DEF PublishFailure, IInv, ServiceType, Progress
  <2>2. UNCHANGED <<tasks, group, logs>> /\ (Publish("failed", "") \/ UNCHANGED results)
    BY <1>4 DEF PublishFailure
  <2>3. CASE Publish("failed", "") /\ Unanswered
    <3>1. PICK status \in Statuses, model \in Models : Publish(status, model)
      BY <2>3 DEF Statuses, Models
    <3> QED BY <2>1, <2>2, <2>3, <3>1, FirstReply
  <2>4. CASE Publish("failed", "") /\ JustAnswered
    <3>1. PICK status \in Statuses, model \in Models : status = "failed" /\ Publish(status, model)
      BY <2>4 DEF Statuses, Models
    <3> QED BY <2>1, <2>2, <2>4, <3>1, SecondReply
  <2> QED BY <1>1, <2>1, <2>2, <2>3, <2>4
<1>5. CASE ReadTasks \/ BeginTask \/ RunStep \/ RunTimesOut \/ WriteMemory \/ AckTask \/ Crash
  BY <1>1, <1>5 DEF ReadTasks, BeginTask, RunStep, RunTimesOut, WriteMemory, AckTask, Crash
<1>6. CASE UNCHANGED vars
  BY <1>1, <1>6 DEF vars, serviceVars
<1> QED BY <1>2, <1>3, <1>4, <1>5, <1>6 DEF Next, Worker, AtRest

(* The worker implements TaskService: one success at most, and only as the *)
(* first answer, which a single failure may follow, in the order of tasks. *)
THEOREM WorkerServes == Spec => ServiceSpec
<1>1. Init => Service!Init
  <2> SUFFICES ASSUME Init PROVE Service!Init
    OBVIOUS
  <2>1. Len(tasks) = 0 /\ DOMAIN results = {}
    BY NoReplies DEF Init
  <2>2. Replied = <<>>
    BY <2>1 DEF Replied
  <2> QED BY <2>1, <2>2 DEF Service!Init, Replied
<1> QED BY <1>1, NextServes, Invariant, PTL DEF Spec, ServiceSpec, Service!Spec

====
