------------------------- MODULE TaskPipelineProofs -------------------------
(***************************************************************************)
(* Theorems about TaskPipeline, for any set of tasks, consumers and        *)
(* workers and any bounds: type correctness, that tool calls run where     *)
(* their task's trust allows, that no tool call is executed twice, and     *)
(* that a result answers one call only, a call of its own task.            *)
(*                                                                         *)
(* None of them is inductive by itself.  A push keeps issued within its    *)
(* bound because the rest of the round was budgeted for when the model     *)
(* asked for it, and because no other consumer works on the same task; a   *)
(* call is executed at most once because it is in one call stream only, at *)
(* one position only, and that position is handed to one worker only,      *)
(* whose two steps before the execution can't be repeated.  IInv says so.  *)
(* A result answers one call because it is written once and acknowledged   *)
(* when it is used: ResultInv and AnswerInv, proved on top of IInv.        *)
(***************************************************************************)
EXTENDS TaskPipeline, RedisStreamProofs

NoDuplicates(log) == \A i, j \in 1 .. Len(log) : log[i] = log[j] => i = j

InToolUse == {"push", "read", "discard", "ackresult"}
Waiting == {"read", "discard", "ackresult"}
Reading == {"discard", "ackresult"}

\* Tool calls of the round that consumer c has still to push.
ToPush(c) == IF pc[c] = "push" THEN todo[c]
             ELSE IF pc[c] \in Waiting THEN todo[c] - 1
             ELSE 0

\* A consumer works on one pending task, and what is left of its round fits the
\* task's budget.
ConsumerOK(c) ==
  /\ pc[c] = "idle" <=> entry[c] = 0
  /\ pc[c] # "idle" => entry[c] \in inbound.pending
  /\ pc[c] \in InToolUse => todo[c] >= 1
  /\ pc[c] # "idle" => issued[CurrentTask(c)] + ToPush(c) <= MaxCalls
  /\ pc[c] \in Waiting => issued[CurrentTask(c)] >= 1
  /\ pc[c] \in Reading => got[c] \in results.pending

\* No two consumers work on the same task or hold the same result.
ConsumerInv ==
  /\ NoDuplicates(inbound.log)
  /\ \A c \in Consumer : ConsumerOK(c)
  /\ \A c, d \in Consumer : entry[c] = entry[d] /\ entry[c] # 0 => c = d
  /\ \A c, d \in Consumer : pc[c] \in Reading /\ pc[d] \in Reading /\ got[c] = got[d] => c = d

\* So does a worker, and the controller.
RunnerInv ==
  \A w \in Worker :
    /\ rpc[w] = "idle" <=> rentry[w] = 0
    /\ rpc[w] # "idle" => rentry[w] \in trusted.pending
    /\ \A v \in Worker : rentry[w] = rentry[v] /\ rentry[w] # 0 => w = v

UntrustedInv == upc \in {"run", "write", "ack"} => uentry \in untrusted.pending

\* A call stream holds calls already issued, each once, of tasks of the right trust.
CallLogInv(log, trust) ==
  /\ NoDuplicates(log)
  /\ \A i \in 1 .. Len(log) :
       /\ log[i].seq <= issued[log[i].task]
       /\ EffectivelyUntrusted(log[i].task) = ~trust

\* What is in a call stream has been executed at most once, and not at all before
\* the step that executes it (early: the entries in hand that have not got there);
\* what is not in the stream has not been executed.
ExecutionInv(stream, host, early) ==
  /\ \A c \in Call : executions[c][host] > 0 => Added(stream, c)
  /\ \A i \in 1 .. Len(stream.log) :
       /\ executions[stream.log[i]][host] <= 1
       /\ i > stream.cursor \/ i \in early => executions[stream.log[i]][host] = 0

BeforeBridge == { rentry[w] : w \in { v \in Worker : rpc[v] \in {"lease", "execute"} } }
BeforeContainer == IF upc = "run" THEN {uentry} ELSE {}

CallSideInv ==
  /\ RunnerInv
  /\ UntrustedInv
  /\ CallLogInv(trusted.log, TRUE)
  /\ CallLogInv(untrusted.log, FALSE)
  /\ ExecutionInv(trusted, "bridge", BeforeBridge)
  /\ ExecutionInv(untrusted, "container", BeforeContainer)

IInv == TypeOK /\ ConsumerInv /\ CallSideInv

-----------------------------------------------------------------------------
(* Logs and events.                                                        *)

\* A log without duplicates stays so when it is extended by a message it lacks.
LEMMA AppendNew ==
  ASSUME NEW Message, NEW s \in Stream(Message), NEW m \in Message,
         NoDuplicates(s.log), ~Added(s, m)
  PROVE  NoDuplicates(Append(s.log, m))
  BY DEF Stream, NoDuplicates, Added

\* Publishing keeps the record of events well-typed.
LEMMA PublishType ==
  ASSUME events \in [Task -> Seq(EventType)], NEW t \in Task, NEW type \in EventType,
         Publish(t, type)
  PROVE  events' \in [Task -> Seq(EventType)]
  BY DEF Publish

-----------------------------------------------------------------------------
(* The inference consumers.                                                *)

LEMMA ReadTaskPreserves ==
  ASSUME TypeOK, ConsumerInv, NEW c \in Consumer, ReadTask(c)
  PROVE  SharedTypeOK' /\ InferenceTypeOK' /\ ConsumerInv'
<1> USE DEF TypeOK, SharedTypeOK, InferenceTypeOK
<1>1. /\ inbound' \in Stream(Task)
      /\ inbound'.log = inbound.log
      /\ inbound'.pending = inbound.pending \cup {NextId(inbound)}
      /\ NextId(inbound) \notin inbound.pending
      /\ NextId(inbound) # 0
      /\ NextId(inbound) \in 1 .. Len(inbound.log)
      /\ inbound.log[NextId(inbound)] \in Task
  BY XREADGROUPStream DEF ReadTask
<1>2. SharedTypeOK'
  BY <1>1 DEF ReadTask, historyVars
<1>3. InferenceTypeOK'
  BY <1>1 DEF ReadTask, Goto, InferencePC, TryBlock
<1>4. ConsumerInv'
  <2>1. NoDuplicates(inbound.log)'
    BY <1>1 DEF ConsumerInv, NoDuplicates
  <2>2. \A d \in Consumer : ConsumerOK(d)'
    BY <1>1 DEF ReadTask, Goto, ConsumerInv, ConsumerOK, InToolUse, Waiting, Reading, ToPush, CurrentTask, historyVars
  <2>3. \A d, e \in Consumer : (entry[d] = entry[e] /\ entry[d] # 0)' => d = e
    BY <1>1 DEF ReadTask, Goto, ConsumerInv, ConsumerOK
  <2>4. \A d, e \in Consumer : (pc[d] \in Reading /\ pc[e] \in Reading /\ got[d] = got[e])' => d = e
    BY <1>1 DEF ReadTask, Goto, ConsumerInv, ConsumerOK, Reading
  <2> QED BY <2>1, <2>2, <2>3, <2>4 DEF ConsumerInv
<1> QED BY <1>2, <1>3, <1>4

\* A consumer at work is at work on a delivered task.
LEMMA CurrentTaskType ==
  ASSUME TypeOK, ConsumerInv, NEW c \in Consumer, pc[c] # "idle"
  PROVE  /\ CurrentTask(c) \in Task
         /\ entry[c] \in inbound.pending
         /\ entry[c] \in 1 .. Len(inbound.log)
         /\ entry[c] # 0
BY PendingEntry DEF TypeOK, SharedTypeOK, ConsumerInv, ConsumerOK, CurrentTask

\* Consumers at work are at work on different tasks.
LEMMA OneConsumerPerTask ==
  ASSUME TypeOK, ConsumerInv, NEW c \in Consumer, NEW d \in Consumer,
         pc[c] # "idle", pc[d] # "idle", CurrentTask(c) = CurrentTask(d)
  PROVE  c = d
BY CurrentTaskType DEF ConsumerInv, NoDuplicates, CurrentTask

\* Moving on to an await where no tool call is at hand keeps the invariant.
LEMMA LeaveToolUse ==
  ASSUME TypeOK, ConsumerInv, NEW c \in Consumer, pc[c] # "idle",
         NEW to \in InferencePC \ (InToolUse \cup {"idle"}),
         pc' = [pc EXCEPT ![c] = to],
         UNCHANGED << entry, todo, iter, got, inbound, results, issued >>
  PROVE  InferenceTypeOK' /\ ConsumerInv'
<1> USE DEF TypeOK, SharedTypeOK, InferenceTypeOK
<1>1. InferenceTypeOK'
  OBVIOUS
<1>2. NoDuplicates(inbound.log)'
  BY DEF ConsumerInv, NoDuplicates
<1>3. ASSUME NEW d \in Consumer PROVE ConsumerOK(d)'
  <2>1. ConsumerOK(d)
    BY DEF ConsumerInv
  <2>2. CurrentTask(d)' = CurrentTask(d)
    BY DEF CurrentTask
  <2>3. CASE d = c
    <3>1. pc'[c] = to /\ ToPush(c)' = 0 /\ issued[CurrentTask(c)] \in 0 .. MaxCalls
      BY CurrentTaskType DEF ToPush, InToolUse, Waiting
    <3> QED BY <2>1, <2>2, <2>3, <3>1, BoundAssumption
        DEF ConsumerOK, InToolUse, Waiting, Reading
  <2>4. CASE d # c
    <3>1. pc'[d] = pc[d]
      BY <2>4
    <3> QED BY <2>1, <2>2, <3>1 DEF ConsumerOK, ToPush
  <2> QED BY <2>3, <2>4
<1>4. \A d, e \in Consumer : (entry[d] = entry[e] /\ entry[d] # 0)' => d = e
  BY DEF ConsumerInv
<1>5. \A d, e \in Consumer : (pc[d] \in Reading /\ pc[e] \in Reading /\ got[d] = got[e])' => d = e
  BY DEF ConsumerInv, InToolUse, Reading
<1> QED BY <1>1, <1>2, <1>3, <1>4, <1>5 DEF ConsumerInv

\* Going back to the read of the next task does, too.
LEMMA ForgetPreserves ==
  ASSUME TypeOK, ConsumerInv, NEW c \in Consumer, Forget(c),
         inbound'.log = inbound.log,
         \A d \in Consumer \ {c} : entry[d] \in inbound.pending => entry[d] \in inbound'.pending,
         UNCHANGED << results, issued >>
  PROVE  InferenceTypeOK' /\ ConsumerInv'
<1> USE DEF TypeOK, SharedTypeOK, InferenceTypeOK, Forget
<1>1. InferenceTypeOK'
  BY InferenceAssumption DEF InferencePC
<1>2. NoDuplicates(inbound.log)'
  BY DEF ConsumerInv, NoDuplicates
<1>3. ASSUME NEW d \in Consumer PROVE ConsumerOK(d)'
  <2>1. CASE d = c
    BY <2>1 DEF ConsumerOK, InToolUse, Waiting, Reading
  <2>2. CASE d # c
    <3>1. pc'[d] = pc[d] /\ entry'[d] = entry[d] /\ todo'[d] = todo[d] /\ iter'[d] = iter[d]
          /\ got'[d] = got[d]
      BY <2>2
    <3>2. ConsumerOK(d)
      BY DEF ConsumerInv
    <3>3. CurrentTask(d)' = CurrentTask(d) /\ ToPush(d)' = ToPush(d)
      BY <3>1 DEF CurrentTask, ToPush
    <3>4. pc[d] # "idle" => entry[d] \in inbound'.pending
      BY <2>2, <3>2 DEF ConsumerOK
    <3> QED BY <3>1, <3>2, <3>3, <3>4 DEF ConsumerOK
  <2> QED BY <2>1, <2>2
<1>4. \A d, e \in Consumer : (entry[d] = entry[e] /\ entry[d] # 0)' => d = e
  BY DEF ConsumerInv
<1>5. \A d, e \in Consumer : (pc[d] \in Reading /\ pc[e] \in Reading /\ got[d] = got[e])' => d = e
  BY DEF ConsumerInv, Reading
<1> QED BY <1>1, <1>2, <1>3, <1>4, <1>5 DEF ConsumerInv

\* The steps of a consumer that push nothing, read nothing and acknowledge nothing.
LEMMA QuietStepPreserves ==
  ASSUME TypeOK, ConsumerInv, NEW c \in Consumer,
         \/ CheckCancel(c) \/ DeleteCancelKey(c) \/ PublishCancelled(c)
         \/ PublishCancelledReplyLost(c) \/ ReceiveChunk(c) \/ EndTurn(c)
         \/ ProviderFails(c) \/ PublishDone(c) \/ PublishError(c)
         \/ FaultInTry(c) \/ FaultInPublish(c)
  PROVE  SharedTypeOK' /\ InferenceTypeOK' /\ ConsumerInv'
<1>1. CurrentTask(c) \in Task
  <2>1. pc[c] # "idle"
    BY DEF CheckCancel, DeleteCancelKey, PublishCancelled, PublishCancelledReplyLost,
           ReceiveChunk, EndTurn, ProviderFails, PublishDone, PublishError, FaultInTry,
           FaultInPublish, Goto, TryBlock
  <2> QED BY <2>1, CurrentTaskType
<1>2. ASSUME \/ CheckCancel(c) \/ DeleteCancelKey(c) \/ EndTurn(c) \/ ProviderFails(c)
             \/ FaultInTry(c) \/ FaultInPublish(c)
      PROVE  SharedTypeOK'
  BY <1>1, <1>2, BoundAssumption DEF TypeOK, SharedTypeOK, CheckCancel, DeleteCancelKey, EndTurn, ProviderFails,
     FaultInTry, FaultInPublish, CountFailure, sharedVars, streamVars, historyVars
<1>3. ASSUME \/ PublishCancelled(c) \/ PublishCancelledReplyLost(c) \/ ReceiveChunk(c)
             \/ PublishDone(c) \/ PublishError(c)
      PROVE  SharedTypeOK'
  <2>1. events' \in [Task -> Seq(EventType)]
    BY <1>1, <1>3, PublishType DEF TypeOK, SharedTypeOK, PublishCancelled,
       PublishCancelledReplyLost, ReceiveChunk, PublishDone, PublishError, EventType
  <2> QED BY <1>3, <2>1, BoundAssumption DEF TypeOK, SharedTypeOK, PublishCancelled, PublishCancelledReplyLost,
       ReceiveChunk, PublishDone, PublishError, CountFailure, streamVars, historyVars
<1>4. PICK to \in InferencePC \ (InToolUse \cup {"idle"}) :
        pc[c] # "idle" /\ pc' = [pc EXCEPT ![c] = to]
  <2>1. CASE ReceiveChunk(c)
    BY <2>1 DEF ReceiveChunk, inferenceVars, InferencePC, TryBlock, InToolUse, TypeOK,
                InferenceTypeOK
  <2>2. CASE CheckCancel(c)
    BY <2>2 DEF CheckCancel, Goto, InferencePC, TryBlock, InToolUse
  <2>3. CASE ~ReceiveChunk(c) /\ ~CheckCancel(c)
    BY <2>3 DEF DeleteCancelKey, PublishCancelled, PublishCancelledReplyLost, EndTurn,
           ProviderFails, PublishDone, PublishError, FaultInTry, FaultInPublish, Goto,
           InferencePC, TryBlock, InToolUse
  <2> QED BY <2>1, <2>2, <2>3
<1>5. UNCHANGED << entry, todo, iter, got, inbound, results, issued >>
  BY DEF CheckCancel, DeleteCancelKey, PublishCancelled, PublishCancelledReplyLost,
         ReceiveChunk, EndTurn, ProviderFails, PublishDone, PublishError, FaultInTry,
         FaultInPublish, sharedVars, streamVars, historyVars, inferenceVars
<1> QED BY <1>2, <1>3, <1>4, <1>5, LeaveToolUse

\* The model asks for n tool calls, which its budget has room for.
LEMMA RequestToolsPreserves ==
  ASSUME TypeOK, ConsumerInv, NEW c \in Consumer, NEW n \in 0 .. MaxRoundCalls,
         RequestTools(c, n)
  PROVE  SharedTypeOK' /\ InferenceTypeOK' /\ ConsumerInv'
<1> USE DEF TypeOK, SharedTypeOK, InferenceTypeOK, RequestTools, Goto, sharedVars, streamVars,
            historyVars
<1>1. SharedTypeOK'
  OBVIOUS
<1>2. InferenceTypeOK'
  BY DEF InferencePC, TryBlock
<1>3. NoDuplicates(inbound.log)'
  BY DEF ConsumerInv, NoDuplicates
<1>4. \A d \in Consumer : ConsumerOK(d)'
  BY CurrentTaskType, SMTT(30) DEF ConsumerInv, ConsumerOK, InToolUse, Waiting, Reading, ToPush,
     CurrentTask
<1>5. \A d, e \in Consumer : (entry[d] = entry[e] /\ entry[d] # 0)' => d = e
  BY DEF ConsumerInv
<1>6. \A d, e \in Consumer : (pc[d] \in Reading /\ pc[e] \in Reading /\ got[d] = got[e])' => d = e
  BY DEF ConsumerInv, Reading
<1> QED BY <1>1, <1>2, <1>3, <1>4, <1>5, <1>6 DEF ConsumerInv

\* A push takes one call off what is left of the round.
LEMMA PushToolCallPreserves ==
  ASSUME TypeOK, ConsumerInv, NEW c \in Consumer, PushToolCall(c)
  PROVE  SharedTypeOK' /\ InferenceTypeOK' /\ ConsumerInv'
<1> DEFINE t == CurrentTask(c)
           call == [task |-> t, seq |-> issued[t] + 1]
<1>1. /\ t \in Task
      /\ issued[t] \in 0 .. MaxCalls
      /\ issued[t] + todo[c] <= MaxCalls
      /\ todo[c] \in 1 .. MaxRoundCalls
      /\ pc[c] = "push"
      /\ pc' = [pc EXCEPT ![c] = "read"]
      /\ issued' = [issued EXCEPT ![t] = @ + 1]
      /\ UNCHANGED << entry, todo, iter, got, inbound, results >>
  BY CurrentTaskType, BoundAssumption, InferenceAssumption, SMTT(30)
  DEF PushToolCall, Goto, ConsumerInv, ConsumerOK, ToPush, InToolUse, TypeOK, SharedTypeOK,
         InferenceTypeOK
<1> HIDE DEF t
<1>2. call \in Call
  BY <1>1, BoundAssumption DEF Call
<1>3. trusted' \in Stream(Call) /\ untrusted' \in Stream(Call)
  <2>1. XADD(untrusted, call) \in Stream(Call) /\ XADD(trusted, call) \in Stream(Call)
    BY <1>2, XADDStream DEF TypeOK, SharedTypeOK
  <2> QED BY <2>1 DEF PushToolCall, TypeOK, SharedTypeOK, t
<1>4. issued' \in [Task -> 0 .. MaxCalls]
  BY <1>1, BoundAssumption, InferenceAssumption DEF TypeOK, SharedTypeOK
<1>5. SharedTypeOK'
  BY <1>3, <1>4 DEF PushToolCall, TypeOK, SharedTypeOK
<1>6. InferenceTypeOK'
  BY <1>1 DEF InferencePC, TryBlock, TypeOK, InferenceTypeOK
<1>7. ASSUME NEW d \in Consumer PROVE ConsumerOK(d)'
  <2>1. ConsumerOK(d) /\ CurrentTask(d)' = CurrentTask(d)
    BY <1>1 DEF ConsumerInv, CurrentTask
  <2>2. CASE d = c
    <3>1. /\ pc'[c] = "read"
          /\ ToPush(c)' = todo[c] - 1
          /\ issued'[CurrentTask(c)] = issued[t] + 1
      BY <1>1 DEF ToPush, Waiting, t, TypeOK, InferenceTypeOK, SharedTypeOK, ConsumerInv,
                  ConsumerOK
    <3> QED BY <1>1, <2>1, <2>2, <3>1, InferenceAssumption
        DEF ConsumerOK, InToolUse, Waiting, Reading, TypeOK, InferenceTypeOK
  <2>3. CASE d # c
    <3>1. pc'[d] = pc[d] /\ ToPush(d)' = ToPush(d)
      BY <1>1, <2>3 DEF TypeOK, InferenceTypeOK, ToPush
    <3>2. pc[d] # "idle" => CurrentTask(d) # t /\ CurrentTask(d) \in Task
      BY <1>1, <2>3, OneConsumerPerTask, CurrentTaskType DEF t
    <3>3. pc[d] # "idle" => issued'[CurrentTask(d)] = issued[CurrentTask(d)]
      BY <1>1, <3>2 DEF TypeOK, SharedTypeOK
    <3> QED BY <1>1, <2>1, <3>1, <3>3 DEF ConsumerOK, InToolUse, Waiting, Reading
  <2> QED BY <2>2, <2>3
<1>8. NoDuplicates(inbound.log)'
  BY <1>1 DEF ConsumerInv, NoDuplicates
<1>9. \A d, e \in Consumer : (entry[d] = entry[e] /\ entry[d] # 0)' => d = e
  BY <1>1 DEF ConsumerInv
<1>10. \A d, e \in Consumer : (pc[d] \in Reading /\ pc[e] \in Reading /\ got[d] = got[e])' => d = e
  BY <1>1 DEF ConsumerInv, Reading, TypeOK, InferenceTypeOK
<1> QED BY <1>5, <1>6, <1>7, <1>8, <1>9, <1>10 DEF ConsumerInv

\* Going on to the next tool call of the round, with or without a result.
LEMMA NextToolUsePreserves ==
  ASSUME TypeOK, ConsumerInv, NEW c \in Consumer, pc[c] \in Waiting, NextToolUse(c),
         results' \in Stream(Call),
         pc[c] \in Reading => results'.pending = results.pending \ {got[c]},
         pc[c] \notin Reading => results'.pending = results.pending,
         got' \in [Consumer -> Nat],
         \A d \in Consumer : d # c => got'[d] = got[d],
         UNCHANGED << entry, inbound, issued >>
  PROVE  InferenceTypeOK' /\ ConsumerInv'
<1> USE DEF TypeOK, SharedTypeOK, InferenceTypeOK, NextToolUse
<1>1. todo[c] \in 1 .. MaxRoundCalls /\ issued[CurrentTask(c)] + (todo[c] - 1) <= MaxCalls
      /\ issued[CurrentTask(c)] \in 0 .. MaxCalls
  <2>1. pc[c] # "idle" /\ pc[c] \in InToolUse /\ ToPush(c) = todo[c] - 1 /\ ConsumerOK(c)
    BY DEF ConsumerInv, ToPush, InToolUse, Waiting
  <2> QED BY <2>1, CurrentTaskType, InferenceAssumption, BoundAssumption DEF ConsumerOK
<1>2. InferenceTypeOK'
  <2>1. pc' \in [Consumer -> InferencePC]
    BY DEF InferencePC, TryBlock
  <2>2. todo' \in [Consumer -> 0 .. MaxRoundCalls]
    BY <1>1, InferenceAssumption
  <2>3. iter' \in [Consumer -> 0 .. MaxToolResultIterations - 1]
    BY InferenceAssumption
  <2> QED BY <2>1, <2>2, <2>3
<1>3. ASSUME NEW d \in Consumer PROVE ConsumerOK(d)'
  <2>1. ConsumerOK(d) /\ CurrentTask(d)' = CurrentTask(d)
    BY DEF ConsumerInv, CurrentTask
  <2>2. CASE d = c
    <3>1. pc'[c] \in {"push", "check"} /\ todo'[c] = todo[c] - 1
          /\ (pc'[c] = "push" => todo[c] > 1)
      BY <1>1
    <3>2. ToPush(c)' \in {0, todo[c] - 1}
      BY <3>1 DEF ToPush, Waiting
    <3> QED BY <1>1, <2>1, <2>2, <3>1, <3>2, BoundAssumption, InferenceAssumption
        DEF ConsumerOK, InToolUse, Waiting, Reading
  <2>3. CASE d # c
    <3>1. /\ pc'[d] = pc[d] /\ ToPush(d)' = ToPush(d) /\ iter'[d] = iter[d]
          /\ got'[d] = got[d] /\ todo'[d] = todo[d]
      BY <2>3 DEF ToPush
    <3>2. pc[d] \in Reading => got[d] \in results'.pending
      BY <2>1, <2>3 DEF ConsumerOK, ConsumerInv
    <3> QED BY <2>1, <3>1, <3>2 DEF ConsumerOK
  <2> QED BY <2>2, <2>3
<1>4. NoDuplicates(inbound.log)'
  BY DEF ConsumerInv, NoDuplicates
<1>5. \A d, e \in Consumer : (entry[d] = entry[e] /\ entry[d] # 0)' => d = e
  BY DEF ConsumerInv
<1>6. \A d, e \in Consumer : (pc[d] \in Reading /\ pc[e] \in Reading /\ got[d] = got[e])' => d = e
  BY DEF ConsumerInv, Reading
<1> QED BY <1>2, <1>3, <1>4, <1>5, <1>6 DEF ConsumerInv

\* Reading a result takes it out of everybody else's reach.
LEMMA ReadToolResultPreserves ==
  ASSUME TypeOK, ConsumerInv, NEW c \in Consumer, ReadToolResult(c)
  PROVE  SharedTypeOK' /\ InferenceTypeOK' /\ ConsumerInv'
<1>1. /\ results' \in Stream(Call)
      /\ results'.pending = results.pending \cup {NextId(results)}
      /\ NextId(results) \notin results.pending
      /\ NextId(results) \in Nat
  <2>1. results \in Stream(Call) /\ HasUnread(results) /\ results' = XREADGROUP(results)
    BY DEF ReadToolResult, TypeOK, SharedTypeOK
  <2>2. NextId(results) \in Nat
    BY <2>1, StreamParts DEF NextId
  <2> QED BY <2>1, <2>2, XREADGROUPStream
<1>2. /\ pc[c] = "read"
      /\ pc' \in [Consumer -> InferencePC]
      /\ pc'[c] \in Reading
      /\ \A d \in Consumer : d # c => pc'[d] = pc[d]
      /\ got' = [got EXCEPT ![c] = NextId(results)]
      /\ UNCHANGED << entry, todo, iter, inbound, issued >>
  BY DEF ReadToolResult, Goto, Reading, TypeOK, InferenceTypeOK, InferencePC, TryBlock,
         historyVars
<1>3. SharedTypeOK'
  BY <1>1 DEF ReadToolResult, TypeOK, SharedTypeOK, historyVars
<1>4. InferenceTypeOK'
  BY <1>1, <1>2 DEF TypeOK, InferenceTypeOK
<1>5. ASSUME NEW d \in Consumer PROVE ConsumerOK(d)'
  <2>1. ConsumerOK(d) /\ CurrentTask(d)' = CurrentTask(d)
    BY <1>2 DEF ConsumerInv, CurrentTask
  <2>2. ToPush(d)' = ToPush(d)
    BY <1>2 DEF ToPush, Waiting, Reading
  <2>3. pc'[d] \in Reading => got'[d] \in results'.pending
    BY <1>1, <1>2, <2>1 DEF ConsumerOK, TypeOK, InferenceTypeOK
  <2> QED BY <1>2, <2>1, <2>2, <2>3 DEF ConsumerOK, InToolUse, Waiting, Reading
<1>6. NoDuplicates(inbound.log)'
  BY <1>2 DEF ConsumerInv, NoDuplicates
<1>7. \A d, e \in Consumer : (entry[d] = entry[e] /\ entry[d] # 0)' => d = e
  BY <1>2 DEF ConsumerInv
<1>8. \A d, e \in Consumer : (pc[d] \in Reading /\ pc[e] \in Reading /\ got[d] = got[e])' => d = e
  BY <1>1, <1>2 DEF ConsumerInv, ConsumerOK, TypeOK, InferenceTypeOK
<1> QED BY <1>3, <1>4, <1>5, <1>6, <1>7, <1>8 DEF ConsumerInv

\* Giving up on a result, discarding one, taking one.
LEMMA AnswerPreserves ==
  ASSUME TypeOK, ConsumerInv, NEW c \in Consumer,
         ReadTimeout(c) \/ AckToolResult(c) \/ DiscardResult(c)
  PROVE  SharedTypeOK' /\ InferenceTypeOK' /\ ConsumerInv'
<1> DEFINE acked == XACK(results, got[c])
<1>1. /\ acked \in Stream(Call)
      /\ acked.log = results.log
      /\ acked.pending = results.pending \ {got[c]}
  BY XACKStream DEF TypeOK, SharedTypeOK
<1> HIDE DEF acked
<1>2. CASE ReadTimeout(c)
  <2>1. SharedTypeOK'
    BY <1>2 DEF ReadTimeout, TypeOK, SharedTypeOK, sharedVars, streamVars, historyVars
  <2>2. InferenceTypeOK' /\ ConsumerInv'
    <3>1. /\ pc[c] \in Waiting /\ pc[c] \notin Reading /\ NextToolUse(c)
          /\ results' \in Stream(Call)
          /\ results'.pending = results.pending
          /\ got' \in [Consumer -> Nat]
          /\ UNCHANGED << entry, got, inbound, issued >>
      BY <1>2 DEF ReadTimeout, Waiting, Reading, TypeOK, SharedTypeOK, InferenceTypeOK,
                  sharedVars, streamVars, historyVars
    <3> QED BY <3>1, NextToolUsePreserves
  <2> QED BY <2>1, <2>2
<1>3. CASE AckToolResult(c)
  <2>1. SharedTypeOK'
    <3>1. CurrentCall(c) \in Call
      <4>1. pc[c] # "idle" /\ pc[c] \in Waiting
        BY <1>3 DEF AckToolResult, Waiting
      <4>2. CurrentTask(c) \in Task /\ issued[CurrentTask(c)] \in 1 .. MaxCalls
        BY <4>1, CurrentTaskType, BoundAssumption DEF TypeOK, SharedTypeOK, ConsumerInv,
           ConsumerOK
      <4> QED BY <4>2 DEF CurrentCall, Call
    <3>2. results.log[got[c]] \in Call
      <4>1. got[c] \in results.pending /\ results \in Stream(Call)
        BY <1>3 DEF AckToolResult, ConsumerInv, ConsumerOK, Reading, TypeOK, SharedTypeOK
      <4> QED BY <4>1, PendingEntry
    <3>3. answers' \subseteq [call : Call, source : Call]
      BY <1>3, <3>1, <3>2 DEF AckToolResult, TypeOK, SharedTypeOK
    <3> QED BY <1>1, <1>3, <3>3 DEF AckToolResult, TypeOK, SharedTypeOK, acked
  <2>2. InferenceTypeOK' /\ ConsumerInv'
    <3>1. /\ pc[c] \in Waiting /\ pc[c] \in Reading /\ NextToolUse(c)
          /\ results' \in Stream(Call)
          /\ results'.pending = results.pending \ {got[c]}
          /\ got' \in [Consumer -> Nat]
          /\ \A d \in Consumer : d # c => got'[d] = got[d]
          /\ UNCHANGED << entry, inbound, issued >>
      BY <1>1, <1>3 DEF AckToolResult, Waiting, Reading, TypeOK, InferenceTypeOK, acked
    <3> QED BY <3>1, NextToolUsePreserves
  <2> QED BY <2>1, <2>2
<1>4. CASE DiscardResult(c)
  <2>1. SharedTypeOK'
    BY <1>1, <1>4 DEF DiscardResult, TypeOK, SharedTypeOK, acked, historyVars
  <2>2. /\ pc[c] = "discard"
        /\ results' \in Stream(Call)
        /\ results'.pending = results.pending \ {got[c]}
        /\ got' \in [Consumer -> Nat]
        /\ \A d \in Consumer : d # c => got'[d] = got[d]
        /\ UNCHANGED << entry, inbound, issued >>
    BY <1>1, <1>4 DEF DiscardResult, TypeOK, InferenceTypeOK, acked, historyVars
  <2>3. CASE NextToolUse(c)
    BY <2>2, <2>3, NextToolUsePreserves, <2>1 DEF Waiting, Reading
  <2>4. CASE /\ pc' = [pc EXCEPT ![c] = "read"]
             /\ iter[c] + 1 < MaxToolResultIterations
             /\ iter' = [iter EXCEPT ![c] = @ + 1]
             /\ UNCHANGED todo
    <3>1. InferenceTypeOK'
      BY <2>2, <2>4, InferenceAssumption DEF TypeOK, InferenceTypeOK, InferencePC, TryBlock
    <3>2. ASSUME NEW d \in Consumer PROVE ConsumerOK(d)'
      <4>1. ConsumerOK(d) /\ CurrentTask(d)' = CurrentTask(d)
        BY <2>2 DEF ConsumerInv, CurrentTask
      <4>2. ToPush(d)' = ToPush(d)
        BY <2>2, <2>4 DEF ToPush, Waiting, TypeOK, InferenceTypeOK
      <4>3. pc'[d] = IF d = c THEN "read" ELSE pc[d]
        BY <2>4 DEF TypeOK, InferenceTypeOK
      <4>4. pc'[d] \in Reading => got'[d] \in results'.pending
        BY <2>2, <4>1, <4>3 DEF Reading, ConsumerOK, ConsumerInv
      <4> QED BY <2>2, <2>4, <4>1, <4>2, <4>3, <4>4 DEF ConsumerOK, InToolUse, Waiting
    <3>3. NoDuplicates(inbound.log)'
      BY <2>2 DEF ConsumerInv, NoDuplicates
    <3>4. \A d, e \in Consumer : (entry[d] = entry[e] /\ entry[d] # 0)' => d = e
      BY <2>2 DEF ConsumerInv
    <3>5. \A d, e \in Consumer :
            (pc[d] \in Reading /\ pc[e] \in Reading /\ got[d] = got[e])' => d = e
      BY <2>2, <2>4 DEF ConsumerInv, Reading, TypeOK, InferenceTypeOK
    <3> QED BY <2>1, <3>1, <3>2, <3>3, <3>4, <3>5 DEF ConsumerInv
  <2> QED BY <1>4, <2>3, <2>4 DEF DiscardResult
<1> QED BY <1>2, <1>3, <1>4

\* Acknowledging the task, and dying.
LEMMA LeaveTaskPreserves ==
  ASSUME TypeOK, ConsumerInv, NEW c \in Consumer, AckTask(c) \/ CrashConsumer(c)
  PROVE  SharedTypeOK' /\ InferenceTypeOK' /\ ConsumerInv'
<1>1. CASE AckTask(c)
  <2>1. /\ inbound' \in Stream(Task)
        /\ inbound'.log = inbound.log
        /\ inbound'.pending = inbound.pending \ {entry[c]}
    BY <1>1, XACKStream DEF AckTask, TypeOK, SharedTypeOK
  <2>2. \A d \in Consumer \ {c} : entry[d] \in inbound.pending => entry[d] \in inbound'.pending
    <3> SUFFICES ASSUME NEW d \in Consumer \ {c}, entry[d] \in inbound.pending
                 PROVE  entry[d] # entry[c]
      BY <2>1
    <3>1. entry[c] # 0
      BY <1>1 DEF AckTask, ConsumerInv, ConsumerOK
    <3> QED BY <3>1 DEF ConsumerInv
  <2>3. Forget(c) /\ UNCHANGED << results, issued >>
    BY <1>1 DEF AckTask, historyVars
  <2>4. SharedTypeOK'
    BY <1>1, <2>1 DEF AckTask, TypeOK, SharedTypeOK, historyVars
  <2> QED BY <2>1, <2>2, <2>3, <2>4, ForgetPreserves
<1>2. CASE CrashConsumer(c)
  <2>1. Forget(c) /\ UNCHANGED << inbound, results, issued >>
    BY <1>2 DEF CrashConsumer, streamVars, historyVars
  <2>2. SharedTypeOK'
    BY <1>2, BoundAssumption DEF CrashConsumer, CountFailure, TypeOK, SharedTypeOK,
       streamVars, historyVars
  <2> QED BY <2>1, <2>2, ForgetPreserves
<1> QED BY <1>1, <1>2

\* Every step of a consumer.
LEMMA ConsumerPreserves ==
  ASSUME TypeOK, ConsumerInv, InferenceNext
  PROVE  SharedTypeOK' /\ InferenceTypeOK' /\ ConsumerInv'
<1>1. PICK c \in Consumer : ProviderStep(c) \/ InferenceStep(c) \/ InferenceFailure(c)
  BY DEF InferenceNext
<1>2. CASE ProviderStep(c)
  BY <1>2, QuietStepPreserves, RequestToolsPreserves DEF ProviderStep
<1>3. CASE InferenceStep(c)
  BY <1>3, ReadTaskPreserves, QuietStepPreserves, PushToolCallPreserves,
     ReadToolResultPreserves, AnswerPreserves, LeaveTaskPreserves DEF InferenceStep
<1>4. CASE InferenceFailure(c)
  BY <1>4, QuietStepPreserves, LeaveTaskPreserves DEF InferenceFailure
<1> QED BY <1>1, <1>2, <1>3, <1>4

-----------------------------------------------------------------------------
(* The call side: the two call streams and what is executed.               *)

callSideVars == << trusted, untrusted, issued, executions, rpc, rentry, upc, uentry >>

\* It depends on nothing else.
LEMMA CallSideUnchanged ==
  ASSUME CallSideInv, UNCHANGED callSideVars
  PROVE  CallSideInv'
<1> USE DEF callSideVars
<1>1. RunnerInv' /\ UntrustedInv'
  BY DEF CallSideInv, RunnerInv, UntrustedInv
<1>2. CallLogInv(trusted.log, TRUE)' /\ CallLogInv(untrusted.log, FALSE)'
  BY DEF CallSideInv, CallLogInv, NoDuplicates
<1>3. BeforeBridge' = BeforeBridge /\ BeforeContainer' = BeforeContainer
  BY DEF BeforeBridge, BeforeContainer
<1>4. ExecutionInv(trusted, "bridge", BeforeBridge)'
  BY <1>3 DEF CallSideInv, ExecutionInv, Added
<1>5. ExecutionInv(untrusted, "container", BeforeContainer)'
  BY <1>3 DEF CallSideInv, ExecutionInv, Added
<1> QED BY <1>1, <1>2, <1>4, <1>5 DEF CallSideInv

\* The next call of a task is not in a log of calls already issued.
LEMMA NextCallIsNew ==
  ASSUME NEW log \in Seq(Call), NEW before \in [Task -> Nat], NEW t \in Task,
         NEW call \in Call, call = [task |-> t, seq |-> before[t] + 1],
         NoDuplicates(log),
         \A i \in 1 .. Len(log) : log[i].seq <= before[log[i].task]
  PROVE  /\ \A i \in 1 .. Len(log) : log[i] # call
         /\ NoDuplicates(Append(log, call))
<1>1. ASSUME NEW i \in 1 .. Len(log) PROVE log[i] # call
  <2>1. call.task = t /\ call.seq = before[t] + 1 /\ before[t] \in Nat
    OBVIOUS
  <2> QED BY <2>1
<1>2. NoDuplicates(Append(log, call))
  BY <1>1 DEF NoDuplicates
<1> QED BY <1>1, <1>2

LEMMA PushCallSide ==
  ASSUME TypeOK, ConsumerInv, CallSideInv, NEW c \in Consumer, PushToolCall(c),
         UNCHANGED << rpc, rentry, upc, uentry >>
  PROVE  CallSideInv'
<1> DEFINE t == CurrentTask(c)
           call == [task |-> t, seq |-> issued[t] + 1]
<1>1. /\ t \in Task
      /\ issued[t] \in Nat
      /\ call \in Call
      /\ issued' = [issued EXCEPT ![t] = @ + 1]
      /\ executions' = executions
      /\ issued \in [Task -> Nat]
  <2>1. pc[c] = "push" /\ pc[c] # "idle" /\ issued' = [issued EXCEPT ![t] = @ + 1]
        /\ executions' = executions
    BY DEF PushToolCall, Goto
  <2>2. t \in Task /\ issued[t] \in 0 .. MaxCalls /\ issued[t] + todo[c] <= MaxCalls
        /\ todo[c] >= 1 /\ todo[c] \in Nat
    BY <2>1, CurrentTaskType, InferenceAssumption
       DEF TypeOK, SharedTypeOK, InferenceTypeOK, ConsumerInv, ConsumerOK, ToPush, InToolUse
  <2> QED BY <2>1, <2>2, BoundAssumption DEF Call, TypeOK, SharedTypeOK
<1>2. IF EffectivelyUntrusted(t)
      THEN untrusted' = XADD(untrusted, call) /\ UNCHANGED trusted
      ELSE trusted' = XADD(trusted, call) /\ UNCHANGED untrusted
  BY DEF PushToolCall
<1> HIDE DEF t
<1>3. \A u \in Task : issued'[u] >= issued[u] /\ issued'[u] \in Nat
  BY <1>1
<1>4. issued'[t] = issued[t] + 1
  BY <1>1
<1> HIDE DEF call
<1>5. call = [task |-> t, seq |-> issued[t] + 1]
  BY DEF call
<1>6. BeforeBridge' = BeforeBridge /\ BeforeContainer' = BeforeContainer
  BY DEF BeforeBridge, BeforeContainer
<1>7. executions \in [Call -> [Host -> Nat]] /\ "bridge" \in Host /\ "container" \in Host
  BY DEF TypeOK, SharedTypeOK, Host
<1>8. CASE EffectivelyUntrusted(t)
  <2>1. /\ untrusted.log \in Seq(Call) /\ untrusted'.log = Append(untrusted.log, call)
        /\ untrusted'.cursor = untrusted.cursor /\ untrusted'.pending = untrusted.pending
        /\ trusted' = trusted /\ trusted.log \in Seq(Call)
    <3>1. untrusted \in Stream(Call) /\ trusted \in Stream(Call)
      BY DEF TypeOK, SharedTypeOK
    <3>2. untrusted' = XADD(untrusted, call) /\ trusted' = trusted
      BY <1>2, <1>8
    <3> QED BY <1>1, <3>1, <3>2, XADDStream, StreamParts, ZenonT(60)
  <2>2. \A i \in 1 .. Len(untrusted.log) : untrusted.log[i] # call
    BY <1>1, <1>5, <2>1, NextCallIsNew DEF CallSideInv, CallLogInv
  <2>3. NoDuplicates(untrusted'.log)
    BY <1>1, <1>5, <2>1, NextCallIsNew DEF CallSideInv, CallLogInv
  <2>4. CallLogInv(untrusted.log, FALSE)'
    <3>1. ASSUME NEW i \in 1 .. Len(untrusted'.log)
          PROVE  untrusted'.log[i].seq <= issued'[untrusted'.log[i].task]
                 /\ EffectivelyUntrusted(untrusted'.log[i].task)
      <4>1. CASE i = Len(untrusted.log) + 1
        BY <1>1, <1>4, <1>5, <1>8, <2>1, <4>1
      <4>2. CASE i \in 1 .. Len(untrusted.log)
        <5>1. untrusted'.log[i] = untrusted.log[i] /\ untrusted.log[i] \in Call
          BY <2>1, <4>2
        <5>2. untrusted.log[i].seq \in Nat /\ untrusted.log[i].task \in Task
          BY <5>1 DEF Call
        <5>3. untrusted.log[i].seq <= issued[untrusted.log[i].task]
              /\ EffectivelyUntrusted(untrusted.log[i].task)
          BY <4>2 DEF CallSideInv, CallLogInv
        <5> QED BY <1>1, <1>3, <5>1, <5>2, <5>3
      <4> QED BY <2>1, <4>1, <4>2
    <3> QED BY <2>3, <3>1 DEF CallLogInv, NoDuplicates, EffectivelyUntrusted
  <2>5. CallLogInv(trusted.log, TRUE)'
    <3>1. ASSUME NEW i \in 1 .. Len(trusted.log)
          PROVE  trusted.log[i].seq <= issued'[trusted.log[i].task]
      <4>1. trusted.log[i].seq \in Nat /\ trusted.log[i].task \in Task
        <5>1. trusted.log[i] \in Call
          BY <2>1, ElementOfSeq
        <5> QED BY <5>1 DEF Call
      <4>2. trusted.log[i].seq <= issued[trusted.log[i].task]
        BY DEF CallSideInv, CallLogInv
      <4> QED BY <1>1, <1>3, <4>1, <4>2
    <3> QED BY <2>1, <3>1 DEF CallSideInv, CallLogInv, NoDuplicates, EffectivelyUntrusted
  <2>6. ExecutionInv(trusted, "bridge", BeforeBridge)'
    BY <1>1, <1>6, <2>1 DEF CallSideInv, ExecutionInv, Added
  <2>7. ExecutionInv(untrusted, "container", BeforeContainer)'
    <3>1. executions[call]["container"] = 0
      <4>1. ~Added(untrusted, call)
        BY <2>2 DEF Added
      <4>2. executions[call]["container"] \in Nat
        BY <1>1, <1>7
      <4>3. ~(executions[call]["container"] > 0)
        BY <1>1, <4>1 DEF CallSideInv, ExecutionInv
      <4> QED BY <4>2, <4>3
    <3>2. Len(untrusted'.log) = Len(untrusted.log) + 1
          /\ untrusted'.log[Len(untrusted.log) + 1] = call
          /\ \A i \in 1 .. Len(untrusted.log) : untrusted'.log[i] = untrusted.log[i]
      BY <2>1, <1>1
    <3> QED BY <1>1, <1>6, <2>1, <3>1, <3>2 DEF CallSideInv, ExecutionInv, Added
  <2>8. RunnerInv' /\ UntrustedInv'
    BY <2>1 DEF CallSideInv, RunnerInv, UntrustedInv
  <2> QED BY <2>4, <2>5, <2>6, <2>7, <2>8 DEF CallSideInv
<1>9. CASE ~EffectivelyUntrusted(t)
  <2>1. /\ trusted.log \in Seq(Call) /\ trusted'.log = Append(trusted.log, call)
        /\ trusted'.cursor = trusted.cursor /\ trusted'.pending = trusted.pending
        /\ untrusted' = untrusted /\ untrusted.log \in Seq(Call)
    <3>1. trusted \in Stream(Call) /\ untrusted \in Stream(Call)
      BY DEF TypeOK, SharedTypeOK
    <3>2. trusted' = XADD(trusted, call) /\ untrusted' = untrusted
      BY <1>2, <1>9
    <3> QED BY <1>1, <3>1, <3>2, XADDStream, StreamParts, ZenonT(60)
  <2>2. \A i \in 1 .. Len(trusted.log) : trusted.log[i] # call
    BY <1>1, <1>5, <2>1, NextCallIsNew DEF CallSideInv, CallLogInv
  <2>3. NoDuplicates(trusted'.log)
    BY <1>1, <1>5, <2>1, NextCallIsNew DEF CallSideInv, CallLogInv
  <2>4. CallLogInv(trusted.log, TRUE)'
    <3>1. ASSUME NEW i \in 1 .. Len(trusted'.log)
          PROVE  trusted'.log[i].seq <= issued'[trusted'.log[i].task]
                 /\ ~EffectivelyUntrusted(trusted'.log[i].task)
      <4>1. CASE i = Len(trusted.log) + 1
        BY <1>1, <1>4, <1>5, <1>9, <2>1, <4>1
      <4>2. CASE i \in 1 .. Len(trusted.log)
        <5>1. trusted'.log[i] = trusted.log[i] /\ trusted.log[i] \in Call
          BY <2>1, <4>2
        <5>2. trusted.log[i].seq \in Nat /\ trusted.log[i].task \in Task
          BY <5>1 DEF Call
        <5>3. trusted.log[i].seq <= issued[trusted.log[i].task]
              /\ ~EffectivelyUntrusted(trusted.log[i].task)
          BY <4>2 DEF CallSideInv, CallLogInv
        <5> QED BY <1>1, <1>3, <5>1, <5>2, <5>3
      <4> QED BY <2>1, <4>1, <4>2
    <3> QED BY <2>3, <3>1 DEF CallLogInv, NoDuplicates, EffectivelyUntrusted
  <2>5. CallLogInv(untrusted.log, FALSE)'
    <3>1. ASSUME NEW i \in 1 .. Len(untrusted.log)
          PROVE  untrusted.log[i].seq <= issued'[untrusted.log[i].task]
      <4>1. untrusted.log[i].seq \in Nat /\ untrusted.log[i].task \in Task
        <5>1. untrusted.log[i] \in Call
          BY <2>1, ElementOfSeq
        <5> QED BY <5>1 DEF Call
      <4>2. untrusted.log[i].seq <= issued[untrusted.log[i].task]
        BY DEF CallSideInv, CallLogInv
      <4> QED BY <1>1, <1>3, <4>1, <4>2
    <3> QED BY <2>1, <3>1 DEF CallSideInv, CallLogInv, NoDuplicates, EffectivelyUntrusted
  <2>6. ExecutionInv(untrusted, "container", BeforeContainer)'
    BY <1>1, <1>6, <2>1 DEF CallSideInv, ExecutionInv, Added
  <2>7. ExecutionInv(trusted, "bridge", BeforeBridge)'
    <3>1. executions[call]["bridge"] = 0
      <4>1. ~Added(trusted, call)
        BY <2>2 DEF Added
      <4>2. executions[call]["bridge"] \in Nat
        BY <1>1, <1>7
      <4>3. ~(executions[call]["bridge"] > 0)
        BY <1>1, <4>1 DEF CallSideInv, ExecutionInv
      <4> QED BY <4>2, <4>3
    <3>2. Len(trusted'.log) = Len(trusted.log) + 1
          /\ trusted'.log[Len(trusted.log) + 1] = call
          /\ \A i \in 1 .. Len(trusted.log) : trusted'.log[i] = trusted.log[i]
      BY <2>1, <1>1
    <3> QED BY <1>1, <1>6, <2>1, <3>1, <3>2 DEF CallSideInv, ExecutionInv, Added
  <2>8. RunnerInv' /\ UntrustedInv'
    BY <2>1 DEF CallSideInv, RunnerInv, UntrustedInv
  <2> QED BY <2>4, <2>5, <2>6, <2>7, <2>8 DEF CallSideInv
<1> QED BY <1>8, <1>9

\* Every step of a consumer keeps the call side's invariant, a push by being of a new
\* call and the others by not touching it.
LEMMA ConsumerKeepsCallSide ==
  ASSUME TypeOK, ConsumerInv, CallSideInv, InferenceNext,
         UNCHANGED << runnerVars, untrustedVars >>
  PROVE  CallSideInv'
<1>1. PICK c \in Consumer : ProviderStep(c) \/ InferenceStep(c) \/ InferenceFailure(c)
  BY DEF InferenceNext
<1>2. UNCHANGED << rpc, rentry, upc, uentry >>
  BY DEF runnerVars, untrustedVars
<1>3. CASE PushToolCall(c)
  BY <1>2, <1>3, PushCallSide
<1>4. ASSUME UNCHANGED << trusted, untrusted, issued, executions >>
      PROVE  CallSideInv'
  BY <1>2, <1>4, CallSideUnchanged DEF callSideVars
<1>5. CASE ProviderStep(c)
  BY <1>4, <1>5 DEF ProviderStep, ReceiveChunk, EndTurn, ProviderFails, RequestTools,
     sharedVars, streamVars, historyVars
<1>6. CASE InferenceFailure(c)
  BY <1>4, <1>6 DEF InferenceFailure, PublishCancelledReplyLost, FaultInTry, FaultInPublish,
     CrashConsumer, streamVars, historyVars
<1>7. CASE InferenceStep(c) /\ ~PushToolCall(c)
  <2>1. UNCHANGED << trusted, untrusted, issued, executions >>
    BY <1>7 DEF InferenceStep, ReadTask, CheckCancel, DeleteCancelKey, PublishCancelled,
       ReadToolResult, ReadTimeout, DiscardResult, AckToolResult, PublishDone, PublishError,
       AckTask, sharedVars, streamVars, historyVars
  <2> QED BY <1>4, <2>1
<1> QED BY <1>1, <1>3, <1>5, <1>6, <1>7

\* What the consumers' invariant depends on.
LEMMA ConsumerInvUnchanged ==
  ASSUME ConsumerInv, UNCHANGED << inferenceVars, issued >>,
         inbound'.log = inbound.log, inbound'.pending = inbound.pending,
         results'.pending = results.pending
  PROVE  ConsumerInv'
<1> USE DEF inferenceVars
<1>1. \A c \in Consumer : ConsumerOK(c)'
  BY DEF ConsumerInv, ConsumerOK, ToPush, CurrentTask
<1> QED BY <1>1 DEF ConsumerInv, NoDuplicates

-----------------------------------------------------------------------------
(* The clients.                                                            *)

LEMMA ClientPreserves ==
  ASSUME IInv, ClientNext, UNCHANGED << inferenceVars, runnerVars, untrustedVars >>
  PROVE  IInv'
<1> USE DEF IInv
<1>1. PICK t \in Task : PublishTask(t) \/ Cancel(t)
  BY DEF ClientNext
<1>2. InferenceTypeOK' /\ RunnerTypeOK' /\ UntrustedTypeOK'
  BY DEF TypeOK, InferenceTypeOK, RunnerTypeOK, UntrustedTypeOK, inferenceVars, runnerVars,
         untrustedVars
<1>3. CallSideInv'
  BY <1>1, CallSideUnchanged DEF callSideVars, PublishTask, Cancel, streamVars, historyVars,
     runnerVars, untrustedVars
<1>4. CASE Cancel(t)
  <2>1. SharedTypeOK'
    BY <1>4 DEF Cancel, TypeOK, SharedTypeOK, streamVars, historyVars
  <2>2. ConsumerInv'
    BY <1>4, ConsumerInvUnchanged DEF Cancel, streamVars, historyVars
  <2> QED BY <1>2, <1>3, <2>1, <2>2 DEF TypeOK
<1>5. CASE PublishTask(t)
  <2>1. inbound \in Stream(Task)
    BY DEF TypeOK, SharedTypeOK
  <2>2. /\ inbound' \in Stream(Task)
        /\ inbound'.log = Append(inbound.log, t)
        /\ inbound'.pending = inbound.pending
    BY <1>5, <2>1, XADDStream DEF PublishTask
  <2>3. SharedTypeOK'
    BY <1>5, <2>2 DEF PublishTask, TypeOK, SharedTypeOK, historyVars
  <2>4. NoDuplicates(inbound.log)'
    BY <1>5, <2>1, <2>2, AppendNew DEF PublishTask, ConsumerInv, NoDuplicates
  <2>5. ASSUME NEW c \in Consumer PROVE ConsumerOK(c)'
    <3>1. ConsumerOK(c) /\ UNCHANGED << pc, entry, todo, iter, got, results, issued >>
      BY <1>5 DEF ConsumerInv, inferenceVars, PublishTask, historyVars
    <3>2. pc[c] # "idle" => CurrentTask(c)' = CurrentTask(c)
      <4> SUFFICES ASSUME pc[c] # "idle" PROVE CurrentTask(c)' = CurrentTask(c)
        OBVIOUS
      <4>1. entry[c] \in 1 .. Len(inbound.log)
        BY CurrentTaskType
      <4> QED BY <2>1, <2>2, <3>1, <4>1, StreamParts DEF CurrentTask
    <3>3. ToPush(c)' = ToPush(c)
      BY <3>1 DEF ToPush
    <3> QED BY <2>2, <3>1, <3>2, <3>3 DEF ConsumerOK, Waiting
  <2>6. ConsumerInv'
    BY <1>5, <2>4, <2>5 DEF ConsumerInv, PublishTask, inferenceVars
  <2> QED BY <1>2, <1>3, <2>3, <2>6 DEF TypeOK
<1> QED BY <1>1, <1>4, <1>5

-----------------------------------------------------------------------------
(* The resource runner.                                                    *)

LEMMA RunnerTypes ==
  ASSUME TypeOK, RunnerInv, RunnerNext
  PROVE  SharedTypeOK' /\ RunnerTypeOK'
<1>1. PICK w \in Worker : RunnerStep(w) \/ RunnerFault(w) \/ LeaseExpires(w) \/ CrashRunner(w)
  BY DEF RunnerNext
<1> USE DEF TypeOK, SharedTypeOK, RunnerTypeOK, RunnerPC, streamVars, historyVars, sharedVars
<1>2. CASE ReadToolCall(w)
  <2>1. trusted' \in Stream(Call) /\ NextId(trusted) \in Nat
    BY <1>2, XREADGROUPStream, StreamParts DEF ReadToolCall, NextId
  <2> QED BY <1>2, <2>1 DEF ReadToolCall, RunnerGoto
<1>3. CASE SetLease(w)
  BY <1>3 DEF SetLease, RunnerGoto
<1>4. ASSUME NEW ran \in BOOLEAN, BridgeExecute(w, ran) PROVE SharedTypeOK' /\ RunnerTypeOK'
  <2>1. RunnerTypeOK'
    BY <1>4 DEF BridgeExecute, RunnerGoto
  <2>2. executions' \in [Call -> [Host -> Nat]]
    <3>1. rentry[w] \in trusted.pending
      BY <1>4 DEF BridgeExecute, RunnerGoto, RunnerInv
    <3>2. RunnerCall(w) \in Call
      BY <3>1, PendingEntry DEF RunnerCall
    <3> QED BY <1>4, <3>2 DEF BridgeExecute, Host
  <2> QED BY <1>4, <2>1, <2>2 DEF BridgeExecute
<1>5. CASE WriteToolResult(w)
  <2>1. RunnerCall(w) \in Call
    <3>1. rentry[w] \in trusted.pending
      BY <1>5 DEF WriteToolResult, RunnerGoto, RunnerInv
    <3> QED BY <3>1, PendingEntry DEF RunnerCall
  <2>2. results' \in Stream(Call)
    BY <1>5, <2>1, XADDStream DEF WriteToolResult
  <2> QED BY <1>5, <2>2 DEF WriteToolResult, RunnerGoto
<1>6. CASE DeleteLease(w)
  BY <1>6 DEF DeleteLease, RunnerGoto
<1>7. CASE AckToolCall(w)
  <2>1. trusted' \in Stream(Call)
    BY <1>7, XACKStream DEF AckToolCall
  <2> QED BY <1>7, <2>1 DEF AckToolCall, RunnerForget
<1>8. CASE RunnerFault(w)
  BY <1>8, BoundAssumption DEF RunnerFault, CountFailure
<1>9. CASE LeaseExpires(w)
  BY <1>9 DEF LeaseExpires
<1>10. CASE CrashRunner(w)
  BY <1>10, BoundAssumption DEF CrashRunner, CountFailure, RunnerForget
<1> QED BY <1>1, <1>2, <1>3, <1>4, <1>5, <1>6, <1>7, <1>8, <1>9, <1>10 DEF RunnerStep

\* An execution counts for one call on one host.
LEMMA CountExecution ==
  ASSUME NEW before \in [Call -> [Host -> Nat]], NEW c \in Call, NEW h \in Host
  PROVE  \A d \in Call, i \in Host :
           [before EXCEPT ![c][h] = @ + 1][d][i]
             = IF d = c /\ i = h THEN before[d][i] + 1 ELSE before[d][i]
  OBVIOUS

\* The step that executes a trusted call: the one entry it is about was not executed
\* before, and is no longer early after.
LEMMA BridgeExecutePreserves ==
  ASSUME TypeOK, CallSideInv, NEW w \in Worker, NEW ran \in BOOLEAN, BridgeExecute(w, ran),
         UNCHANGED untrustedVars
  PROVE  CallSideInv'
<1> DEFINE call == RunnerCall(w)
<1>1. /\ rpc[w] = "execute"
      /\ rpc' = [rpc EXCEPT ![w] = "write"]
      /\ UNCHANGED << rentry, trusted, untrusted, issued, upc, uentry >>
  BY DEF BridgeExecute, RunnerGoto, streamVars, untrustedVars
<1>2. /\ rentry[w] \in trusted.pending
      /\ rentry[w] \in 1 .. Len(trusted.log)
      /\ rentry[w] <= trusted.cursor
      /\ rentry[w] # 0
      /\ call \in Call
      /\ call = trusted.log[rentry[w]]
  <2>1. rentry[w] \in trusted.pending /\ trusted \in Stream(Call)
    BY <1>1 DEF CallSideInv, RunnerInv, TypeOK, SharedTypeOK
  <2> QED BY <2>1, PendingEntry DEF RunnerCall
<1> HIDE DEF call
<1>3. \A d \in Call, i \in Host :
        executions'[d][i] = IF ran /\ d = call /\ i = "bridge" THEN executions[d][i] + 1
                                                             ELSE executions[d][i]
  <2>1. executions \in [Call -> [Host -> Nat]] /\ "bridge" \in Host
    BY DEF TypeOK, SharedTypeOK, Host
  <2>2. CASE ran
    <3>1. executions' = [executions EXCEPT ![call]["bridge"] = @ + 1]
      BY <2>2 DEF BridgeExecute, call
    <3> QED BY <1>2, <2>1, <2>2, <3>1, CountExecution
  <2>3. CASE ~ran
    BY <2>3 DEF BridgeExecute
  <2> QED BY <2>2, <2>3
<1>4. "bridge" \in Host /\ "container" \in Host /\ executions \in [Call -> [Host -> Nat]]
  BY DEF Host, TypeOK, SharedTypeOK
<1>5. RunnerInv' /\ UntrustedInv'
  BY <1>1 DEF CallSideInv, RunnerInv, UntrustedInv, TypeOK, RunnerTypeOK
<1>6. CallLogInv(trusted.log, TRUE)' /\ CallLogInv(untrusted.log, FALSE)'
  BY <1>1 DEF CallSideInv, CallLogInv, NoDuplicates, EffectivelyUntrusted
<1>7. rentry[w] \in BeforeBridge /\ executions[call]["bridge"] = 0
  BY <1>1, <1>2 DEF CallSideInv, ExecutionInv, BeforeBridge
<1>8. BeforeBridge' \subseteq BeforeBridge /\ rentry[w] \notin BeforeBridge'
  BY <1>1, <1>2 DEF CallSideInv, RunnerInv, BeforeBridge, TypeOK, RunnerTypeOK
<1>9. ExecutionInv(trusted, "bridge", BeforeBridge)'
  <2>1. ASSUME NEW d \in Call, executions'[d]["bridge"] > 0 PROVE Added(trusted', d)
    BY <1>1, <1>2, <1>3, <1>4, <2>1 DEF CallSideInv, ExecutionInv, Added
  <2>2. ASSUME NEW i \in 1 .. Len(trusted.log)
        PROVE  /\ executions'[trusted.log[i]]["bridge"] <= 1
               /\ i > trusted.cursor \/ i \in BeforeBridge'
                    => executions'[trusted.log[i]]["bridge"] = 0
    <3>1. trusted.log[i] \in Call /\ executions[trusted.log[i]]["bridge"] \in Nat
      <4>1. trusted.log[i] \in Call
        BY StreamParts, ElementOfSeq DEF TypeOK, SharedTypeOK
      <4> QED BY <1>4, <4>1
    <3>2. CASE i = rentry[w]
      <4>1. trusted.log[i] = call
        BY <1>2, <3>2
      <4>2. ~(i > trusted.cursor) /\ i \notin BeforeBridge'
        BY <1>2, <1>8, <3>2, StreamParts DEF TypeOK, SharedTypeOK
      <4>3. executions'[call]["bridge"] <= 1
        BY <1>2, <1>3, <1>4, <1>7
      <4> QED BY <4>1, <4>2, <4>3
    <3>3. CASE i # rentry[w]
      <4>1. trusted.log[i] # call
        BY <1>2, <3>3 DEF CallSideInv, CallLogInv, NoDuplicates
      <4>2. executions'[trusted.log[i]]["bridge"] = executions[trusted.log[i]]["bridge"]
        BY <1>3, <1>4, <3>1, <4>1
      <4> QED BY <1>8, <4>2 DEF CallSideInv, ExecutionInv
    <3> QED BY <3>2, <3>3
  <2> QED BY <1>1, <2>1, <2>2 DEF ExecutionInv
<1>10. ExecutionInv(untrusted, "container", BeforeContainer)'
  <2>1. \A d \in Call : executions'[d]["container"] = executions[d]["container"]
    BY <1>3, <1>4
  <2>2. \A i \in 1 .. Len(untrusted.log) : untrusted.log[i] \in Call
    BY StreamParts, ElementOfSeq DEF TypeOK, SharedTypeOK
  <2> QED BY <1>1, <2>1, <2>2 DEF CallSideInv, ExecutionInv, Added, BeforeContainer
<1> QED BY <1>5, <1>6, <1>9, <1>10 DEF CallSideInv

\* The other steps of a worker take entries out of the early ones, except the read,
\* which makes the entry after the cursor one.
LEMMA RunnerKeepsCallSide ==
  ASSUME TypeOK, CallSideInv, RunnerNext, UNCHANGED untrustedVars
  PROVE  CallSideInv'
<1>1. PICK w \in Worker : RunnerStep(w) \/ RunnerFault(w) \/ LeaseExpires(w) \/ CrashRunner(w)
  BY DEF RunnerNext
<1>2. ASSUME UNCHANGED << untrusted, issued, executions >>,
             trusted'.log = trusted.log,
             trusted'.cursor >= trusted.cursor,
             RunnerInv',
             \A i \in BeforeBridge' : i \in BeforeBridge \/ i > trusted.cursor
      PROVE  CallSideInv'
  <2>1. UntrustedInv' /\ BeforeContainer' = BeforeContainer
    BY <1>2 DEF CallSideInv, UntrustedInv, untrustedVars, BeforeContainer
  <2>2. CallLogInv(trusted.log, TRUE)' /\ CallLogInv(untrusted.log, FALSE)'
    BY <1>2 DEF CallSideInv, CallLogInv, NoDuplicates, EffectivelyUntrusted
  <2>3. ExecutionInv(untrusted, "container", BeforeContainer)'
    BY <1>2, <2>1 DEF CallSideInv, ExecutionInv, Added
  <2>4. ExecutionInv(trusted, "bridge", BeforeBridge)'
    <3>1. trusted.cursor \in Nat /\ trusted'.cursor \in Nat /\ Len(trusted.log) \in Nat
      BY StreamParts, RunnerTypes DEF TypeOK, SharedTypeOK, CallSideInv
    <3>2. \A i \in 1 .. Len(trusted.log) : i > trusted'.cursor => i > trusted.cursor
      BY <1>2, <3>1
    <3> QED BY <1>2, <3>2 DEF CallSideInv, ExecutionInv, Added
  <2> QED BY <1>2, <2>1, <2>2, <2>3, <2>4 DEF CallSideInv
<1>3. trusted \in Stream(Call) /\ trusted.cursor \in Nat
  BY StreamParts DEF TypeOK, SharedTypeOK
<1>4. CASE ReadToolCall(w)
  <2>1. /\ trusted'.log = trusted.log
        /\ trusted'.cursor = NextId(trusted)
        /\ trusted'.pending = trusted.pending \cup {NextId(trusted)}
        /\ NextId(trusted) \notin trusted.pending
        /\ NextId(trusted) # 0
    BY <1>3, <1>4, XREADGROUPStream DEF ReadToolCall
  <2>2. RunnerInv'
    BY <1>4, <2>1 DEF ReadToolCall, RunnerGoto, CallSideInv, RunnerInv, TypeOK, RunnerTypeOK
  <2>3. \A i \in BeforeBridge' : i \in BeforeBridge \/ i = NextId(trusted)
    BY <1>4 DEF ReadToolCall, RunnerGoto, BeforeBridge, TypeOK, RunnerTypeOK
  <2>4. trusted'.cursor >= trusted.cursor /\ NextId(trusted) > trusted.cursor
    BY <1>3, <2>1 DEF NextId
  <2>5. UNCHANGED << untrusted, issued, executions >>
    BY <1>4 DEF ReadToolCall, historyVars
  <2>6. \A i \in BeforeBridge' : i \in BeforeBridge \/ i > trusted.cursor
    BY <2>3, <2>4
  <2> QED BY <1>2, <2>1, <2>2, <2>4, <2>5, <2>6
<1>5. CASE AckToolCall(w)
  <2>1. /\ trusted'.log = trusted.log
        /\ trusted'.cursor = trusted.cursor
        /\ trusted'.pending = trusted.pending \ {rentry[w]}
    BY <1>3, <1>5, XACKStream DEF AckToolCall
  <2>2. RunnerInv'
    BY <1>5, <2>1 DEF AckToolCall, RunnerForget, CallSideInv, RunnerInv, TypeOK, RunnerTypeOK
  <2>3. \A i \in BeforeBridge' : i \in BeforeBridge
    BY <1>5 DEF AckToolCall, RunnerForget, BeforeBridge, TypeOK, RunnerTypeOK
  <2> QED BY <1>2, <1>3, <1>5, <2>1, <2>2, <2>3 DEF AckToolCall, historyVars
<1>6. CASE \/ SetLease(w) \/ WriteToolResult(w) \/ DeleteLease(w) \/ RunnerFault(w)
           \/ LeaseExpires(w) \/ CrashRunner(w)
  <2>1. UNCHANGED << trusted, untrusted, issued, executions >>
    BY <1>6 DEF SetLease, WriteToolResult, DeleteLease, RunnerFault, LeaseExpires, CrashRunner,
       sharedVars, streamVars, historyVars
  <2>2. RunnerInv'
    BY <1>6, <2>1 DEF SetLease, WriteToolResult, DeleteLease, RunnerFault, LeaseExpires,
       CrashRunner, RunnerGoto, RunnerForget, CallSideInv, RunnerInv, TypeOK, RunnerTypeOK
  <2>3. \A i \in BeforeBridge' : i \in BeforeBridge
    BY <1>6 DEF SetLease, WriteToolResult, DeleteLease, RunnerFault, LeaseExpires,
       CrashRunner, RunnerGoto, RunnerForget, BeforeBridge, TypeOK, RunnerTypeOK
  <2> QED BY <1>2, <1>3, <2>1, <2>2, <2>3
<1>7. ASSUME NEW ran \in BOOLEAN, BridgeExecute(w, ran) PROVE CallSideInv'
  BY <1>7, BridgeExecutePreserves
<1> QED BY <1>1, <1>4, <1>5, <1>6, <1>7 DEF RunnerStep

-----------------------------------------------------------------------------
(* The platform controller's runner.                                       *)

LEMMA UntrustedTypes ==
  ASSUME TypeOK, UntrustedInv, UntrustedNext
  PROVE  SharedTypeOK' /\ UntrustedTypeOK'
<1> USE DEF TypeOK, SharedTypeOK, UntrustedTypeOK, UntrustedPC, streamVars, historyVars,
            sharedVars
<1>1. CASE ReadUntrustedCall
  <2>1. untrusted' \in Stream(Call)
    BY <1>1, XREADGROUPStream DEF ReadUntrustedCall
  <2>2. NextId(untrusted) \in Nat
    BY StreamParts DEF NextId
  <2> QED BY <1>1, <2>1, <2>2 DEF ReadUntrustedCall, UntrustedGoto
<1>2. ASSUME NEW ran \in BOOLEAN, RunEphemeral(ran) PROVE SharedTypeOK' /\ UntrustedTypeOK'
  <2>1. UntrustedCall \in Call
    <3>1. uentry \in untrusted.pending
      BY <1>2 DEF RunEphemeral, UntrustedGoto, UntrustedInv
    <3> QED BY <3>1, PendingEntry DEF UntrustedCall
  <2>2. executions' \in [Call -> [Host -> Nat]]
    BY <1>2, <2>1 DEF RunEphemeral, Host
  <2> QED BY <1>2, <2>2 DEF RunEphemeral, UntrustedGoto
<1>3. CASE WriteUntrustedResult
  <2>1. UntrustedCall \in Call
    <3>1. uentry \in untrusted.pending
      BY <1>3 DEF WriteUntrustedResult, UntrustedGoto, UntrustedInv
    <3> QED BY <3>1, PendingEntry DEF UntrustedCall
  <2>2. results' \in Stream(Call)
    BY <1>3, <2>1, XADDStream DEF WriteUntrustedResult
  <2> QED BY <1>3, <2>2 DEF WriteUntrustedResult, UntrustedGoto
<1>4. CASE AckUntrusted
  <2>1. untrusted' \in Stream(Call)
    BY <1>4, XACKStream DEF AckUntrusted
  <2> QED BY <1>4, <2>1 DEF AckUntrusted, UntrustedForget
<1>5. CASE LeaveUnacked \/ CrashController
  BY <1>5, BoundAssumption DEF LeaveUnacked, CrashController, CountFailure, UntrustedForget
<1>6. CASE StartController
  BY <1>6 DEF StartController, UntrustedGoto
<1> QED BY <1>1, <1>2, <1>3, <1>4, <1>5, <1>6 DEF UntrustedNext, UntrustedStep

\* The step that executes an untrusted call: as BridgeExecutePreserves.
LEMMA RunEphemeralPreserves ==
  ASSUME TypeOK, CallSideInv, NEW ran \in BOOLEAN, RunEphemeral(ran), UNCHANGED runnerVars
  PROVE  CallSideInv'
<1> DEFINE call == UntrustedCall
<1>1. /\ upc = "run" /\ upc' = "write"
      /\ UNCHANGED << uentry, trusted, untrusted, issued, rpc, rentry >>
  BY DEF RunEphemeral, UntrustedGoto, streamVars, runnerVars
<1>2. /\ uentry \in untrusted.pending
      /\ uentry \in 1 .. Len(untrusted.log)
      /\ uentry <= untrusted.cursor
      /\ call \in Call
      /\ call = untrusted.log[uentry]
  <2>1. uentry \in untrusted.pending /\ untrusted \in Stream(Call)
    BY <1>1 DEF CallSideInv, UntrustedInv, TypeOK, SharedTypeOK
  <2> QED BY <2>1, PendingEntry DEF UntrustedCall
<1> HIDE DEF call
<1>3. \A d \in Call, i \in Host :
        executions'[d][i] = IF ran /\ d = call /\ i = "container" THEN executions[d][i] + 1
                                                                ELSE executions[d][i]
  <2>1. executions \in [Call -> [Host -> Nat]] /\ "container" \in Host
    BY DEF TypeOK, SharedTypeOK, Host
  <2>2. CASE ran
    <3>1. executions' = [executions EXCEPT ![call]["container"] = @ + 1]
      BY <2>2 DEF RunEphemeral, call
    <3> QED BY <1>2, <2>1, <2>2, <3>1, CountExecution
  <2>3. CASE ~ran
    BY <2>3 DEF RunEphemeral
  <2> QED BY <2>2, <2>3
<1>4. "bridge" \in Host /\ "container" \in Host /\ executions \in [Call -> [Host -> Nat]]
  BY DEF Host, TypeOK, SharedTypeOK
<1>5. RunnerInv' /\ UntrustedInv'
  BY <1>1, <1>2 DEF CallSideInv, RunnerInv, UntrustedInv
<1>6. CallLogInv(trusted.log, TRUE)' /\ CallLogInv(untrusted.log, FALSE)'
  BY <1>1 DEF CallSideInv, CallLogInv, NoDuplicates, EffectivelyUntrusted
<1>7. executions[call]["container"] = 0 /\ BeforeContainer' = {}
  BY <1>1, <1>2 DEF CallSideInv, ExecutionInv, BeforeContainer
<1>8. ExecutionInv(untrusted, "container", BeforeContainer)'
  <2>1. ASSUME NEW d \in Call, executions'[d]["container"] > 0 PROVE Added(untrusted', d)
    BY <1>1, <1>2, <1>3, <1>4, <2>1 DEF CallSideInv, ExecutionInv, Added
  <2>2. ASSUME NEW i \in 1 .. Len(untrusted.log)
        PROVE  /\ executions'[untrusted.log[i]]["container"] <= 1
               /\ i > untrusted.cursor => executions'[untrusted.log[i]]["container"] = 0
    <3>1. untrusted.log[i] \in Call /\ executions[untrusted.log[i]]["container"] \in Nat
      <4>1. untrusted.log[i] \in Call
        BY StreamParts, ElementOfSeq DEF TypeOK, SharedTypeOK
      <4> QED BY <1>4, <4>1
    <3>2. CASE i = uentry
      <4>1. untrusted.log[i] = call
        BY <1>2, <3>2
      <4>2. ~(i > untrusted.cursor)
        BY <1>2, <3>2, StreamParts DEF TypeOK, SharedTypeOK
      <4>3. executions'[call]["container"] <= 1
        BY <1>2, <1>3, <1>4, <1>7
      <4> QED BY <4>1, <4>2, <4>3
    <3>3. CASE i # uentry
      <4>1. untrusted.log[i] # call
        BY <1>2, <3>3 DEF CallSideInv, CallLogInv, NoDuplicates
      <4>2. executions'[untrusted.log[i]]["container"]
              = executions[untrusted.log[i]]["container"]
        BY <1>3, <1>4, <3>1, <4>1
      <4> QED BY <4>2 DEF CallSideInv, ExecutionInv
    <3> QED BY <3>2, <3>3
  <2> QED BY <1>1, <1>7, <2>1, <2>2 DEF ExecutionInv
<1>9. ExecutionInv(trusted, "bridge", BeforeBridge)'
  <2>1. \A d \in Call : executions'[d]["bridge"] = executions[d]["bridge"]
    BY <1>3, <1>4
  <2>2. \A i \in 1 .. Len(trusted.log) : trusted.log[i] \in Call
    BY StreamParts, ElementOfSeq DEF TypeOK, SharedTypeOK
  <2> QED BY <1>1, <2>1, <2>2 DEF CallSideInv, ExecutionInv, Added, BeforeBridge
<1> QED BY <1>5, <1>6, <1>8, <1>9 DEF CallSideInv

LEMMA UntrustedKeepsCallSide ==
  ASSUME TypeOK, CallSideInv, UntrustedNext, UNCHANGED runnerVars
  PROVE  CallSideInv'
<1>1. ASSUME UNCHANGED << trusted, issued, executions >>,
             untrusted'.log = untrusted.log,
             untrusted'.cursor \in Nat,
             untrusted'.cursor >= untrusted.cursor,
             UntrustedInv',
             \A i \in BeforeContainer' : i \in BeforeContainer \/ i > untrusted.cursor
      PROVE  CallSideInv'
  <2>1. RunnerInv' /\ BeforeBridge' = BeforeBridge
    BY <1>1 DEF CallSideInv, RunnerInv, runnerVars, BeforeBridge
  <2>2. CallLogInv(trusted.log, TRUE)' /\ CallLogInv(untrusted.log, FALSE)'
    BY <1>1 DEF CallSideInv, CallLogInv, NoDuplicates, EffectivelyUntrusted
  <2>3. ExecutionInv(trusted, "bridge", BeforeBridge)'
    BY <1>1, <2>1 DEF CallSideInv, ExecutionInv, Added
  <2>4. ExecutionInv(untrusted, "container", BeforeContainer)'
    <3>1. untrusted.cursor \in Nat /\ Len(untrusted.log) \in Nat
      BY StreamParts DEF TypeOK, SharedTypeOK
    <3>2. \A i \in 1 .. Len(untrusted.log) : i > untrusted'.cursor => i > untrusted.cursor
      BY <1>1, <3>1
    <3> QED BY <1>1, <3>2 DEF CallSideInv, ExecutionInv, Added
  <2> QED BY <1>1, <2>1, <2>2, <2>3, <2>4 DEF CallSideInv
<1>2. untrusted \in Stream(Call) /\ untrusted.cursor \in Nat
  BY StreamParts DEF TypeOK, SharedTypeOK
<1>3. CASE ReadUntrustedCall
  <2>1. /\ untrusted'.log = untrusted.log
        /\ untrusted'.cursor = NextId(untrusted)
        /\ untrusted'.pending = untrusted.pending \cup {NextId(untrusted)}
    BY <1>2, <1>3, XREADGROUPStream DEF ReadUntrustedCall
  <2>2. NextId(untrusted) \in Nat /\ NextId(untrusted) > untrusted.cursor
    BY <1>2 DEF NextId
  <2>3. UntrustedInv' /\ BeforeContainer' = {NextId(untrusted)}
    BY <1>3, <2>1 DEF ReadUntrustedCall, UntrustedGoto, UntrustedInv, BeforeContainer
  <2>4. UNCHANGED << trusted, issued, executions >>
    BY <1>3 DEF ReadUntrustedCall, historyVars
  <2>5. untrusted'.cursor >= untrusted.cursor /\ untrusted'.cursor \in Nat
    BY <1>2, <2>1, <2>2
  <2> QED BY <1>1, <2>1, <2>2, <2>3, <2>4, <2>5
<1>4. CASE AckUntrusted
  <2>1. untrusted'.log = untrusted.log /\ untrusted'.cursor = untrusted.cursor
    BY <1>2, <1>4, XACKStream DEF AckUntrusted
  <2>2. UntrustedInv' /\ BeforeContainer' = {}
    BY <1>4 DEF AckUntrusted, UntrustedForget, UntrustedInv, BeforeContainer
  <2> QED BY <1>1, <1>2, <1>4, <2>1, <2>2 DEF AckUntrusted, historyVars
<1>5. CASE WriteUntrustedResult \/ LeaveUnacked \/ CrashController \/ StartController
  <2>1. UNCHANGED << trusted, untrusted, issued, executions >>
    BY <1>5 DEF WriteUntrustedResult, LeaveUnacked, CrashController, StartController,
       sharedVars, streamVars, historyVars
  <2>2. UntrustedInv' /\ BeforeContainer' = {}
    BY <1>5, <2>1 DEF WriteUntrustedResult, LeaveUnacked, CrashController, StartController,
       UntrustedGoto, UntrustedForget, UntrustedInv, BeforeContainer, CallSideInv
  <2> QED BY <1>1, <1>2, <2>1, <2>2
<1>6. ASSUME NEW ran \in BOOLEAN, RunEphemeral(ran) PROVE CallSideInv'
  BY <1>6, RunEphemeralPreserves
<1> QED BY <1>3, <1>4, <1>5, <1>6 DEF UntrustedNext, UntrustedStep

-----------------------------------------------------------------------------
(* The inductive invariant.                                                *)

LEMMA InitIInv == Init => IInv
<1> SUFFICES ASSUME Init PROVE IInv
  OBVIOUS
<1> USE DEF Init, SharedInit, InferenceInit, RunnerInit, UntrustedInit, NewStream
<1>1. ASSUME NEW Message PROVE NewStream \in Stream(Message)
  BY DEF Stream
<1>2. SharedTypeOK
  BY <1>1, BoundAssumption DEF SharedTypeOK
<1>3. InferenceTypeOK /\ RunnerTypeOK /\ UntrustedTypeOK
  BY InferenceAssumption DEF InferenceTypeOK, InferencePC, RunnerTypeOK, RunnerPC,
     UntrustedTypeOK, UntrustedPC
<1>4. ConsumerInv
  BY DEF ConsumerInv, ConsumerOK, NoDuplicates, InToolUse, Waiting, Reading
<1>5. CallSideInv
  <2>1. RunnerInv /\ UntrustedInv
    BY DEF RunnerInv, UntrustedInv
  <2>2. CallLogInv(trusted.log, TRUE) /\ CallLogInv(untrusted.log, FALSE)
    BY DEF CallLogInv, NoDuplicates
  <2>3. ExecutionInv(trusted, "bridge", BeforeBridge)
    BY DEF ExecutionInv, Host
  <2>4. ExecutionInv(untrusted, "container", BeforeContainer)
    BY DEF ExecutionInv, Host
  <2> QED BY <2>1, <2>2, <2>3, <2>4 DEF CallSideInv
<1> QED BY <1>2, <1>3, <1>4, <1>5 DEF IInv, TypeOK

LEMMA NextIInv == IInv /\ [Next]_vars => IInv'
<1> SUFFICES ASSUME IInv, [Next]_vars PROVE IInv'
  OBVIOUS
<1>1. TypeOK /\ ConsumerInv /\ CallSideInv /\ RunnerInv /\ UntrustedInv
  BY DEF IInv, CallSideInv
<1>2. CASE ClientNext /\ UNCHANGED << inferenceVars, runnerVars, untrustedVars >>
  BY <1>2, ClientPreserves
<1>3. CASE InferenceNext /\ UNCHANGED << runnerVars, untrustedVars >>
  <2>1. SharedTypeOK' /\ InferenceTypeOK' /\ ConsumerInv'
    BY <1>1, <1>3, ConsumerPreserves
  <2>2. CallSideInv'
    BY <1>1, <1>3, ConsumerKeepsCallSide
  <2>3. RunnerTypeOK' /\ UntrustedTypeOK'
    BY <1>1, <1>3 DEF TypeOK, RunnerTypeOK, UntrustedTypeOK, runnerVars, untrustedVars
  <2> QED BY <2>1, <2>2, <2>3 DEF IInv, TypeOK
<1>4. CASE RunnerNext /\ UNCHANGED << inferenceVars, untrustedVars >>
  <2>1. SharedTypeOK' /\ RunnerTypeOK'
    BY <1>1, <1>4, RunnerTypes
  <2>2. CallSideInv'
    BY <1>1, <1>4, RunnerKeepsCallSide
  <2>3. ConsumerInv'
    <3>1. UNCHANGED << inbound, issued >>
      BY <1>4 DEF RunnerNext, RunnerStep, ReadToolCall, SetLease, BridgeExecute,
         WriteToolResult, DeleteLease, AckToolCall, RunnerFault, LeaseExpires, CrashRunner,
         sharedVars, streamVars, historyVars
    <3>2. results'.pending = results.pending
      BY <1>4 DEF RunnerNext, RunnerStep, ReadToolCall, SetLease, BridgeExecute,
         WriteToolResult, DeleteLease, AckToolCall, RunnerFault, LeaseExpires, CrashRunner,
         sharedVars, streamVars, historyVars, XADD
    <3> QED BY <1>1, <1>4, <3>1, <3>2, ConsumerInvUnchanged
  <2>4. InferenceTypeOK' /\ UntrustedTypeOK'
    BY <1>1, <1>4 DEF TypeOK, InferenceTypeOK, UntrustedTypeOK, inferenceVars, untrustedVars
  <2> QED BY <2>1, <2>2, <2>3, <2>4 DEF IInv, TypeOK
<1>5. CASE UntrustedNext /\ UNCHANGED << inferenceVars, runnerVars >>
  <2>1. SharedTypeOK' /\ UntrustedTypeOK'
    BY <1>1, <1>5, UntrustedTypes
  <2>2. CallSideInv'
    BY <1>1, <1>5, UntrustedKeepsCallSide
  <2>3. ConsumerInv'
    <3>1. UNCHANGED << inbound, issued >>
      BY <1>5 DEF UntrustedNext, UntrustedStep, ReadUntrustedCall, RunEphemeral,
         WriteUntrustedResult, AckUntrusted, LeaveUnacked, CrashController, StartController,
         sharedVars, streamVars, historyVars
    <3>2. results'.pending = results.pending
      BY <1>5 DEF UntrustedNext, UntrustedStep, ReadUntrustedCall, RunEphemeral,
         WriteUntrustedResult, AckUntrusted, LeaveUnacked, CrashController, StartController,
         sharedVars, streamVars, historyVars, XADD
    <3> QED BY <1>1, <1>5, <3>1, <3>2, ConsumerInvUnchanged
  <2>4. InferenceTypeOK' /\ RunnerTypeOK'
    BY <1>1, <1>5 DEF TypeOK, InferenceTypeOK, RunnerTypeOK, inferenceVars, runnerVars
  <2> QED BY <2>1, <2>2, <2>3, <2>4 DEF IInv, TypeOK
<1>6. CASE UNCHANGED vars
  <2>1. UNCHANGED << sharedVars, inferenceVars, runnerVars, untrustedVars >>
    BY <1>6 DEF vars
  <2>2. CallSideInv'
    BY <1>1, <2>1, CallSideUnchanged DEF callSideVars, sharedVars, streamVars, historyVars,
       runnerVars, untrustedVars
  <2>3. ConsumerInv'
    BY <1>1, <2>1, ConsumerInvUnchanged DEF sharedVars, streamVars, historyVars
  <2>4. TypeOK'
    BY <1>1, <2>1 DEF TypeOK, SharedTypeOK, InferenceTypeOK, RunnerTypeOK, UntrustedTypeOK,
       sharedVars, streamVars, historyVars, inferenceVars, runnerVars, untrustedVars
  <2> QED BY <2>2, <2>3, <2>4 DEF IInv
<1> QED BY <1>2, <1>3, <1>4, <1>5, <1>6 DEF Next

\* The invariant holds in every reachable state of the pipeline, with any number of
\* tasks, consumers, workers, calls, rounds and failures.
THEOREM InductiveInvariant == Spec => []IInv
BY InitIInv, NextIInv, PTL DEF Spec

-----------------------------------------------------------------------------
(* The theorems.                                                           *)

\* Every variable keeps its type: in particular no consumer pushes more calls than
\* the model was allowed (issued), and every message read is a message written.
THEOREM TypeCorrect == Spec => []TypeOK
<1>1. IInv => TypeOK
  BY DEF IInv
<1> QED BY <1>1, InductiveInvariant, PTL

\* Calls of app tasks and of UNTRUSTED tasks are only ever executed in a container,
\* the others only behind the bridge.
THEOREM TrustRespected == Spec => []HostsRespectTrust
<1>1. IInv => HostsRespectTrust
  <2> SUFFICES ASSUME IInv, NEW c \in Call
               PROVE  executions[c][IF c.task \in AppTask \cup DeclaredUntrusted
                                    THEN "bridge" ELSE "container"] = 0
    BY DEF HostsRespectTrust
  <2>1. executions[c]["bridge"] \in Nat /\ executions[c]["container"] \in Nat
    BY DEF IInv, TypeOK, SharedTypeOK, Host
  <2>2. executions[c]["bridge"] > 0 => ~EffectivelyUntrusted(c.task)
    BY DEF IInv, CallSideInv, ExecutionInv, Added, CallLogInv
  <2>3. executions[c]["container"] > 0 => EffectivelyUntrusted(c.task)
    BY DEF IInv, CallSideInv, ExecutionInv, Added, CallLogInv
  <2> QED BY <2>1, <2>2, <2>3 DEF EffectivelyUntrusted
<1> QED BY <1>1, InductiveInvariant, PTL

\* No tool call is executed twice, on one host or on both, whatever process dies at
\* whatever step and whichever Redis command raises.
THEOREM AtMostOnce == Spec => []ExecutedAtMostOnce
<1>1. IInv => ExecutedAtMostOnce
  <2> SUFFICES ASSUME IInv, NEW c \in Call
               PROVE  executions[c]["bridge"] + executions[c]["container"] <= 1
    BY DEF ExecutedAtMostOnce
  <2>1. executions[c]["bridge"] \in Nat /\ executions[c]["container"] \in Nat
    BY DEF IInv, TypeOK, SharedTypeOK, Host
  <2>2. executions[c]["bridge"] <= 1
    <3>1. CASE Added(trusted, c)
      BY <3>1 DEF IInv, CallSideInv, ExecutionInv, Added
    <3>2. CASE ~Added(trusted, c)
      BY <2>1, <3>2 DEF IInv, CallSideInv, ExecutionInv
    <3> QED BY <3>1, <3>2
  <2>3. executions[c]["container"] <= 1
    <3>1. CASE Added(untrusted, c)
      BY <3>1 DEF IInv, CallSideInv, ExecutionInv, Added
    <3>2. CASE ~Added(untrusted, c)
      BY <2>1, <3>2 DEF IInv, CallSideInv, ExecutionInv
    <3> QED BY <3>1, <3>2
  <2>4. executions[c]["bridge"] > 0 => ~EffectivelyUntrusted(c.task)
    BY DEF IInv, CallSideInv, ExecutionInv, Added, CallLogInv
  <2>5. executions[c]["container"] > 0 => EffectivelyUntrusted(c.task)
    BY DEF IInv, CallSideInv, ExecutionInv, Added, CallLogInv
  <2> QED BY <2>1, <2>2, <2>3, <2>4, <2>5
<1> QED BY <1>1, InductiveInvariant, PTL

-----------------------------------------------------------------------------
(* Results and answers.                                                    *)

\* Where a result is still to be written: not yet, whatever is beyond the cursor of
\* its call stream, and the entries in hand that have not got there.
BeforeWrite == { rentry[w] : w \in { v \in Worker : rpc[v] \in {"lease", "execute", "write"} } }
BeforeUntrustedWrite == IF upc \in {"run", "write"} THEN {uentry} ELSE {}

Unwritten(stream, early) ==
  \A i \in 1 .. Len(stream.log) :
    i > stream.cursor \/ i \in early => ~Added(results, stream.log[i])

\* Every result is the result of a call already issued, and is written once: no call
\* still ahead of its write has one.
ResultInv ==
  /\ NoDuplicates(results.log)
  /\ \A i \in 1 .. Len(results.log) : results.log[i].seq <= issued[results.log[i].task]
  /\ Unwritten(trusted, BeforeWrite)
  /\ Unwritten(untrusted, BeforeUntrustedWrite)

\* What was given to the model is acknowledged, and what is about to be is the result
\* of a call of the consumer's own task.
AnswerInv ==
  /\ AnswersBelongToTheTask
  /\ ResultUsedOnce
  /\ \A a \in answers : Acked(results, a.source)
  /\ \A c \in Consumer : pc[c] = "ackresult" => Matches(c, results.log[got[c]])

\* A worker, and the controller, has a delivered call in hand.
LEMMA CallInHand ==
  ASSUME TypeOK, CallSideInv
  PROVE  /\ \A w \in Worker : rpc[w] # "idle" =>
              /\ rentry[w] \in 1 .. Len(trusted.log)
              /\ rentry[w] <= trusted.cursor
              /\ RunnerCall(w) \in Call
         /\ upc \in {"run", "write", "ack"} =>
              /\ uentry \in 1 .. Len(untrusted.log)
              /\ uentry <= untrusted.cursor
              /\ UntrustedCall \in Call
<1> USE DEF TypeOK, SharedTypeOK
<1>1. ASSUME NEW w \in Worker, rpc[w] # "idle"
      PROVE  /\ rentry[w] \in 1 .. Len(trusted.log)
             /\ rentry[w] <= trusted.cursor
             /\ RunnerCall(w) \in Call
  <2>1. rentry[w] \in trusted.pending
    BY <1>1 DEF CallSideInv, RunnerInv
  <2> QED BY <2>1, PendingEntry DEF RunnerCall
<1>2. ASSUME upc \in {"run", "write", "ack"}
      PROVE  /\ uentry \in 1 .. Len(untrusted.log)
             /\ uentry <= untrusted.cursor
             /\ UntrustedCall \in Call
  <2>1. uentry \in untrusted.pending
    BY <1>2 DEF CallSideInv, UntrustedInv
  <2> QED BY <2>1, PendingEntry DEF UntrustedCall
<1> QED BY <1>1, <1>2

\* Steps that write no result and push no call: reading a call puts it in hand,
\* the others only let go of calls.
LEMMA ResultInvKept ==
  ASSUME TypeOK, ResultInv,
         UNCHANGED issued,
         results'.log = results.log,
         trusted'.log = trusted.log, untrusted'.log = untrusted.log,
         trusted'.cursor \in Nat, trusted'.cursor >= trusted.cursor,
         untrusted'.cursor \in Nat, untrusted'.cursor >= untrusted.cursor,
         \A i \in BeforeWrite' : i \in BeforeWrite \/ i > trusted.cursor,
         \A i \in BeforeUntrustedWrite' : i \in BeforeUntrustedWrite \/ i > untrusted.cursor
  PROVE  ResultInv'
<1>1. /\ trusted.cursor \in Nat /\ untrusted.cursor \in Nat
      /\ Len(trusted.log) \in Nat /\ Len(untrusted.log) \in Nat
  BY StreamParts DEF TypeOK, SharedTypeOK
<1>2. Unwritten(trusted, BeforeWrite)'
  BY <1>1, SMTT(30) DEF ResultInv, Unwritten, Added
<1>3. Unwritten(untrusted, BeforeUntrustedWrite)'
  BY <1>1 DEF ResultInv, Unwritten, Added
<1> QED BY <1>2, <1>3 DEF ResultInv, NoDuplicates

\* The result of a call that has none yet, and that is in no call stream as a call
\* still to be answered but the one it is taken from.
LEMMA WriteKeepsResultInv ==
  ASSUME TypeOK, CallSideInv, ResultInv, NEW call \in Call,
         UNCHANGED << issued, trusted, untrusted >>,
         results' = XADD(results, call),
         call.seq <= issued[call.task],
         ~Added(results, call),
         \A i \in BeforeWrite' : i \in BeforeWrite,
         \A i \in BeforeUntrustedWrite' : i \in BeforeUntrustedWrite,
         \A i \in 1 .. Len(trusted.log) :
           i > trusted.cursor \/ i \in BeforeWrite' => trusted.log[i] # call,
         \A i \in 1 .. Len(untrusted.log) :
           i > untrusted.cursor \/ i \in BeforeUntrustedWrite' => untrusted.log[i] # call
  PROVE  ResultInv'
<1>1. results \in Stream(Call) /\ results.log \in Seq(Call) /\ Len(results.log) \in Nat
  BY StreamParts DEF TypeOK, SharedTypeOK
<1>2. results'.log = Append(results.log, call)
  BY <1>1, XADDStream
<1>3. /\ Len(results'.log) = Len(results.log) + 1
      /\ \A i \in 1 .. Len(results.log) : results'.log[i] = results.log[i]
      /\ results'.log[Len(results.log) + 1] = call
  BY <1>1, <1>2, AppendProperties
<1>4. \A c : Added(results', c) => Added(results, c) \/ c = call
  BY <1>1, <1>3, SMTT(30) DEF Added
<1>5. NoDuplicates(results'.log)
  BY <1>1, <1>2, AppendNew DEF ResultInv
<1>6. ASSUME NEW i \in 1 .. Len(results'.log)
      PROVE  results'.log[i].seq <= issued'[results'.log[i].task]
  <2>1. CASE i = Len(results.log) + 1
    BY <1>3, <2>1
  <2>2. CASE i \in 1 .. Len(results.log)
    BY <1>3, <2>2 DEF ResultInv
  <2> QED BY <1>1, <1>3, <2>1, <2>2
<1>7. Unwritten(trusted, BeforeWrite)'
  BY <1>4 DEF ResultInv, Unwritten
<1>8. Unwritten(untrusted, BeforeUntrustedWrite)'
  BY <1>4 DEF ResultInv, Unwritten
<1> QED BY <1>5, <1>6, <1>7, <1>8 DEF ResultInv

\* A call just pushed has a number no result has.
LEMMA PushKeepsResultInv ==
  ASSUME TypeOK, ConsumerInv, CallSideInv, ResultInv, NEW c \in Consumer, PushToolCall(c),
         UNCHANGED << runnerVars, untrustedVars >>
  PROVE  ResultInv'
<1> DEFINE t == CurrentTask(c)
           call == [task |-> t, seq |-> issued[t] + 1]
<1>1. /\ t \in Task
      /\ issued[t] \in Nat
      /\ call \in Call
      /\ issued' = [issued EXCEPT ![t] = @ + 1]
      /\ results' = results
      /\ issued \in [Task -> Nat]
  <2>1. pc[c] = "push" /\ pc[c] # "idle" /\ issued' = [issued EXCEPT ![t] = @ + 1]
        /\ results' = results
    BY DEF PushToolCall, Goto
  <2>2. t \in Task /\ issued[t] \in 0 .. MaxCalls /\ issued[t] + todo[c] <= MaxCalls
        /\ todo[c] >= 1 /\ todo[c] \in Nat
    BY <2>1, CurrentTaskType, InferenceAssumption
       DEF TypeOK, SharedTypeOK, InferenceTypeOK, ConsumerInv, ConsumerOK, ToPush, InToolUse
  <2> QED BY <2>1, <2>2, BoundAssumption DEF Call, TypeOK, SharedTypeOK
<1>2. \/ untrusted' = XADD(untrusted, call) /\ UNCHANGED trusted
      \/ trusted' = XADD(trusted, call) /\ UNCHANGED untrusted
  BY DEF PushToolCall
<1>3. call.task = t /\ call.seq = issued[t] + 1
  OBVIOUS
<1> HIDE DEF t, call
<1>4. \A i \in 1 .. Len(results.log) :
        /\ results.log[i] \in Call
        /\ results.log[i].task \in Task /\ results.log[i].seq \in Nat
        /\ results.log[i].seq <= issued[results.log[i].task]
  <2>1. \A i \in 1 .. Len(results.log) : results.log[i] \in Call
    BY MessageType DEF TypeOK, SharedTypeOK
  <2> QED BY <2>1 DEF Call, ResultInv
<1>5. ~Added(results, call)
  BY <1>1, <1>3, <1>4 DEF Added
<1>6. \A i \in 1 .. Len(results.log) : results.log[i].seq <= issued'[results.log[i].task]
  BY <1>1, <1>4
<1>7. BeforeWrite' = BeforeWrite /\ BeforeUntrustedWrite' = BeforeUntrustedWrite
  BY DEF BeforeWrite, BeforeUntrustedWrite, runnerVars, untrustedVars
<1>8. \A i \in BeforeWrite : i <= trusted.cursor
  <2>1. \A w \in Worker : rpc[w] # "idle" => rentry[w] <= trusted.cursor
    BY CallInHand
  <2> QED BY <2>1 DEF BeforeWrite
<1>9. \A i \in BeforeUntrustedWrite : i <= untrusted.cursor
  BY CallInHand DEF BeforeUntrustedWrite
<1>10. ASSUME NEW s \in Stream(Call), NEW early, Unwritten(s, early)
       PROVE  Unwritten(XADD(s, call), early)
  <2>1. XADD(s, call).log = Append(s.log, call) /\ XADD(s, call).cursor = s.cursor
    BY <1>1, XADDStream
  <2>2. /\ Len(XADD(s, call).log) = Len(s.log) + 1
        /\ \A i \in 1 .. Len(s.log) : XADD(s, call).log[i] = s.log[i]
        /\ XADD(s, call).log[Len(s.log) + 1] = call
        /\ Len(s.log) \in Nat
    <3>1. s.log \in Seq(Call) /\ Len(s.log) \in Nat
      BY StreamParts
    <3> QED BY <1>1, <2>1, <3>1, AppendProperties
  <2> QED BY <1>5, <1>10, <2>1, <2>2 DEF Unwritten
<1>11. Unwritten(trusted', BeforeWrite) /\ Unwritten(untrusted', BeforeUntrustedWrite)
  BY <1>2, <1>10 DEF ResultInv, TypeOK, SharedTypeOK
<1>12. Unwritten(trusted, BeforeWrite)' /\ Unwritten(untrusted, BeforeUntrustedWrite)'
  BY <1>1, <1>7, <1>11 DEF Unwritten, Added
<1> QED BY <1>1, <1>6, <1>12 DEF ResultInv, NoDuplicates

LEMMA ConsumerKeepsResultInv ==
  ASSUME TypeOK, ConsumerInv, CallSideInv, ResultInv, InferenceNext,
         UNCHANGED << runnerVars, untrustedVars >>
  PROVE  ResultInv'
<1> USE DEF TypeOK, SharedTypeOK
<1>1. PICK c \in Consumer : ProviderStep(c) \/ InferenceStep(c) \/ InferenceFailure(c)
  BY DEF InferenceNext
<1>2. CASE PushToolCall(c)
  BY <1>2, PushKeepsResultInv
<1>3. CASE ~PushToolCall(c)
  <2>1. UNCHANGED << trusted, untrusted, issued >> /\ results'.log = results.log
    BY <1>1, <1>3 DEF ProviderStep, InferenceStep, InferenceFailure, ReceiveChunk, EndTurn,
       ProviderFails, RequestTools, ReadTask, CheckCancel, DeleteCancelKey, PublishCancelled,
       ReadToolResult, ReadTimeout, DiscardResult, AckToolResult, PublishDone, PublishError,
       AckTask, PublishCancelledReplyLost, FaultInTry, FaultInPublish, CrashConsumer,
       sharedVars, streamVars, historyVars, XREADGROUP, XACK
  <2>2. BeforeWrite' = BeforeWrite /\ BeforeUntrustedWrite' = BeforeUntrustedWrite
    BY DEF BeforeWrite, BeforeUntrustedWrite, runnerVars, untrustedVars
  <2>3. trusted.cursor \in Nat /\ untrusted.cursor \in Nat
    BY StreamParts
  <2> QED BY <2>1, <2>2, <2>3, ResultInvKept
<1> QED BY <1>2, <1>3

\* The trust of their tasks tells the calls of the two streams apart.
LEMMA StreamsAreDisjoint ==
  ASSUME CallSideInv, NEW i \in 1 .. Len(trusted.log), NEW j \in 1 .. Len(untrusted.log)
  PROVE  trusted.log[i] # untrusted.log[j]
BY DEF CallSideInv, CallLogInv

LEMMA RunnerKeepsResultInv ==
  ASSUME TypeOK, CallSideInv, ResultInv, RunnerNext, UNCHANGED untrustedVars
  PROVE  ResultInv'
<1> USE DEF TypeOK, SharedTypeOK
<1>1. PICK w \in Worker : RunnerStep(w) \/ RunnerFault(w) \/ LeaseExpires(w) \/ CrashRunner(w)
  BY DEF RunnerNext
<1>2. trusted \in Stream(Call) /\ trusted.cursor \in Nat /\ untrusted.cursor \in Nat
  BY StreamParts
<1>3. BeforeUntrustedWrite' = BeforeUntrustedWrite
  BY DEF BeforeUntrustedWrite, untrustedVars
<1>4. rpc \in [Worker -> RunnerPC] /\ rentry \in [Worker -> Nat]
  BY DEF RunnerTypeOK
<1>5. CASE ReadToolCall(w)
  <2>1. /\ trusted'.log = trusted.log
        /\ trusted'.cursor = NextId(trusted)
        /\ NextId(trusted) \in Nat /\ NextId(trusted) > trusted.cursor
    <3>1. HasUnread(trusted) /\ trusted' = XREADGROUP(trusted)
      BY <1>5 DEF ReadToolCall
    <3>2. NextId(trusted) \in Nat /\ NextId(trusted) > trusted.cursor
      BY <1>2 DEF NextId
    <3> QED BY <1>2, <3>1, <3>2, XREADGROUPStream
  <2>2. UNCHANGED << untrusted, results, issued >>
        /\ rentry' = [rentry EXCEPT ![w] = NextId(trusted)] /\ rpc' = [rpc EXCEPT ![w] = "lease"]
    BY <1>5 DEF ReadToolCall, RunnerGoto, historyVars
  <2>3. \A i \in BeforeWrite' : i \in BeforeWrite \/ i > trusted.cursor
    BY <1>4, <2>1, <2>2 DEF BeforeWrite
  <2>4. trusted'.cursor >= trusted.cursor
    BY <1>2, <2>1
  <2> QED BY <1>2, <1>3, <2>1, <2>2, <2>3, <2>4, ResultInvKept
<1>6. CASE WriteToolResult(w)
  <2> DEFINE call == RunnerCall(w)
  <2>1. /\ rpc[w] = "write" /\ rpc' = [rpc EXCEPT ![w] = "release"]
        /\ results' = XADD(results, call)
        /\ UNCHANGED << rentry, trusted, untrusted, issued >>
    BY <1>6 DEF WriteToolResult, RunnerGoto, historyVars
  <2>2. /\ rentry[w] \in 1 .. Len(trusted.log)
        /\ rentry[w] <= trusted.cursor /\ rentry[w] # 0
        /\ call \in Call /\ call = trusted.log[rentry[w]]
    BY <2>1, CallInHand DEF RunnerCall
  <2> HIDE DEF call
  <2>3. rentry[w] \in BeforeWrite
    BY <2>1 DEF BeforeWrite
  <2>4. ~Added(results, call)
    BY <2>2, <2>3 DEF ResultInv, Unwritten
  <2>5. call.seq <= issued[call.task]
    BY <2>2 DEF CallSideInv, CallLogInv
  <2>6. \A i \in BeforeWrite' : i \in BeforeWrite /\ i # rentry[w]
    <3>1. \A v \in Worker : v # w => rentry[v] # rentry[w]
      BY <2>2 DEF CallSideInv, RunnerInv
    <3> QED BY <1>4, <2>1, <3>1 DEF BeforeWrite
  <2>7. ASSUME NEW i \in 1 .. Len(trusted.log), i > trusted.cursor \/ i \in BeforeWrite'
        PROVE  trusted.log[i] # call
    <3>1. i # rentry[w]
      BY <1>2, <2>2, <2>6, <2>7
    <3> QED BY <2>2, <3>1 DEF CallSideInv, CallLogInv, NoDuplicates
  <2>8. \A i \in 1 .. Len(untrusted.log) : untrusted.log[i] # call
    BY <2>2, StreamsAreDisjoint
  <2> QED BY <1>3, <2>1, <2>2, <2>4, <2>5, <2>6, <2>7, <2>8, WriteKeepsResultInv
<1>7. CASE \/ SetLease(w) \/ DeleteLease(w) \/ AckToolCall(w) \/ RunnerFault(w) \/ LeaseExpires(w)
           \/ CrashRunner(w) \/ \E ran \in BOOLEAN : BridgeExecute(w, ran)
  <2>1. UNCHANGED << untrusted, results, issued >>
    BY <1>7 DEF SetLease, DeleteLease, AckToolCall, RunnerFault, LeaseExpires, CrashRunner,
       BridgeExecute, sharedVars, streamVars, historyVars
  <2>2. trusted'.log = trusted.log /\ trusted'.cursor = trusted.cursor
    BY <1>7 DEF SetLease, DeleteLease, AckToolCall, RunnerFault, LeaseExpires, CrashRunner,
       BridgeExecute, sharedVars, streamVars, XACK
  <2>3. \A i \in BeforeWrite' : i \in BeforeWrite
    BY <1>4, <1>7 DEF SetLease, DeleteLease, AckToolCall, RunnerFault, LeaseExpires,
       CrashRunner, BridgeExecute, RunnerGoto, RunnerForget, BeforeWrite
  <2> QED BY <1>2, <1>3, <2>1, <2>2, <2>3, ResultInvKept
<1> QED BY <1>1, <1>5, <1>6, <1>7 DEF RunnerStep

LEMMA UntrustedKeepsResultInv ==
  ASSUME TypeOK, CallSideInv, ResultInv, UntrustedNext, UNCHANGED runnerVars
  PROVE  ResultInv'
<1> USE DEF TypeOK, SharedTypeOK
<1>1. untrusted \in Stream(Call) /\ trusted.cursor \in Nat /\ untrusted.cursor \in Nat
  BY StreamParts
<1>2. BeforeWrite' = BeforeWrite
  BY DEF BeforeWrite, runnerVars
<1>3. CASE ReadUntrustedCall
  <2>1. /\ untrusted'.log = untrusted.log
        /\ untrusted'.cursor = NextId(untrusted)
        /\ NextId(untrusted) \in Nat /\ NextId(untrusted) > untrusted.cursor
    <3>1. HasUnread(untrusted) /\ untrusted' = XREADGROUP(untrusted)
      BY <1>3 DEF ReadUntrustedCall
    <3>2. NextId(untrusted) \in Nat /\ NextId(untrusted) > untrusted.cursor
      BY <1>1 DEF NextId
    <3> QED BY <1>1, <3>1, <3>2, XREADGROUPStream
  <2>2. UNCHANGED << trusted, results, issued >>
    BY <1>3 DEF ReadUntrustedCall, historyVars
  <2>3. \A i \in BeforeUntrustedWrite' : i \in BeforeUntrustedWrite \/ i > untrusted.cursor
    BY <1>3, <2>1 DEF ReadUntrustedCall, BeforeUntrustedWrite
  <2>4. untrusted'.cursor >= untrusted.cursor
    BY <1>1, <2>1
  <2> QED BY <1>1, <1>2, <2>1, <2>2, <2>3, <2>4, ResultInvKept
<1>4. CASE WriteUntrustedResult
  <2> DEFINE call == UntrustedCall
  <2>1. /\ upc = "write" /\ upc' = "ack"
        /\ results' = XADD(results, call)
        /\ UNCHANGED << uentry, trusted, untrusted, issued >>
    BY <1>4 DEF WriteUntrustedResult, UntrustedGoto, historyVars
  <2>2. /\ uentry \in 1 .. Len(untrusted.log) /\ uentry <= untrusted.cursor
        /\ call \in Call /\ call = untrusted.log[uentry]
    BY <2>1, CallInHand DEF UntrustedCall
  <2> HIDE DEF call
  <2>3. uentry \in BeforeUntrustedWrite /\ BeforeUntrustedWrite' = {}
    BY <2>1 DEF BeforeUntrustedWrite
  <2>4. ~Added(results, call)
    BY <2>2, <2>3 DEF ResultInv, Unwritten
  <2>5. call.seq <= issued[call.task]
    BY <2>2 DEF CallSideInv, CallLogInv
  <2>6. ASSUME NEW i \in 1 .. Len(untrusted.log), i > untrusted.cursor
        PROVE  untrusted.log[i] # call
    <3>1. i # uentry
      BY <1>1, <2>2, <2>6
    <3> QED BY <2>2, <3>1 DEF CallSideInv, CallLogInv, NoDuplicates
  <2>7. \A i \in 1 .. Len(trusted.log) : trusted.log[i] # call
    BY <2>2, StreamsAreDisjoint
  <2> QED BY <1>2, <2>1, <2>2, <2>3, <2>4, <2>5, <2>6, <2>7, WriteKeepsResultInv
<1>5. CASE \/ AckUntrusted \/ LeaveUnacked \/ CrashController \/ StartController
           \/ \E ran \in BOOLEAN : RunEphemeral(ran)
  <2>1. UNCHANGED << trusted, results, issued >>
    BY <1>5 DEF AckUntrusted, LeaveUnacked, CrashController, StartController, RunEphemeral,
       sharedVars, streamVars, historyVars
  <2>2. untrusted'.log = untrusted.log /\ untrusted'.cursor = untrusted.cursor
    BY <1>5 DEF AckUntrusted, LeaveUnacked, CrashController, StartController, RunEphemeral,
       sharedVars, streamVars, XACK
  <2>3. \A i \in BeforeUntrustedWrite' : i \in BeforeUntrustedWrite
    BY <1>5 DEF AckUntrusted, LeaveUnacked, CrashController, StartController, RunEphemeral,
       UntrustedGoto, UntrustedForget, BeforeUntrustedWrite
  <2> QED BY <1>1, <1>2, <2>1, <2>2, <2>3, ResultInvKept
<1> QED BY <1>3, <1>4, <1>5 DEF UntrustedNext, UntrustedStep

-----------------------------------------------------------------------------
(* What is given back to the model.                                        *)

\* Steps that answer nothing: what was answered stays acknowledged, and a consumer
\* that holds a result has read one of its task.
LEMMA AnswerInvKept ==
  ASSUME TypeOK, SharedTypeOK', AnswerInv,
         answers' = answers,
         \A m : Acked(results, m) => Acked(results', m),
         \A c \in Consumer : (pc[c] = "ackresult" => Matches(c, results.log[got[c]]))'
  PROVE  AnswerInv'
<1>1. \A a \in answers : Acked(results', a.source) /\ Added(results', a.source)
  BY AckedWasAdded DEF AnswerInv, SharedTypeOK
<1>2. AnswersBelongToTheTask' /\ \A a \in answers' : Acked(results', a.source)
  BY <1>1 DEF AnswerInv, AnswersBelongToTheTask
<1>3. ResultUsedOnce'
  BY DEF AnswerInv, ResultUsedOnce
<1> QED BY <1>2, <1>3 DEF AnswerInv

LEMMA ConsumerKeepsAnswerInv ==
  ASSUME TypeOK, SharedTypeOK', ConsumerInv, ResultInv, AnswerInv, InferenceNext
  PROVE  AnswerInv'
<1> USE DEF TypeOK, SharedTypeOK, InferenceTypeOK
<1>1. PICK c \in Consumer : ProviderStep(c) \/ InferenceStep(c) \/ InferenceFailure(c)
  BY DEF InferenceNext
<1>2. results \in Stream(Call) /\ results.cursor \in Nat /\ Len(results.log) \in Nat
      /\ results.pending \subseteq 1 .. results.cursor /\ results.cursor <= Len(results.log)
  BY StreamParts
<1>3. CASE ReadToolResult(c)
  <2>1. /\ results'.log = results.log
        /\ results'.cursor = NextId(results)
        /\ results'.pending = results.pending \cup {NextId(results)}
        /\ NextId(results) = results.cursor + 1
    <3>1. HasUnread(results) /\ results' = XREADGROUP(results)
      BY <1>3 DEF ReadToolResult
    <3> QED BY <1>2, <3>1, XREADGROUPStream DEF NextId
  <2>2. UNCHANGED << entry, inbound, answers >>
        /\ got' = [got EXCEPT ![c] = NextId(results)]
        /\ pc' = [pc EXCEPT ![c] = IF Matches(c, results.log[NextId(results)])
                                   THEN "ackresult" ELSE "discard"]
    BY <1>3 DEF ReadToolResult, Goto, historyVars
  <2>3. ASSUME NEW m, Acked(results, m) PROVE Acked(results', m)
    <3>1. PICK i \in (1 .. results.cursor) \ results.pending : results.log[i] = m
      BY <2>3 DEF Acked
    <3>2. i \in (1 .. results'.cursor) \ results'.pending
      BY <1>2, <2>1, <3>1
    <3> QED BY <2>1, <3>1, <3>2 DEF Acked
  <2>4. \A d \in Consumer : (pc[d] = "ackresult" => Matches(d, results.log[got[d]]))'
    BY <2>1, <2>2 DEF AnswerInv, Matches, CurrentTask
  <2> QED BY <2>2, <2>3, <2>4, AnswerInvKept
<1>4. CASE AckToolResult(c)
  <2> DEFINE source == results.log[got[c]]
             new == [call |-> CurrentCall(c), source |-> source]
  <2>1. /\ results'.log = results.log
        /\ results'.cursor = results.cursor
        /\ results'.pending = results.pending \ {got[c]}
    BY <1>2, <1>4, XACKStream DEF AckToolResult
  <2>2. /\ pc[c] = "ackresult"
        /\ got[c] \in results.pending
        /\ got[c] \in 1 .. Len(results.log)
        /\ source \in Call
        /\ source.task = CurrentTask(c)
    <3>1. pc[c] = "ackresult" /\ got[c] \in results.pending
      BY <1>4 DEF AckToolResult, ConsumerInv, ConsumerOK, Reading
    <3> QED BY <1>2, <3>1, PendingEntry DEF AnswerInv, Matches
  <2>3. /\ answers' = answers \cup {new}
        /\ UNCHANGED << entry, inbound, issued >>
        /\ pc' = [pc EXCEPT ![c] = IF todo[c] > 1 THEN "push" ELSE "check"]
        /\ got' = [got EXCEPT ![c] = 0]
    BY <1>4 DEF AckToolResult, NextToolUse
  <2>4. /\ new.source = source /\ new.call.task = source.task /\ source.seq <= new.call.seq
    BY <2>2 DEF CurrentCall, ResultInv
  <2> HIDE DEF source, new
  <2>5. \A m : Acked(results, m) => Acked(results', m)
    BY <2>1 DEF Acked
  <2>6. Acked(results', source)
    BY <1>2, <2>1, <2>2 DEF Acked, source
  <2>7. ~Acked(results, source)
    <3>1. ASSUME NEW i \in (1 .. results.cursor) \ results.pending PROVE results.log[i] # source
      <4>1. i \in 1 .. Len(results.log) /\ i # got[c]
        BY <1>2, <2>2, <3>1
      <4> QED BY <2>2, <4>1 DEF source, ResultInv, NoDuplicates
    <3> QED BY <3>1 DEF Acked
  <2>8. \A a \in answers' : Acked(results', a.source)
    BY <2>3, <2>4, <2>5, <2>6 DEF AnswerInv
  <2>9. AnswersBelongToTheTask'
    <3>1. \A m : Acked(results', m) => Added(results', m)
      BY AckedWasAdded
    <3> QED BY <2>3, <2>4, <2>8, <3>1 DEF AnswerInv, AnswersBelongToTheTask
  <2>10. ResultUsedOnce'
    BY <2>3, <2>4, <2>7 DEF AnswerInv, ResultUsedOnce
  <2>11. \A d \in Consumer : (pc[d] = "ackresult" => Matches(d, results.log[got[d]]))'
    BY <2>1, <2>3 DEF AnswerInv, Matches, CurrentTask
  <2> QED BY <2>8, <2>9, <2>10, <2>11 DEF AnswerInv
<1>5. CASE ~ReadToolResult(c) /\ ~AckToolResult(c)
  <2>1. answers' = answers
    BY <1>1, <1>5 DEF ProviderStep, InferenceStep, InferenceFailure, ReceiveChunk, EndTurn,
       ProviderFails, RequestTools, ReadTask, CheckCancel, DeleteCancelKey, PublishCancelled,
       PushToolCall, ReadTimeout, DiscardResult, PublishDone, PublishError,
       AckTask, PublishCancelledReplyLost, FaultInTry, FaultInPublish, CrashConsumer,
       sharedVars, historyVars
  <2>2. \/ results' = results
        \/ results' = XACK(results, got[c])
    BY <1>1, <1>5 DEF ProviderStep, InferenceStep, InferenceFailure, ReceiveChunk, EndTurn,
       ProviderFails, RequestTools, ReadTask, CheckCancel, DeleteCancelKey, PublishCancelled,
       PushToolCall, ReadTimeout, DiscardResult, PublishDone, PublishError,
       AckTask, PublishCancelledReplyLost, FaultInTry, FaultInPublish, CrashConsumer,
       sharedVars, streamVars
  <2>3. results'.log = results.log /\ results'.cursor = results.cursor
        /\ results'.pending \subseteq results.pending
    BY <2>2 DEF XACK
  <2>4. \A m : Acked(results, m) => Acked(results', m)
    BY <2>3 DEF Acked
  <2>5. ASSUME NEW d \in Consumer, pc'[d] = "ackresult"
        PROVE  Matches(d, results.log[got[d]])'
    <3>1. pc[d] = "ackresult" /\ got'[d] = got[d] /\ entry'[d] = entry[d]
          /\ inbound'.log = inbound.log
      BY <1>1, <1>5, <2>5 DEF ProviderStep, InferenceStep, InferenceFailure, ReceiveChunk,
         EndTurn, ProviderFails, RequestTools, ReadTask, CheckCancel, DeleteCancelKey,
         PublishCancelled, PushToolCall, ReadTimeout, DiscardResult, PublishDone, PublishError,
         AckTask, PublishCancelledReplyLost, FaultInTry, FaultInPublish, CrashConsumer,
         Goto, NextToolUse, Forget, inferenceVars, sharedVars, streamVars, XREADGROUP, XACK
    <3> QED BY <2>3, <3>1 DEF AnswerInv, Matches, CurrentTask
  <2> QED BY <2>1, <2>4, <2>5, AnswerInvKept
<1> QED BY <1>3, <1>4, <1>5

\* The other processes add results and tasks, and move nothing that was read.
LEMMA OthersKeepAnswerInv ==
  ASSUME TypeOK, SharedTypeOK', ConsumerInv, AnswerInv,
         UNCHANGED << pc, entry, got, answers >>,
         inbound' = inbound \/ \E t \in Task : inbound' = XADD(inbound, t),
         results' = results \/ \E call \in Call : results' = XADD(results, call)
  PROVE  AnswerInv'
<1> USE DEF TypeOK, SharedTypeOK, InferenceTypeOK
<1>1. /\ inbound \in Stream(Task) /\ results \in Stream(Call)
      /\ results.log \in Seq(Call) /\ Len(results.log) \in Nat /\ results.cursor \in Nat
      /\ inbound.log \in Seq(Task) /\ Len(inbound.log) \in Nat
      /\ results.pending \subseteq 1 .. results.cursor /\ results.cursor <= Len(results.log)
  BY StreamParts
<1>2. /\ \A i \in 1 .. Len(results.log) : results'.log[i] = results.log[i]
      /\ results'.cursor = results.cursor /\ results'.pending = results.pending
  <2>1. CASE results' = results
    BY <2>1
  <2>2. ASSUME NEW call \in Call, results' = XADD(results, call)
        PROVE  /\ \A i \in 1 .. Len(results.log) : results'.log[i] = results.log[i]
               /\ results'.cursor = results.cursor /\ results'.pending = results.pending
    <3>1. /\ results'.log = Append(results.log, call)
          /\ results'.cursor = results.cursor /\ results'.pending = results.pending
      BY <2>2, XADDStream, SMTT(30)
    <3> QED BY <1>1, <3>1, AppendProperties
  <2> QED BY <2>1, <2>2
<1>3. \A i \in 1 .. Len(inbound.log) : inbound'.log[i] = inbound.log[i]
  <2>1. CASE inbound' = inbound
    BY <2>1
  <2>2. ASSUME NEW t \in Task, inbound' = XADD(inbound, t)
        PROVE  \A i \in 1 .. Len(inbound.log) : inbound'.log[i] = inbound.log[i]
    <3>1. inbound'.log = Append(inbound.log, t)
      BY <2>2 DEF XADD
    <3> QED BY <1>1, <3>1, AppendProperties
  <2> QED BY <2>1, <2>2
<1>4. ASSUME NEW m, Acked(results, m) PROVE Acked(results', m)
  <2>1. PICK i \in (1 .. results.cursor) \ results.pending : results.log[i] = m
    BY <1>4 DEF Acked
  <2>2. i \in 1 .. Len(results.log)
    BY <1>1, <2>1
  <2> QED BY <1>2, <2>1, <2>2 DEF Acked
<1>5. ASSUME NEW c \in Consumer, pc[c] = "ackresult"
      PROVE  Matches(c, results.log[got[c]])'
  <2>1. got[c] \in results.pending
    BY <1>5 DEF ConsumerInv, ConsumerOK, Reading
  <2>2. got[c] \in 1 .. Len(results.log)
    BY <1>1, <2>1
  <2>3. entry[c] \in 1 .. Len(inbound.log)
    BY <1>5, CurrentTaskType
  <2>4. Matches(c, results.log[got[c]])
    BY <1>5 DEF AnswerInv
  <2> QED BY <1>2, <1>3, <2>2, <2>3, <2>4 DEF Matches, CurrentTask
<1> QED BY <1>4, <1>5, AnswerInvKept

\* The invariant of the answers holds in every reachable state, beside IInv.
LEMMA AnswerInvariant == Spec => [](ResultInv /\ AnswerInv)
<1>1. Init => ResultInv /\ AnswerInv
  <2> SUFFICES ASSUME Init PROVE ResultInv /\ AnswerInv
    OBVIOUS
  <2> USE DEF Init, SharedInit, InferenceInit, NewStream
  <2>1. ResultInv
    BY DEF ResultInv, NoDuplicates, Unwritten
  <2>2. AnswerInv
    BY DEF AnswerInv, AnswersBelongToTheTask, ResultUsedOnce
  <2> QED BY <2>1, <2>2
<1>2. IInv /\ ResultInv /\ AnswerInv /\ [Next]_vars => ResultInv' /\ AnswerInv'
  <2> SUFFICES ASSUME IInv, ResultInv, AnswerInv, [Next]_vars PROVE ResultInv' /\ AnswerInv'
    OBVIOUS
  <2> USE DEF TypeOK, SharedTypeOK
  <2>1. TypeOK /\ ConsumerInv /\ CallSideInv /\ SharedTypeOK'
    BY NextIInv DEF IInv
  <2>2. trusted.cursor \in Nat /\ untrusted.cursor \in Nat
    BY <2>1, StreamParts
  <2>3. CASE ClientNext /\ UNCHANGED << inferenceVars, runnerVars, untrustedVars >>
    <3>1. UNCHANGED << trusted, untrusted, results, issued, answers >>
      BY <2>3 DEF ClientNext, PublishTask, Cancel, streamVars, historyVars
    <3>2. inbound' = inbound \/ \E t \in Task : inbound' = XADD(inbound, t)
      BY <2>3 DEF ClientNext, PublishTask, Cancel, streamVars
    <3>3. BeforeWrite' = BeforeWrite /\ BeforeUntrustedWrite' = BeforeUntrustedWrite
      BY <2>3 DEF BeforeWrite, BeforeUntrustedWrite, runnerVars, untrustedVars
    <3>4. ResultInv'
      BY <2>1, <2>2, <3>1, <3>3, ResultInvKept
    <3> QED BY <2>1, <2>3, <3>1, <3>2, <3>4, OthersKeepAnswerInv DEF inferenceVars
  <2>4. CASE InferenceNext /\ UNCHANGED << runnerVars, untrustedVars >>
    BY <2>1, <2>4, ConsumerKeepsResultInv, ConsumerKeepsAnswerInv
  <2>5. CASE RunnerNext /\ UNCHANGED << inferenceVars, untrustedVars >>
    <3>1. UNCHANGED << inbound, answers >>
      BY <2>5 DEF RunnerNext, RunnerStep, ReadToolCall, SetLease, BridgeExecute,
         WriteToolResult, DeleteLease, AckToolCall, RunnerFault, LeaseExpires, CrashRunner,
         sharedVars, streamVars, historyVars
    <3>2. results' = results \/ \E call \in Call : results' = XADD(results, call)
      <4>1. ASSUME NEW w \in Worker, WriteToolResult(w)
            PROVE  \E call \in Call : results' = XADD(results, call)
        BY <2>1, <4>1, CallInHand DEF WriteToolResult, RunnerGoto
      <4> QED BY <2>5, <4>1 DEF RunnerNext, RunnerStep, ReadToolCall, SetLease, BridgeExecute,
         DeleteLease, AckToolCall, RunnerFault, LeaseExpires, CrashRunner,
         sharedVars, streamVars
    <3> QED BY <2>1, <2>5, <3>1, <3>2, RunnerKeepsResultInv, OthersKeepAnswerInv
        DEF inferenceVars
  <2>6. CASE UntrustedNext /\ UNCHANGED << inferenceVars, runnerVars >>
    <3>1. UNCHANGED << inbound, answers >>
      BY <2>6 DEF UntrustedNext, UntrustedStep, ReadUntrustedCall, RunEphemeral,
         WriteUntrustedResult, AckUntrusted, LeaveUnacked, CrashController, StartController,
         sharedVars, streamVars, historyVars
    <3>2. results' = results \/ \E call \in Call : results' = XADD(results, call)
      <4>1. ASSUME WriteUntrustedResult
            PROVE  \E call \in Call : results' = XADD(results, call)
        BY <2>1, <4>1, CallInHand DEF WriteUntrustedResult, UntrustedGoto
      <4> QED BY <2>6, <4>1 DEF UntrustedNext, UntrustedStep, ReadUntrustedCall, RunEphemeral,
         AckUntrusted, LeaveUnacked, CrashController, StartController, sharedVars, streamVars
    <3> QED BY <2>1, <2>6, <3>1, <3>2, UntrustedKeepsResultInv, OthersKeepAnswerInv
        DEF inferenceVars
  <2>7. CASE UNCHANGED vars
    <3>1. UNCHANGED << sharedVars, inferenceVars, runnerVars, untrustedVars >>
      BY <2>7 DEF vars
    <3>2. UNCHANGED << inbound, trusted, untrusted, results, issued, answers, pc, entry, got >>
      BY <3>1 DEF sharedVars, streamVars, historyVars, inferenceVars
    <3>3. BeforeWrite' = BeforeWrite /\ BeforeUntrustedWrite' = BeforeUntrustedWrite
      BY <3>1 DEF BeforeWrite, BeforeUntrustedWrite, runnerVars, untrustedVars
    <3>4. ResultInv'
      BY <2>1, <2>2, <3>2, <3>3, ResultInvKept
    <3> QED BY <2>1, <3>2, <3>4, OthersKeepAnswerInv
  <2> QED BY <2>3, <2>4, <2>5, <2>6, <2>7 DEF Next
<1> QED BY <1>1, <1>2, InductiveInvariant, PTL DEF Spec

\* A result given to the model is one a runner wrote for the same task, for the call
\* it is taken for or an earlier one: never another task's, never an invented one.
THEOREM AnswersOfTheTask == Spec => []AnswersBelongToTheTask
<1>1. AnswerInv => AnswersBelongToTheTask
  BY DEF AnswerInv
<1> QED BY <1>1, AnswerInvariant, PTL

\* No result is consumed as the answer of two calls, by one consumer or by two.
THEOREM ResultsUsedOnce == Spec => []ResultUsedOnce
<1>1. AnswerInv => ResultUsedOnce
  BY DEF AnswerInv
<1> QED BY <1>1, AnswerInvariant, PTL
=============================================================================
