----------------------------- MODULE Inference -----------------------------
(***************************************************************************)
(* The inference controller: _consumer_loop reads a task, process_task     *)
(* drives the model and its tool calls, and the task is acknowledged       *)
(* whatever happened.  One action per await: between two of them any other *)
(* process may act.                                                        *)
(*                                                                         *)
(* pc[c] names the await consumer c is at:                                 *)
(*   idle        read_task                                                 *)
(*   check       GET of the cancel key, at the top of each round           *)
(*   delkey, pubcancel   DEL of that key, PUBLISH of ERROR "cancelled"     *)
(*   generate    the provider's event stream                               *)
(*   push        XADD of the next tool call                                *)
(*   read, discard       read_tool_result and the XACK of a mismatch       *)
(*   ackresult   ack_tool_result                                           *)
(*   pubdone, puberror   PUBLISH of the terminal event                     *)
(*   ack         ack_task                                                  *)
(***************************************************************************)
EXTENDS TaskStreams

CONSTANTS
  Consumer,          \* consumer ids of the group "inference"
  MaxRoundCalls,     \* bound: tool calls in one StreamDone
  MaxToolResultIterations  \* _MAX_TOOL_RESULT_ITERATIONS (10 in the code)

ASSUME InferenceAssumption ==
  /\ MaxRoundCalls \in Nat
  /\ MaxToolResultIterations \in Nat \ {0}

VARIABLES
  pc,
  entry,   \* entry[c]: id of the task being processed, 0 when none
  todo,    \* todo[c]: tool calls of this round still to be pushed or answered
  iter,    \* iter[c]: results read_tool_result has discarded for this call
  got      \* got[c]: id of the result just read, 0 when none

inferenceVars == << pc, entry, todo, iter, got >>

\* The awaits inside process_task's try block: an exception there is reported.
TryBlock == {"check", "delkey", "pubcancel", "generate", "push", "read", "discard",
             "ackresult"}
InferencePC == TryBlock \cup {"idle", "pubdone", "puberror", "ack"}

InferenceTypeOK ==
  /\ pc \in [Consumer -> InferencePC]
  /\ entry \in [Consumer -> Nat]
  /\ todo \in [Consumer -> 0 .. MaxRoundCalls]
  /\ iter \in [Consumer -> 0 .. MaxToolResultIterations - 1]
  /\ got \in [Consumer -> Nat]

InferenceInit ==
  /\ pc = [c \in Consumer |-> "idle"]
  /\ entry = [c \in Consumer |-> 0]
  /\ todo = [c \in Consumer |-> 0]
  /\ iter = [c \in Consumer |-> 0]
  /\ got = [c \in Consumer |-> 0]

CurrentTask(c) == inbound.log[entry[c]]
CurrentCall(c) == [task |-> CurrentTask(c), seq |-> issued[CurrentTask(c)]]

\* Mutant: the field of the message is believed.
EffectivelyUntrustedByField(t) == t \in DeclaredUntrusted

\* effective_execution_mode: app_id overrides the field.
EffectivelyUntrusted(t) == t \in AppTask \/ t \in DeclaredUntrusted

Goto(c, from, to) ==
  /\ pc[c] = from
  /\ pc' = [pc EXCEPT ![c] = to]

\* The tool_use block at hand has its tool_result block: on to the next one, or
\* to the next round, which begins with the cancellation check.
NextToolUse(c) ==
  /\ pc' = [pc EXCEPT ![c] = IF todo[c] > 1 THEN "push" ELSE "check"]
  /\ todo' = [todo EXCEPT ![c] = @ - 1]
  /\ iter' = [iter EXCEPT ![c] = 0]

-----------------------------------------------------------------------------
\* Mutant: an empty read is taken for a message.
ReadTaskUnchecked(c) ==
  /\ Goto(c, "idle", "check")
  /\ entry' = [entry EXCEPT ![c] = NextId(inbound)]
  /\ inbound' = XREADGROUP(inbound)
  /\ UNCHANGED << todo, iter, got, trusted, untrusted, results, cancelKey, events,
                  historyVars, failures >>

\* Mutant: a consumer takes up a pending entry again, its own or another's.
ReadTaskOrPending(c) ==
  /\ Goto(c, "idle", "check")
  /\ \E id \in inbound.pending \cup (IF HasUnread(inbound) THEN {NextId(inbound)} ELSE {}) :
       /\ entry' = [entry EXCEPT ![c] = id]
       /\ inbound' = IF id = NextId(inbound) THEN XREADGROUP(inbound) ELSE inbound
  /\ UNCHANGED << todo, iter, got, trusted, untrusted, results, cancelKey, events,
                  historyVars, failures >>

\* read_task, and fetch_tools, which changes nothing and never raises.
ReadTask(c) ==
  /\ Goto(c, "idle", "check")
  /\ HasUnread(inbound)
  /\ entry' = [entry EXCEPT ![c] = NextId(inbound)]
  /\ inbound' = XREADGROUP(inbound)
  /\ UNCHANGED << todo, iter, got, trusted, untrusted, results, cancelKey, events,
                  historyVars, failures >>

\* Mutant: the key is only looked at before the first tool call.
CheckCancelOnce(c) ==
  /\ Goto(c, "check", IF CurrentTask(c) \in cancelKey /\ issued[CurrentTask(c)] = 0
                      THEN "delkey" ELSE "generate")
  /\ UNCHANGED << entry, todo, iter, got, sharedVars >>

CheckCancel(c) ==
  /\ Goto(c, "check", IF CurrentTask(c) \in cancelKey THEN "delkey" ELSE "generate")
  /\ UNCHANGED << entry, todo, iter, got, sharedVars >>

DeleteCancelKey(c) ==
  /\ Goto(c, "delkey", "pubcancel")
  /\ cancelKey' = cancelKey \ {CurrentTask(c)}
  /\ UNCHANGED << entry, todo, iter, got, streamVars, events, historyVars, failures >>

\* Mutant: the return after the event is missing.
PublishCancelledAndGoOn(c) ==
  /\ Goto(c, "pubcancel", "generate")
  /\ Publish(CurrentTask(c), "ERROR")
  /\ UNCHANGED << entry, todo, iter, got, streamVars, cancelKey, historyVars, failures >>

PublishCancelled(c) ==
  /\ Goto(c, "pubcancel", "ack")
  /\ Publish(CurrentTask(c), "ERROR")
  /\ UNCHANGED << entry, todo, iter, got, streamVars, cancelKey, historyVars, failures >>

\* The PUBLISH reached Redis and its reply did not reach us: the except branch
\* publishes a second ERROR.
PublishCancelledReplyLost(c) ==
  /\ Goto(c, "pubcancel", "puberror")
  /\ Publish(CurrentTask(c), "ERROR")
  /\ CountFailure
  /\ UNCHANGED << entry, todo, iter, got, streamVars, cancelKey, historyVars >>

-----------------------------------------------------------------------------
(* The provider's stream.                                                  *)

ReceiveChunk(c) ==
  /\ pc[c] = "generate"
  /\ Publish(CurrentTask(c), "RESPONSE_CHUNK")
  /\ UNCHANGED << inferenceVars, streamVars, cancelKey, historyVars, failures >>

\* StreamDone("end_turn"), or a stream that ends without a StreamDone.
EndTurn(c) ==
  /\ Goto(c, "generate", "pubdone")
  /\ UNCHANGED << entry, todo, iter, got, sharedVars >>

\* Any other StreamDone.  One without tool calls (stop_reason "max_tokens") only
\* starts another round.
RequestTools(c, n) ==
  /\ Goto(c, "generate", IF n = 0 THEN "check" ELSE "push")
  /\ issued[CurrentTask(c)] + n <= MaxCalls
  /\ todo' = [todo EXCEPT ![c] = n]
  /\ UNCHANGED << entry, iter, got, sharedVars >>

ProviderFails(c) ==
  /\ Goto(c, "generate", "puberror")
  /\ UNCHANGED << entry, todo, iter, got, sharedVars >>

-----------------------------------------------------------------------------
(* One tool call.                                                          *)

PushToolCall(c) ==
  LET t == CurrentTask(c)
      call == [task |-> t, seq |-> issued[t] + 1]
  IN /\ Goto(c, "push", "read")
     /\ IF EffectivelyUntrusted(t)
        THEN untrusted' = XADD(untrusted, call) /\ UNCHANGED trusted
        ELSE trusted' = XADD(trusted, call) /\ UNCHANGED untrusted
     /\ issued' = [issued EXCEPT ![t] = @ + 1]
     /\ UNCHANGED << entry, todo, iter, got, inbound, results, cancelKey, events,
                     unreported, answers, executions, failures >>

\* Mutant: whatever arrives is taken for the result waited for.
MatchesAnyTask(c, result) == result \in Call /\ c \in Consumer

\* A result is taken for the current call's when its task_id is the task's.
Matches(c, result) == result.task = CurrentTask(c)

\* Mutant: a read that does not move the group's cursor.
ReadToolResultAgain(c) ==
  /\ HasUnread(results)
  /\ Goto(c, "read", IF Matches(c, results.log[NextId(results)])
                     THEN "ackresult" ELSE "discard")
  /\ got' = [got EXCEPT ![c] = NextId(results)]
  /\ UNCHANGED << entry, todo, iter, streamVars, cancelKey, events, historyVars, failures >>

ReadToolResult(c) ==
  /\ HasUnread(results)
  /\ Goto(c, "read", IF Matches(c, results.log[NextId(results)])
                     THEN "ackresult" ELSE "discard")
  /\ results' = XREADGROUP(results)
  /\ got' = [got EXCEPT ![c] = NextId(results)]
  /\ UNCHANGED << entry, todo, iter, inbound, trusted, untrusted, cancelKey, events,
                  historyVars, failures >>

\* Mutant: an empty read is followed by another one, without end.
ReadTimeoutIgnored(c) ==
  /\ pc[c] = "read"
  /\ ~HasUnread(results)
  /\ UNCHANGED << inferenceVars, sharedVars >>

\* Two seconds without a result: the call is answered "[tool result unavailable]".
ReadTimeout(c) ==
  /\ pc[c] = "read"
  /\ ~HasUnread(results)
  /\ NextToolUse(c)
  /\ UNCHANGED << entry, got, sharedVars >>

\* XACK of another task's result; after the last iteration the call is unavailable.
DiscardResult(c) ==
  /\ pc[c] = "discard"
  /\ results' = XACK(results, got[c])
  /\ got' = [got EXCEPT ![c] = 0]
  /\ IF iter[c] + 1 < MaxToolResultIterations
     THEN /\ pc' = [pc EXCEPT ![c] = "read"]
          /\ iter' = [iter EXCEPT ![c] = @ + 1]
          /\ UNCHANGED todo
     ELSE NextToolUse(c)
  /\ UNCHANGED << entry, inbound, trusted, untrusted, cancelKey, events, historyVars,
                  failures >>

\* ack_tool_result, then the result becomes the tool_result of the current call.
AckToolResult(c) ==
  /\ pc[c] = "ackresult"
  /\ results' = XACK(results, got[c])
  /\ answers' = answers \cup {[call |-> CurrentCall(c), source |-> results.log[got[c]]]}
  /\ got' = [got EXCEPT ![c] = 0]
  /\ NextToolUse(c)
  /\ UNCHANGED << entry, inbound, trusted, untrusted, cancelKey, events, unreported,
                  issued, executions, failures >>

-----------------------------------------------------------------------------
(* The end of a task.                                                      *)

\* Mutant: DONE is published inside the try block, where a lost reply is reported.
PublishDoneInTry(c) ==
  /\ \/ Goto(c, "pubdone", "ack") /\ UNCHANGED failures
     \/ Goto(c, "pubdone", "puberror") /\ CountFailure
  /\ Publish(CurrentTask(c), "DONE")
  /\ UNCHANGED << entry, todo, iter, got, streamVars, cancelKey, historyVars >>

PublishDone(c) ==
  /\ Goto(c, "pubdone", "ack")
  /\ Publish(CurrentTask(c), "DONE")
  /\ UNCHANGED << entry, todo, iter, got, streamVars, cancelKey, historyVars, failures >>

PublishError(c) ==
  /\ Goto(c, "puberror", "ack")
  /\ Publish(CurrentTask(c), "ERROR")
  /\ UNCHANGED << entry, todo, iter, got, streamVars, cancelKey, historyVars, failures >>

\* Consumer c forgets everything it holds in memory.
Forget(c) ==
  /\ pc' = [pc EXCEPT ![c] = "idle"]
  /\ entry' = [entry EXCEPT ![c] = 0]
  /\ todo' = [todo EXCEPT ![c] = 0]
  /\ iter' = [iter EXCEPT ![c] = 0]
  /\ got' = [got EXCEPT ![c] = 0]

\* The finally clause of the loop.
AckTask(c) ==
  /\ pc[c] = "ack"
  /\ inbound' = XACK(inbound, entry[c])
  /\ Forget(c)
  /\ UNCHANGED << trusted, untrusted, results, cancelKey, events, historyVars, failures >>

\* Mutant: no except branch: the loop only logs and acknowledges.
FaultInTryUnreported(c) ==
  /\ pc[c] \in TryBlock
  /\ pc' = [pc EXCEPT ![c] = "ack"]
  /\ CountFailure
  /\ UNCHANGED << entry, todo, iter, got, streamVars, cancelKey, events, historyVars >>

\* A command inside the try block raises: the except branch reports the task.
FaultInTry(c) ==
  /\ pc[c] \in TryBlock
  /\ pc' = [pc EXCEPT ![c] = "puberror"]
  /\ CountFailure
  /\ UNCHANGED << entry, todo, iter, got, streamVars, cancelKey, events, historyVars >>

\* PUBLISH of DONE or ERROR raises: the loop logs it and acknowledges the task.
FaultInPublish(c) ==
  /\ pc[c] \in {"pubdone", "puberror"}
  /\ pc' = [pc EXCEPT ![c] = "ack"]
  /\ unreported' = unreported \cup {CurrentTask(c)}
  /\ CountFailure
  /\ UNCHANGED << entry, todo, iter, got, streamVars, cancelKey, events, issued, answers,
                  executions >>

\* The process dies, at any await: killed, or by an exception out of ack_task.
\* It comes back with the same consumer id and reads ">" only.
CrashConsumer(c) ==
  /\ pc[c] # "idle"
  /\ Forget(c)
  /\ CountFailure
  /\ UNCHANGED << streamVars, cancelKey, events, historyVars >>

-----------------------------------------------------------------------------
\* The answers the provider can give.
ProviderStep(c) ==
  \/ ReceiveChunk(c)
  \/ EndTurn(c)
  \/ ProviderFails(c)
  \/ \E n \in 0 .. MaxRoundCalls : RequestTools(c, n)

\* What the code does of itself as long as Redis answers.
InferenceStep(c) ==
  \/ ReadTask(c) \/ CheckCancel(c) \/ DeleteCancelKey(c) \/ PublishCancelled(c)
  \/ PushToolCall(c) \/ ReadToolResult(c) \/ ReadTimeout(c) \/ DiscardResult(c)
  \/ AckToolResult(c) \/ PublishDone(c) \/ PublishError(c) \/ AckTask(c)

InferenceFailure(c) ==
  \/ PublishCancelledReplyLost(c) \/ FaultInTry(c) \/ FaultInPublish(c) \/ CrashConsumer(c)

InferenceNext ==
  \E c \in Consumer : ProviderStep(c) \/ InferenceStep(c) \/ InferenceFailure(c)
=============================================================================
