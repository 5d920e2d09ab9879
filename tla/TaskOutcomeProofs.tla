------------------------- MODULE TaskOutcomeProofs -------------------------
(***************************************************************************)
(* How tasks live and end in TaskPipeline, for any set of tasks, consumers *)
(* and workers and any bounds: outcomes are final, acknowledged tasks are  *)
(* reported, nothing is done for a task that has ended, and the pipeline   *)
(* implements the abstract life cycle of TaskLifecycle.                    *)
(*                                                                         *)
(* Of all the steps, seven kinds touch what these are about; StepKinds     *)
(* reduces a step to one of them.  What a consumer may still tell depends  *)
(* on where it is: nothing terminal has been published for its task up to  *)
(* the PUBLISH of DONE, no DONE before that of ERROR, and after either the *)
(* task is reported or the PUBLISH has raised.  That other consumers don't *)
(* tell anything of the same task is ConsumerInv of TaskPipelineProofs.    *)
(***************************************************************************)
EXTENDS TaskPipelineProofs, FiniteSetTheorems

Delivered(t) == \E i \in 1 .. inbound.cursor : inbound.log[i] = t

\* The awaits before the outcome of a task is decided.
Undecided == TryBlock \cup {"pubdone"}

ConsumerOutcome(c) ==
  /\ pc[c] \in Undecided => ~Ended(CurrentTask(c))
  /\ pc[c] = "puberror" => ~Published(CurrentTask(c), "DONE")
  /\ pc[c] = "ack" => Ended(CurrentTask(c)) \/ CurrentTask(c) \in unreported

OutcomeInv ==
  /\ OutcomeIsFinal
  /\ AckedMeansReported
  /\ \A t \in Task : Ended(t) => Delivered(t)
  /\ \A c \in Consumer : ConsumerOutcome(c)

-----------------------------------------------------------------------------
(* The kinds of steps.                                                     *)

outcomeVars == << pc, entry, inbound, events, unreported >>

MovesTo(c, to) == pc' = [pc EXCEPT ![c] = to]

\* A client publishes a task.
Asks(t) ==
  /\ ~Added(inbound, t) /\ inbound' = XADD(inbound, t)
  /\ UNCHANGED << pc, entry, events, unreported >>

\* A consumer takes up a task, works on it, tells its listeners, fails to, or lets it go.
TakesUp(c) ==
  /\ pc[c] = "idle" /\ MovesTo(c, "check")
  /\ HasUnread(inbound) /\ inbound' = XREADGROUP(inbound)
  /\ entry' = [entry EXCEPT ![c] = NextId(inbound)]
  /\ UNCHANGED << events, unreported >>

Works(c) ==
  /\ pc[c] \in Undecided
  /\ \E to \in Undecided \cup {"puberror"} : MovesTo(c, to)
  /\ UNCHANGED << entry, inbound, events, unreported >>

Tells(c, type) ==
  /\ \/ type = "RESPONSE_CHUNK" /\ pc[c] = "generate" /\ UNCHANGED pc
     \/ type = "DONE" /\ pc[c] = "pubdone" /\ MovesTo(c, "ack")
     \/ /\ type = "ERROR" /\ pc[c] \in {"pubcancel", "puberror"}
        /\ MovesTo(c, "ack") \/ MovesTo(c, "puberror")
  /\ Publish(CurrentTask(c), type)
  /\ UNCHANGED << entry, inbound, unreported >>

FailsToTell(c) ==
  /\ pc[c] \in {"pubdone", "puberror"} /\ MovesTo(c, "ack")
  /\ unreported' = unreported \cup {CurrentTask(c)}
  /\ UNCHANGED << entry, inbound, events >>

LetsGo(c) ==
  /\ pc[c] # "idle" /\ MovesTo(c, "idle")
  /\ entry' = [entry EXCEPT ![c] = 0]
  /\ \/ UNCHANGED inbound
     \/ pc[c] = "ack" /\ inbound' = XACK(inbound, entry[c])
  /\ UNCHANGED << events, unreported >>

\* Every step of the pipeline is of one of these kinds, or of no interest here.
LEMMA StepKinds ==
  ASSUME [Next]_vars
  PROVE  \/ UNCHANGED outcomeVars
         \/ \E t \in Task : Asks(t)
         \/ \E c \in Consumer :
              TakesUp(c) \/ Works(c) \/ FailsToTell(c) \/ LetsGo(c)
                \/ \E type \in EventType : Tells(c, type)
<1> USE DEF outcomeVars, streamVars, historyVars, sharedVars
<1>1. CASE ClientNext /\ UNCHANGED << inferenceVars, runnerVars, untrustedVars >>
  BY <1>1 DEF ClientNext, PublishTask, Cancel, Asks, inferenceVars
<1>2. CASE InferenceNext /\ UNCHANGED << runnerVars, untrustedVars >>
  <2>1. PICK c \in Consumer : ProviderStep(c) \/ InferenceStep(c) \/ InferenceFailure(c)
    BY <1>2 DEF InferenceNext
  <2>2. CASE ReadTask(c)
    BY <2>2 DEF ReadTask, Goto, TakesUp, MovesTo
  <2>3. CASE \/ CheckCancel(c) \/ DeleteCancelKey(c) \/ EndTurn(c) \/ ProviderFails(c)
             \/ FaultInTry(c) \/ PushToolCall(c) \/ ReadToolResult(c)
    BY <2>3 DEF CheckCancel, DeleteCancelKey, EndTurn, ProviderFails, FaultInTry, PushToolCall,
                ReadToolResult, Goto, Works, MovesTo, Undecided, TryBlock
  <2>4. CASE \/ ReadTimeout(c) \/ DiscardResult(c) \/ AckToolResult(c)
             \/ \E n \in 0 .. MaxRoundCalls : RequestTools(c, n)
    BY <2>4 DEF ReadTimeout, DiscardResult, AckToolResult, RequestTools, NextToolUse,
                Goto, Works, MovesTo, Undecided, TryBlock
  <2>5. CASE ReceiveChunk(c)
    BY <2>5 DEF ReceiveChunk, Tells, EventType, inferenceVars
  <2>6. CASE PublishDone(c)
    BY <2>6 DEF PublishDone, Goto, Tells, MovesTo, EventType
  <2>7. CASE PublishCancelled(c) \/ PublishCancelledReplyLost(c) \/ PublishError(c)
    BY <2>7 DEF PublishCancelled, PublishCancelledReplyLost, PublishError, Goto, Tells, MovesTo,
                EventType
  <2>8. CASE FaultInPublish(c)
    BY <2>8 DEF FaultInPublish, FailsToTell, MovesTo
  <2>9. CASE AckTask(c) \/ CrashConsumer(c)
    BY <2>9 DEF AckTask, CrashConsumer, Forget, LetsGo, MovesTo
  <2> QED BY <2>1, <2>2, <2>3, <2>4, <2>5, <2>6, <2>7, <2>8, <2>9
          DEF ProviderStep, InferenceStep, InferenceFailure
<1>3. CASE RunnerNext /\ UNCHANGED << inferenceVars, untrustedVars >>
  BY <1>3 DEF RunnerNext, RunnerStep, ReadToolCall, SetLease, BridgeExecute, WriteToolResult,
     DeleteLease, AckToolCall, RunnerFault, LeaseExpires, CrashRunner, inferenceVars
<1>4. CASE UntrustedNext /\ UNCHANGED << inferenceVars, runnerVars >>
  BY <1>4 DEF UntrustedNext, UntrustedStep, ReadUntrustedCall, RunEphemeral,
     WriteUntrustedResult, AckUntrusted, LeaveUnacked, CrashController, StartController,
     inferenceVars
<1>5. CASE UNCHANGED vars
  BY <1>5 DEF vars, inferenceVars
<1> QED BY <1>1, <1>2, <1>3, <1>4, <1>5 DEF Next

-----------------------------------------------------------------------------
(* The outcome of tasks.                                                   *)

\* What publishing does to the record of events, as far as outcomes go.
LEMMA PublishEffect ==
  ASSUME events \in [Task -> Seq(EventType)], NEW t \in Task, NEW type \in EventType,
         Publish(t, type)
  PROVE  /\ events' \in [Task -> Seq(EventType)]
         /\ \A u \in Task : u # t => events'[u] = events[u]
         /\ \A kind \in Terminal : Published(t, kind)' <=> Published(t, kind) \/ kind = type
         /\ \/ events'[t] = events[t] /\ type \notin Terminal
            \/ events'[t] = Append(events[t], type)
<1>1. events[t] \in Seq(EventType)
  OBVIOUS
<1>2. CASE events' = events /\ type = "RESPONSE_CHUNK"
  BY <1>2 DEF Terminal, Published
<1>3. CASE events' = [events EXCEPT ![t] = Append(@, type)]
  <2>1. events'[t] = Append(events[t], type) /\ events'[t] \in Seq(EventType)
    BY <1>1, <1>3
  <2>2. /\ Len(events'[t]) = Len(events[t]) + 1 /\ Len(events[t]) \in Nat
        /\ \A i \in 1 .. Len(events[t]) : events'[t][i] = events[t][i]
        /\ events'[t][Len(events[t]) + 1] = type
    BY <1>1, <2>1
  <2>3. ASSUME NEW kind PROVE Published(t, kind)' <=> Published(t, kind) \/ kind = type
    BY <2>2 DEF Published
  <2> QED BY <1>3, <2>1, <2>3
<1> QED BY <1>2, <1>3 DEF Publish

\* A task published on is ended, or not, as before, unless it is the one told of.
LEMMA EndedEffect ==
  ASSUME events \in [Task -> Seq(EventType)], NEW t \in Task, NEW type \in EventType,
         Publish(t, type)
  PROVE  /\ \A u \in Task : u # t => (Ended(u)' <=> Ended(u))
         /\ Ended(t)' <=> Ended(t) \/ type \in Terminal
<1>1. \A u \in Task : u # t => events'[u] = events[u]
  BY PublishEffect
<1>2. \A kind \in Terminal : Published(t, kind)' <=> Published(t, kind) \/ kind = type
  BY PublishEffect
<1> QED BY <1>1, <1>2 DEF Ended, Published

\* The task a consumer has in hand has been delivered.
LEMMA CurrentTaskDelivered ==
  ASSUME TypeOK, ConsumerInv, NEW c \in Consumer, pc[c] # "idle"
  PROVE  Delivered(CurrentTask(c))
<1>1. entry[c] \in inbound.pending /\ inbound \in Stream(Task)
  BY CurrentTaskType DEF TypeOK, SharedTypeOK
<1>2. entry[c] \in 1 .. inbound.cursor
  BY <1>1, StreamParts
<1> QED BY <1>2 DEF Delivered, CurrentTask

\* Publishing an event for the task of consumer c, whose outcome was not ERROR followed by
\* something else, keeps outcomes final.
LEMMA FinalAfterTelling ==
  ASSUME TypeOK, OutcomeIsFinal, NEW t \in Task, NEW type \in EventType, Publish(t, type),
         type # "ERROR" => ~Ended(t),
         type = "ERROR" => ~Published(t, "DONE")
  PROVE  OutcomeIsFinal'
<1>1. events \in [Task -> Seq(EventType)]
  BY DEF TypeOK, SharedTypeOK
<1>2. SUFFICES ASSUME NEW u \in Task, NEW i \in 1 .. Len(events'[u]),
                      NEW j \in 1 .. Len(events'[u]), i < j, events'[u][i] \in Terminal
               PROVE  events'[u][i] = "ERROR" /\ events'[u][j] = "ERROR"
  BY DEF OutcomeIsFinal
<1>3. CASE events'[u] = events[u]
  BY <1>2, <1>3 DEF OutcomeIsFinal
<1>4. CASE events'[u] # events[u]
  <2>1. u = t /\ events'[t] = Append(events[t], type) /\ events[t] \in Seq(EventType)
    BY <1>1, <1>4, PublishEffect
  <2>2. /\ Len(events'[t]) = Len(events[t]) + 1 /\ Len(events[t]) \in Nat
        /\ \A k \in 1 .. Len(events[t]) : events'[t][k] = events[t][k]
        /\ events'[t][Len(events[t]) + 1] = type
    BY <2>1
  <2>3. i \in 1 .. Len(events[t]) /\ events[t][i] \in Terminal
    BY <1>2, <2>1, <2>2
  <2>4. Ended(t)
    BY <2>3 DEF Ended, Published
  <2>5. type = "ERROR" /\ events[t][i] = "ERROR"
    BY <2>3, <2>4 DEF Terminal, Published
  <2>6. CASE j = Len(events[t]) + 1
    BY <2>1, <2>2, <2>3, <2>5, <2>6
  <2>7. CASE j \in 1 .. Len(events[t])
    BY <1>2, <2>1, <2>2, <2>3, <2>7 DEF OutcomeIsFinal
  <2> QED BY <2>1, <2>2, <2>6, <2>7
<1> QED BY <1>3, <1>4

\* Telling.
LEMMA TellsKeepsOutcome ==
  ASSUME TypeOK, ConsumerInv, OutcomeInv, NEW c \in Consumer, NEW type \in EventType,
         Tells(c, type)
  PROVE  OutcomeInv'
<1>1. events \in [Task -> Seq(EventType)] /\ pc \in [Consumer -> InferencePC]
  BY DEF TypeOK, SharedTypeOK, InferenceTypeOK
<1>2. PICK t \in Task :
        /\ t = CurrentTask(c) /\ pc[c] # "idle" /\ Delivered(t) /\ Publish(t, type)
        /\ UNCHANGED << entry, inbound, unreported >>
  <2>1. pc[c] # "idle"
    BY DEF Tells
  <2> QED BY <2>1, CurrentTaskType, CurrentTaskDelivered DEF Tells
<1>4. type # "ERROR" => ~Ended(t)
  BY <1>2 DEF Tells, OutcomeInv, ConsumerOutcome, Undecided, TryBlock
<1>5. type = "ERROR" => ~Published(t, "DONE")
  BY <1>2 DEF Tells, OutcomeInv, ConsumerOutcome, Undecided, TryBlock, Ended, Terminal
<1>6. OutcomeIsFinal'
  BY <1>2, <1>4, <1>5, FinalAfterTelling DEF OutcomeInv
<1>7. /\ \A u \in Task : u # t => (Ended(u)' <=> Ended(u))
      /\ Ended(t)' <=> Ended(t) \/ type \in Terminal
  BY <1>1, <1>2, EndedEffect
<1>8. AckedMeansReported'
  BY <1>2, <1>7 DEF OutcomeInv, AckedMeansReported, Acked
<1>9. \A u \in Task : (Ended(u) => Delivered(u))'
  BY <1>2, <1>7 DEF OutcomeInv, Delivered
<1>10. ASSUME NEW d \in Consumer PROVE ConsumerOutcome(d)'
  <2>1. CurrentTask(d)' = CurrentTask(d) /\ ConsumerOutcome(d)
    BY <1>2 DEF CurrentTask, OutcomeInv
  <2>2. CASE d = c
    <3>1. CASE type = "RESPONSE_CHUNK"
      BY <1>2, <1>4, <1>7, <2>1, <2>2, <3>1
         DEF Tells, ConsumerOutcome, Terminal, Undecided, TryBlock
    <3>2. CASE type = "DONE"
      BY <1>1, <1>2, <1>7, <2>1, <2>2, <3>2
         DEF Tells, MovesTo, ConsumerOutcome, Terminal, Undecided, TryBlock
    <3>3. CASE type = "ERROR"
      <4>1. ~Published(t, "DONE")'
        BY <1>1, <1>2, <1>5, <3>3, PublishEffect DEF Terminal
      <4> QED BY <1>1, <1>2, <1>7, <2>1, <2>2, <3>3, <4>1
              DEF Tells, MovesTo, ConsumerOutcome, Terminal, Undecided, TryBlock
    <3> QED BY <3>1, <3>2, <3>3 DEF EventType
  <2>3. CASE d # c
    <3>1. pc'[d] = pc[d]
      BY <1>1, <2>3 DEF Tells, MovesTo
    <3>2. CASE pc[d] = "idle"
      BY <3>1, <3>2 DEF ConsumerOutcome, Undecided, TryBlock
    <3>3. CASE pc[d] # "idle"
      <4>1. CurrentTask(d) # t /\ CurrentTask(d) \in Task
        BY <1>2, <2>3, <3>3, OneConsumerPerTask, CurrentTaskType
      <4>2. events'[CurrentTask(d)] = events[CurrentTask(d)]
        BY <1>1, <1>2, <4>1, PublishEffect
      <4> QED BY <1>2, <2>1, <3>1, <4>2 DEF ConsumerOutcome, Ended, Published
    <3> QED BY <3>2, <3>3
  <2> QED BY <2>2, <2>3
<1> QED BY <1>6, <1>8, <1>9, <1>10 DEF OutcomeInv

\* The kinds of steps that tell nothing.
LEMMA SilenceKeepsOutcome ==
  ASSUME TypeOK, ConsumerInv, OutcomeInv, UNCHANGED events, unreported \subseteq unreported',
         \A t \in Task : Delivered(t) => Delivered(t)',
         AckedMeansReported',
         \A c \in Consumer : ConsumerOutcome(c)'
  PROVE  OutcomeInv'
<1>1. OutcomeIsFinal' /\ \A t \in Task : Ended(t)' <=> Ended(t)
  BY DEF OutcomeInv, OutcomeIsFinal, Ended, Published
<1> QED BY <1>1 DEF OutcomeInv

\* A consumer whose task, place and the events of its task stay is as before.
LEMMA OutcomeOfOthers ==
  ASSUME NEW c \in Consumer, ConsumerOutcome(c), pc'[c] = pc[c],
         pc[c] # "idle" => CurrentTask(c)' = CurrentTask(c),
         UNCHANGED events, unreported \subseteq unreported'
  PROVE  ConsumerOutcome(c)'
BY DEF ConsumerOutcome, Undecided, TryBlock, Ended, Published

LEMMA AsksKeepsOutcome ==
  ASSUME TypeOK, ConsumerInv, OutcomeInv, NEW t \in Task, Asks(t)
  PROVE  OutcomeInv'
<1>1. /\ Len(inbound.log) \in Nat /\ inbound.log \in Seq(Task)
      /\ inbound.cursor \in Nat /\ inbound.cursor <= Len(inbound.log)
  BY StreamParts DEF TypeOK, SharedTypeOK
<1>2. /\ inbound'.cursor = inbound.cursor /\ inbound'.pending = inbound.pending
      /\ inbound'.log = Append(inbound.log, t)
  BY DEF Asks, XADD
<1>3. \A i \in 1 .. inbound.cursor : inbound'.log[i] = inbound.log[i]
  BY <1>1, <1>2
<1>4. UNCHANGED << pc, entry, events, unreported >>
  BY DEF Asks
<1>5. AckedMeansReported'
  BY <1>1, <1>2, <1>3, <1>4 DEF OutcomeInv, AckedMeansReported, Acked, Ended, Published
<1>6. \A u \in Task : Delivered(u) => Delivered(u)'
  BY <1>2, <1>3 DEF Delivered
<1>7. ASSUME NEW d \in Consumer PROVE ConsumerOutcome(d)'
  <2>1. pc[d] # "idle" => CurrentTask(d)' = CurrentTask(d)
    <3>1. pc[d] # "idle" => entry[d] \in 1 .. Len(inbound.log)
      BY CurrentTaskType
    <3> QED BY <1>1, <1>2, <1>4, <3>1 DEF CurrentTask
  <2> QED BY <1>4, <2>1, OutcomeOfOthers DEF OutcomeInv
<1> QED BY <1>4, <1>5, <1>6, <1>7, SilenceKeepsOutcome

LEMMA TakesUpKeepsOutcome ==
  ASSUME TypeOK, ConsumerInv, OutcomeInv, NEW c \in Consumer, TakesUp(c)
  PROVE  OutcomeInv'
<1>1. pc \in [Consumer -> InferencePC] /\ entry \in [Consumer -> Nat]
  BY DEF TypeOK, InferenceTypeOK
<1>2. /\ inbound \in Stream(Task) /\ HasUnread(inbound) /\ inbound' = XREADGROUP(inbound)
      /\ inbound.cursor \in Nat
  BY StreamParts DEF TakesUp, TypeOK, SharedTypeOK
<1>3. /\ inbound'.log = inbound.log /\ inbound'.cursor = inbound.cursor + 1
      /\ inbound'.pending = inbound.pending \cup {inbound.cursor + 1}
      /\ inbound.cursor + 1 \in 1 .. Len(inbound.log) /\ inbound.log[inbound.cursor + 1] \in Task
  BY <1>2, XREADGROUPStream DEF NextId
<1>4. UNCHANGED << events, unreported >>
  BY DEF TakesUp
<1>5. AckedMeansReported'
  BY <1>2, <1>3, <1>4 DEF OutcomeInv, AckedMeansReported, Acked, Ended, Published
<1>6. \A u \in Task : Delivered(u) => Delivered(u)'
  BY <1>2, <1>3 DEF Delivered
<1>7. ASSUME NEW d \in Consumer PROVE ConsumerOutcome(d)'
  <2>1. CASE d = c
    <3>1. pc'[c] = "check" /\ entry'[c] = inbound.cursor + 1
      BY <1>1 DEF TakesUp, MovesTo, NextId
    <3>2. CurrentTask(c)' = inbound.log[inbound.cursor + 1]
      BY <1>3, <3>1 DEF CurrentTask
    <3>3. ~Delivered(inbound.log[inbound.cursor + 1])
      BY <1>2, <1>3 DEF Delivered, ConsumerInv, NoDuplicates
    <3>4. ~Ended(inbound.log[inbound.cursor + 1])
      BY <1>3, <3>3 DEF OutcomeInv
    <3> QED BY <1>4, <2>1, <3>1, <3>2, <3>4
            DEF ConsumerOutcome, Undecided, TryBlock, Ended, Published
  <2>2. CASE d # c
    <3>1. pc'[d] = pc[d] /\ CurrentTask(d)' = CurrentTask(d)
      BY <1>1, <1>3, <2>2 DEF TakesUp, MovesTo, CurrentTask
    <3> QED BY <1>4, <3>1, OutcomeOfOthers DEF OutcomeInv
  <2> QED BY <2>1, <2>2
<1> QED BY <1>4, <1>5, <1>6, <1>7, SilenceKeepsOutcome

LEMMA WorksKeepsOutcome ==
  ASSUME TypeOK, ConsumerInv, OutcomeInv, NEW c \in Consumer, Works(c) \/ FailsToTell(c)
  PROVE  OutcomeInv'
<1>1. pc \in [Consumer -> InferencePC]
  BY DEF TypeOK, InferenceTypeOK
<1>2. UNCHANGED << entry, inbound, events >> /\ unreported \subseteq unreported'
  BY DEF Works, FailsToTell
<1>3. AckedMeansReported'
  BY <1>2 DEF OutcomeInv, AckedMeansReported, Acked, Ended, Published
<1>4. \A u \in Task : Delivered(u) => Delivered(u)'
  BY <1>2 DEF Delivered
<1>5. ASSUME NEW d \in Consumer PROVE ConsumerOutcome(d)'
  <2>1. CurrentTask(d)' = CurrentTask(d) /\ ConsumerOutcome(d)
    BY <1>2 DEF CurrentTask, OutcomeInv
  <2>2. CASE d = c /\ Works(c)
    <3>1. pc[c] \in Undecided /\ pc'[c] \in Undecided \cup {"puberror"}
      BY <1>1, <2>2 DEF Works, MovesTo
    <3>2. ~Ended(CurrentTask(c)) /\ ~Published(CurrentTask(c), "DONE")
      BY <2>1, <2>2, <3>1 DEF ConsumerOutcome, Ended, Terminal
    <3> QED BY <1>2, <2>1, <2>2, <3>1, <3>2
            DEF ConsumerOutcome, Undecided, TryBlock, Ended, Published
  <2>3. CASE d = c /\ FailsToTell(c)
    BY <1>1, <2>1, <2>3 DEF FailsToTell, MovesTo, ConsumerOutcome, Undecided, TryBlock
  <2>4. CASE d # c
    <3>1. pc'[d] = pc[d]
      BY <1>1, <2>4 DEF Works, FailsToTell, MovesTo
    <3> QED BY <1>2, <2>1, <3>1, OutcomeOfOthers
  <2> QED BY <2>2, <2>3, <2>4
<1> QED BY <1>2, <1>3, <1>4, <1>5, SilenceKeepsOutcome

LEMMA LetsGoKeepsOutcome ==
  ASSUME TypeOK, ConsumerInv, OutcomeInv, NEW c \in Consumer, LetsGo(c)
  PROVE  OutcomeInv'
<1>1. pc \in [Consumer -> InferencePC] /\ entry \in [Consumer -> Nat] /\ inbound \in Stream(Task)
  BY DEF TypeOK, InferenceTypeOK, SharedTypeOK
<1>2. UNCHANGED << events, unreported >>
  BY DEF LetsGo
<1>3. inbound'.log = inbound.log /\ inbound'.cursor = inbound.cursor
  BY <1>1, XACKStream DEF LetsGo
<1>4. AckedMeansReported'
  <2>1. CASE UNCHANGED inbound
    BY <1>2, <2>1 DEF OutcomeInv, AckedMeansReported, Acked, Ended, Published
  <2>2. CASE pc[c] = "ack" /\ inbound' = XACK(inbound, entry[c])
    <3>1. Ended(CurrentTask(c)) \/ CurrentTask(c) \in unreported
      BY <2>2 DEF OutcomeInv, ConsumerOutcome
    <3>2. inbound'.pending = inbound.pending \ {entry[c]}
      BY <1>1, <2>2, XACKStream
    <3>3. ASSUME NEW t \in Task, Acked(inbound', t) PROVE Acked(inbound, t) \/ t = CurrentTask(c)
      BY <1>3, <3>2, <3>3 DEF Acked, CurrentTask
    <3>4. \A t \in Task : Ended(t)' <=> Ended(t)
      BY <1>2 DEF Ended, Published
    <3>5. ASSUME NEW t \in Task, Acked(inbound', t) PROVE Ended(t) \/ t \in unreported
      BY <3>1, <3>3, <3>5 DEF OutcomeInv, AckedMeansReported
    <3> QED BY <1>2, <3>4, <3>5 DEF AckedMeansReported
  <2> QED BY <2>1, <2>2 DEF LetsGo
<1>5. \A u \in Task : Delivered(u) => Delivered(u)'
  BY <1>3 DEF Delivered
<1>6. ASSUME NEW d \in Consumer PROVE ConsumerOutcome(d)'
  <2>1. CASE d = c
    BY <1>1, <2>1 DEF LetsGo, MovesTo, ConsumerOutcome, Undecided, TryBlock
  <2>2. CASE d # c
    <3>1. pc'[d] = pc[d] /\ CurrentTask(d)' = CurrentTask(d)
      BY <1>1, <1>3, <2>2 DEF LetsGo, MovesTo, CurrentTask
    <3> QED BY <1>2, <3>1, OutcomeOfOthers DEF OutcomeInv
  <2> QED BY <2>1, <2>2
<1> QED BY <1>2, <1>4, <1>5, <1>6, SilenceKeepsOutcome

LEMMA InitOutcome == Init => OutcomeInv
BY DEF Init, SharedInit, InferenceInit, OutcomeInv, OutcomeIsFinal, AckedMeansReported, Acked,
       NewStream, ConsumerOutcome, Undecided, TryBlock, Ended, Published

LEMMA NextOutcome == IInv /\ OutcomeInv /\ [Next]_vars => OutcomeInv'
<1> SUFFICES ASSUME IInv, OutcomeInv, [Next]_vars PROVE OutcomeInv'
  OBVIOUS
<1>1. TypeOK /\ ConsumerInv
  BY DEF IInv
<1>2. CASE UNCHANGED outcomeVars
  BY <1>2 DEF outcomeVars, OutcomeInv, OutcomeIsFinal, AckedMeansReported, Acked, Delivered,
     ConsumerOutcome, CurrentTask, Ended, Published
<1>3. CASE \E t \in Task : Asks(t)
  BY <1>1, <1>3, AsksKeepsOutcome
<1>4. ASSUME NEW c \in Consumer,
             \/ TakesUp(c) \/ Works(c) \/ FailsToTell(c) \/ LetsGo(c)
             \/ \E type \in EventType : Tells(c, type)
      PROVE  OutcomeInv'
  BY <1>1, <1>4, TakesUpKeepsOutcome, WorksKeepsOutcome, LetsGoKeepsOutcome, TellsKeepsOutcome
<1> QED BY <1>2, <1>3, <1>4, StepKinds

\* However tasks end, are cancelled, or are lost, OutcomeInv holds.
THEOREM OutcomeInvariant == Spec => []OutcomeInv
BY InitOutcome, NextOutcome, InductiveInvariant, PTL DEF Spec

-----------------------------------------------------------------------------
(* The theorems.                                                           *)

\* On no channel is anything published after DONE, nor after ERROR anything but another
\* ERROR, whichever consumers crash and whichever PUBLISH loses its reply.
THEOREM OutcomesAreFinal == Spec => []OutcomeIsFinal
<1>1. OutcomeInv => OutcomeIsFinal
  BY DEF OutcomeInv
<1> QED BY <1>1, OutcomeInvariant, PTL

\* No task is acknowledged whose listeners have not been told how it ended, but for a
\* PUBLISH of that event that raised.
THEOREM AckedTasksAreReported == Spec => []AckedMeansReported
<1>1. OutcomeInv => AckedMeansReported
  BY DEF OutcomeInv
<1> QED BY <1>1, OutcomeInvariant, PTL

\* A task that has ended makes no more tool calls and takes no more results, with any number
\* of consumers.
THEOREM NothingIsDoneAfterTheEnd == Spec => NothingAfterTheEnd
<1> DEFINE Quiet == \A t \in Task : Ended(t) =>
                      /\ issued'[t] = issued[t]
                      /\ \A a \in answers' \ answers : a.call.task # t
<1>1. IInv /\ OutcomeInv /\ [Next]_vars => Quiet
  <2> SUFFICES ASSUME IInv, OutcomeInv, Next, NEW t \in Task, Ended(t)
               PROVE  /\ issued'[t] = issued[t]
                      /\ \A a \in answers' \ answers : a.call.task # t
    BY DEF vars, sharedVars, historyVars
  <2> USE DEF sharedVars, streamVars, historyVars
  <2>1. ASSUME NEW c \in Consumer, pc[c] \in Undecided PROVE CurrentTask(c) # t
    BY <2>1 DEF OutcomeInv, ConsumerOutcome
  <2>2. issued \in [Task -> 0 .. MaxCalls]
    BY DEF IInv, TypeOK, SharedTypeOK
  <2>3. CASE InferenceNext
    <3>1. PICK c \in Consumer : ProviderStep(c) \/ InferenceStep(c) \/ InferenceFailure(c)
      BY <2>3 DEF InferenceNext
    <3>2. CASE PushToolCall(c)
      <4>1. CurrentTask(c) # t
        BY <2>1, <3>2 DEF PushToolCall, Goto, Undecided, TryBlock
      <4> QED BY <2>2, <3>2, <4>1 DEF PushToolCall
    <3>3. CASE AckToolResult(c)
      <4>1. CurrentTask(c) # t
        BY <2>1, <3>3 DEF AckToolResult, Undecided, TryBlock
      <4> QED BY <3>3, <4>1 DEF AckToolResult, CurrentCall
    <3>4. CASE ~PushToolCall(c) /\ ~AckToolResult(c)
      BY <3>1, <3>4 DEF ProviderStep, InferenceStep, InferenceFailure, ReceiveChunk, EndTurn,
         ProviderFails, RequestTools, ReadTask, CheckCancel, DeleteCancelKey, PublishCancelled,
         ReadToolResult, ReadTimeout, DiscardResult, PublishDone, PublishError, AckTask,
         PublishCancelledReplyLost, FaultInTry, FaultInPublish, CrashConsumer
    <3> QED BY <3>2, <3>3, <3>4
  <2>4. CASE ClientNext
    BY <2>4 DEF ClientNext, PublishTask, Cancel
  <2>5. CASE RunnerNext
    BY <2>5 DEF RunnerNext, RunnerStep, ReadToolCall, SetLease, BridgeExecute, WriteToolResult,
       DeleteLease, AckToolCall, RunnerFault, LeaseExpires, CrashRunner
  <2>6. CASE UntrustedNext
    BY <2>6 DEF UntrustedNext, UntrustedStep, ReadUntrustedCall, RunEphemeral,
       WriteUntrustedResult, AckUntrusted, LeaveUnacked, CrashController, StartController
  <2> QED BY <2>3, <2>4, <2>5, <2>6 DEF Next
<1>2. IInv /\ OutcomeInv /\ [Next]_vars => [Quiet]_vars
  BY <1>1
<1> QED BY <1>2, InductiveInvariant, OutcomeInvariant, PTL DEF Spec, NothingAfterTheEnd

-----------------------------------------------------------------------------
(* The life cycle.  Where a task is in its life is read off the log, the   *)
(* cursor, what has been published, and the consumers' hands (PhaseOf).  A *)
(* step moves the one task it is about and leaves the others: publishing   *)
(* queues it, XREADGROUP starts it, the PUBLISH of its outcome finishes    *)
(* it, and a consumer that lets go of it before that loses it.  Consumers  *)
(* hold different tasks, so that one that is idle is a free slot.          *)

phases == [t \in Task |-> PhaseOf(t)]
queue == SubSeq(inbound.log, inbound.cursor + 1, Len(inbound.log))

\* Fewer values than elements of a finite set are taken by a function on all but one of them.
LEMMA FreeSlot ==
  ASSUME NEW S, IsFiniteSet(S), NEW c \in S, NEW f, NEW R,
         \A x \in R : \E d \in S \ {c} : f[d] = x
  PROVE  Cardinality(R) < Cardinality(S)
<1>1. /\ IsFiniteSet(S \ {c}) /\ Cardinality(S \ {c}) = Cardinality(S) - 1
      /\ Cardinality(S) \in Nat
  BY FS_RemoveElement, FS_CardinalityType
<1> DEFINE D == { d \in S \ {c} : f[d] \in R }
           g == [d \in D |-> f[d]]
<1>2. IsFiniteSet(D) /\ Cardinality(D) <= Cardinality(S \ {c}) /\ Cardinality(D) \in Nat
  <2>1. D \in SUBSET (S \ {c})
    OBVIOUS
  <2> HIDE DEF D
  <2> QED BY <1>1, <2>1, FS_Subset, FS_CardinalityType
<1>3. g \in Surjection(D, R)
  BY DEF Surjection
<1> HIDE DEF D, g
<1>4. IsFiniteSet(R) /\ Cardinality(R) <= Cardinality(D) /\ Cardinality(R) \in Nat
  BY <1>2, <1>3, FS_Surjection, FS_CardinalityType
<1> QED BY <1>1, <1>2, <1>4

-----------------------------------------------------------------------------
(* Where a task is in its life.                                            *)

LEMMA InHand ==
  ASSUME TypeOK, ConsumerInv, NEW c \in Consumer, pc[c] # "idle"
  PROVE  /\ CurrentTask(c) \in Task
         /\ Added(inbound, CurrentTask(c))
         /\ ~Unread(inbound, CurrentTask(c))
         /\ Held(CurrentTask(c))
<1>1. /\ entry[c] \in 1 .. Len(inbound.log) /\ entry[c] <= inbound.cursor /\ entry[c] # 0
      /\ CurrentTask(c) \in Task
  BY CurrentTaskType, PendingEntry DEF TypeOK, SharedTypeOK
<1>2. inbound.cursor \in Nat /\ Len(inbound.log) \in Nat
  BY StreamParts DEF TypeOK, SharedTypeOK
<1>3. ~Unread(inbound, CurrentTask(c))
  BY <1>1, <1>2 DEF ConsumerInv, NoDuplicates, Unread, CurrentTask
<1> QED BY <1>1, <1>3 DEF Added, Held, CurrentTask

\* Only a consumer at work holds a task.
LEMMA HeldByOne ==
  ASSUME ConsumerInv, NEW t \in Task, Held(t)
  PROVE  \E c \in Consumer : pc[c] # "idle" /\ CurrentTask(c) = t
BY DEF ConsumerInv, ConsumerOK, Held

LEMMA PhaseKept ==
  ASSUME NEW t \in Task,
         \A kind \in Terminal : Published(t, kind)' <=> Published(t, kind),
         Added(inbound, t)' <=> Added(inbound, t),
         Unread(inbound, t)' <=> Unread(inbound, t),
         Held(t)' <=> Held(t)
  PROVE  PhaseOf(t)' = PhaseOf(t)
BY DEF PhaseOf, Terminal

LEMMA PhaseMoves ==
  ASSUME NEW t \in Task, NEW from, NEW to, PhaseOf(t) = from, PhaseOf(t)' = to,
         \A u \in Task : u # t => PhaseOf(u)' = PhaseOf(u)
  PROVE  Lifecycle!Move(t, from, to)
BY DEF Lifecycle!Move

-----------------------------------------------------------------------------
(* The steps.                                                              *)

\* A step that publishes no outcome, with log and hands as before, is no step of a life.
LEMMA StutterStep ==
  ASSUME UNCHANGED << entry, inbound >>,
         \A t \in Task : \A kind \in Terminal : Published(t, kind)' <=> Published(t, kind)
  PROVE  UNCHANGED << phases, queue >>
<1>1. \A t \in Task : (Held(t)' <=> Held(t))
  BY DEF Held, CurrentTask
<1>2. \A t \in Task : PhaseOf(t)' = PhaseOf(t)
  BY <1>1, PhaseKept DEF Added, Unread
<1> QED BY <1>2 DEF phases, queue

LEMMA AsksIsQueue ==
  ASSUME TypeOK, ConsumerInv, OutcomeInv, NEW t \in Task, Asks(t)
  PROVE  Lifecycle!Queue(t)
<1>1. /\ inbound \in Stream(Task) /\ inbound.log \in Seq(Task) /\ Len(inbound.log) \in Nat
      /\ inbound.cursor \in Nat /\ inbound.cursor <= Len(inbound.log)
      /\ inbound' = XADD(inbound, t) /\ ~Added(inbound, t)
      /\ UNCHANGED << pc, entry, events >>
  BY StreamParts DEF TypeOK, SharedTypeOK, Asks
<1>2. /\ inbound'.log = Append(inbound.log, t) /\ inbound'.cursor = inbound.cursor
      /\ Len(inbound'.log) = Len(inbound.log) + 1
      /\ \A i \in 1 .. Len(inbound.log) : inbound'.log[i] = inbound.log[i]
      /\ inbound'.log[Len(inbound.log) + 1] = t
  <2>1. inbound'.log = Append(inbound.log, t) /\ inbound'.cursor = inbound.cursor
    BY <1>1, XADDStream
  <2> QED BY <1>1, <2>1, AppendProperties
<1>3. ASSUME NEW u \in Task, u # t
      PROVE  /\ Added(inbound, u)' <=> Added(inbound, u)
             /\ Unread(inbound, u)' <=> Unread(inbound, u)
  BY <1>1, <1>2, <1>3 DEF Added, Unread
<1>4. ASSUME NEW u \in Task PROVE Held(u)' <=> Held(u)
  <2>1. \A c \in Consumer : entry[c] # 0 => CurrentTask(c)' = CurrentTask(c)
    <3>1. ASSUME NEW c \in Consumer, entry[c] # 0 PROVE entry[c] \in 1 .. Len(inbound.log)
      BY <3>1, CurrentTaskType DEF ConsumerInv, ConsumerOK
    <3> QED BY <1>1, <1>2, <3>1 DEF CurrentTask
  <2> QED BY <1>1, <2>1 DEF Held
<1>5. \A u \in Task : \A kind \in Terminal : Published(u, kind)' <=> Published(u, kind)
  BY <1>1 DEF Published
<1>6. \A u \in Task : u # t => PhaseOf(u)' = PhaseOf(u)
  BY <1>3, <1>4, <1>5, PhaseKept
<1>7. ~Ended(t)
  BY <1>1 DEF OutcomeInv, Delivered, Added
<1>8. PhaseOf(t) = "new"
  BY <1>1, <1>7 DEF PhaseOf, Ended, Terminal
<1>9. PhaseOf(t)' = "queued"
  <2>1. Added(inbound, t)' /\ Unread(inbound, t)'
    BY <1>1, <1>2 DEF Added, Unread
  <2> QED BY <1>5, <1>7, <2>1 DEF PhaseOf, Ended, Terminal
<1>10. Lifecycle!Move(t, "new", "queued")
  BY <1>6, <1>8, <1>9, PhaseMoves
<1>11. SubSeq(inbound'.log, inbound'.cursor + 1, Len(inbound'.log))
         = Append(SubSeq(inbound.log, inbound.cursor + 1, Len(inbound.log)), t)
  BY <1>1, QueueAfterAdding
<1> QED BY <1>10, <1>11 DEF Lifecycle!Queue

LEMMA TakesUpIsStart ==
  ASSUME TypeOK, ConsumerInv, OutcomeInv, NEW c \in Consumer, TakesUp(c)
  PROVE  Lifecycle!Start
<1>1. /\ inbound \in Stream(Task) /\ HasUnread(inbound) /\ inbound' = XREADGROUP(inbound)
      /\ UNCHANGED events /\ entry \in [Consumer -> Nat]
      /\ pc[c] = "idle" /\ entry' = [entry EXCEPT ![c] = NextId(inbound)]
  BY DEF TypeOK, SharedTypeOK, InferenceTypeOK, TakesUp
<1>2. /\ inbound'.log = inbound.log /\ inbound'.cursor = NextId(inbound)
      /\ NextId(inbound) \in 1 .. Len(inbound.log) /\ NextId(inbound) # 0
      /\ NextId(inbound) = inbound.cursor + 1
      /\ inbound.cursor \in Nat /\ Len(inbound.log) \in Nat
  BY <1>1, XREADGROUPStream, StreamParts DEF NextId
<1>3. PICK t \in Task : t = inbound.log[NextId(inbound)]
  BY <1>1, XREADGROUPStream
<1>4. \A i \in 1 .. Len(inbound.log) : inbound.log[i] = t => i = inbound.cursor + 1
  BY <1>2, <1>3 DEF ConsumerInv, NoDuplicates
<1>5. Added(inbound, t) /\ Unread(inbound, t) /\ ~Delivered(t)
  BY <1>2, <1>3, <1>4 DEF Added, Unread, Delivered
<1>6. Added(inbound, t)' /\ ~Unread(inbound, t)'
  BY <1>2, <1>3, <1>4 DEF Added, Unread
<1>7. ~Ended(t)
  BY <1>5 DEF OutcomeInv
<1>8. entry[c] = 0
  BY <1>1 DEF ConsumerInv, ConsumerOK
<1>9. Held(t)'
  BY <1>1, <1>2, <1>3 DEF Held, CurrentTask
<1>10. \A u \in Task : \A kind \in Terminal : Published(u, kind)' <=> Published(u, kind)
  BY <1>1 DEF Published
<1>11. ASSUME NEW u \in Task, u # t PROVE PhaseOf(u)' = PhaseOf(u)
  <2>1. Added(inbound, u)' <=> Added(inbound, u)
    BY <1>2 DEF Added
  <2>2. Unread(inbound, u)' <=> Unread(inbound, u)
    BY <1>2, <1>3, <1>11 DEF Unread
  <2>3. Held(u)' <=> Held(u)
    BY <1>1, <1>2, <1>3, <1>8, <1>11 DEF Held, CurrentTask
  <2> QED BY <1>10, <2>1, <2>2, <2>3, PhaseKept
<1>12. PhaseOf(t) = "queued"
  BY <1>5, <1>7 DEF PhaseOf, Ended, Terminal
<1>13. PhaseOf(t)' = "running"
  BY <1>6, <1>7, <1>9, <1>10 DEF PhaseOf, Ended, Terminal
<1>14. Lifecycle!Move(t, "queued", "running")
  BY <1>11, <1>12, <1>13, PhaseMoves
<1>15. /\ SubSeq(inbound.log, inbound.cursor + 1, Len(inbound.log)) # << >>
       /\ Head(SubSeq(inbound.log, inbound.cursor + 1, Len(inbound.log))) = t
       /\ SubSeq(inbound'.log, inbound'.cursor + 1, Len(inbound'.log))
            = Tail(SubSeq(inbound.log, inbound.cursor + 1, Len(inbound.log)))
  BY <1>1, <1>3, QueueAfterReading
<1>16. Cardinality(Lifecycle!Running) < Cardinality(Consumer)
  <2> DEFINE f == [e \in Consumer |-> CurrentTask(e)]
             R == Lifecycle!Running
  <2>1. ASSUME NEW u \in R PROVE \E d \in Consumer \ {c} : f[d] = u
    <3>1. u \in Task /\ PhaseOf(u) = "running"
      BY <2>1 DEF Lifecycle!Running
    <3>2. Held(u)
      BY <3>1 DEF PhaseOf
    <3> QED BY <1>8, <3>2 DEF Held
  <2>2. IsFiniteSet(Consumer) /\ c \in Consumer
    BY ConsumerAssumption
  <2> HIDE DEF f, R
  <2>3. Cardinality(R) < Cardinality(Consumer)
    BY <2>1, <2>2, FreeSlot
  <2> QED BY <2>3 DEF R
<1>17. Lifecycle!Cardinality(Lifecycle!Running) = Cardinality(Lifecycle!Running)
  BY DEF Lifecycle!Cardinality, Cardinality
<1>18. Lifecycle!Move(Head(SubSeq(inbound.log, inbound.cursor + 1, Len(inbound.log))),
                      "queued", "running")
  BY <1>14, <1>15, Zenon DEF Lifecycle!Move
<1> QED BY <1>15, <1>16, <1>17, <1>18, Zenon DEF Lifecycle!Start

LEMMA TellsIsFinish ==
  ASSUME TypeOK, ConsumerInv, OutcomeInv, NEW c \in Consumer, NEW type \in EventType,
         Tells(c, type)
  PROVE  UNCHANGED << phases, queue >> \/ \E t \in Task : Lifecycle!Finish(t)
<1>1. events \in [Task -> Seq(EventType)] /\ pc[c] # "idle"
      /\ UNCHANGED << entry, inbound >> /\ Publish(CurrentTask(c), type)
  BY DEF TypeOK, SharedTypeOK, Tells
<1>2. PICK t \in Task : t = CurrentTask(c)
  BY <1>1, CurrentTaskType
<1>3. Added(inbound, t) /\ ~Unread(inbound, t) /\ Held(t)
  BY <1>1, <1>2, InHand
<1>4. /\ \A u \in Task : u # t => events'[u] = events[u]
      /\ \A kind \in Terminal : Published(t, kind)' <=> Published(t, kind) \/ kind = type
  BY <1>1, <1>2, PublishEffect
<1>5. CASE type \notin Terminal \/ Published(t, type)
  <2>1. \A u \in Task : \A kind \in Terminal : Published(u, kind)' <=> Published(u, kind)
    BY <1>4, <1>5 DEF Published
  <2> QED BY <1>1, <2>1, StutterStep
<1>6. CASE type \in Terminal /\ ~Published(t, type)
  <2>1. ~Ended(t)
    BY <1>2, <1>6 DEF Tells, OutcomeInv, ConsumerOutcome, Undecided, TryBlock, Ended, Terminal
  <2>2. PhaseOf(t) = "running"
    BY <1>3, <2>1 DEF PhaseOf, Ended, Terminal
  <2>3. PhaseOf(t)' = IF type = "DONE" THEN "done" ELSE "failed"
    BY <1>4, <1>6, <2>1 DEF PhaseOf, Ended, Terminal
  <2>4. ASSUME NEW u \in Task, u # t PROVE PhaseOf(u)' = PhaseOf(u)
    <3>1. \A kind \in Terminal : Published(u, kind)' <=> Published(u, kind)
      BY <1>4, <2>4 DEF Published
    <3>2. Held(u)' <=> Held(u)
      BY <1>1 DEF Held, CurrentTask
    <3> QED BY <1>1, <3>1, <3>2, PhaseKept DEF Added, Unread
  <2>5. Lifecycle!Move(t, "running", IF type = "DONE" THEN "done" ELSE "failed")
    BY <2>2, <2>3, <2>4, PhaseMoves
  <2>6. Lifecycle!Finish(t)
    BY <1>1, <2>5 DEF Lifecycle!Finish
  <2> QED BY <2>6
<1> QED BY <1>5, <1>6

LEMMA LetsGoIsFinish ==
  ASSUME TypeOK, ConsumerInv, OutcomeInv, NEW c \in Consumer, LetsGo(c)
  PROVE  UNCHANGED << phases, queue >> \/ \E t \in Task : Lifecycle!Finish(t)
<1>1. /\ pc[c] # "idle" /\ entry' = [entry EXCEPT ![c] = 0] /\ entry \in [Consumer -> Nat]
      /\ UNCHANGED events /\ inbound \in Stream(Task)
  BY DEF TypeOK, SharedTypeOK, InferenceTypeOK, LetsGo
<1>2. inbound'.log = inbound.log /\ inbound'.cursor = inbound.cursor
  BY <1>1, XACKStream DEF LetsGo
<1>3. PICK t \in Task : t = CurrentTask(c)
  BY <1>1, CurrentTaskType
<1>4. Added(inbound, t) /\ ~Unread(inbound, t) /\ Held(t)
  BY <1>1, <1>3, InHand
<1>5. \A u \in Task : \A kind \in Terminal : Published(u, kind)' <=> Published(u, kind)
  BY <1>1 DEF Published
<1>6. \A u \in Task : /\ Added(inbound, u)' <=> Added(inbound, u)
                      /\ Unread(inbound, u)' <=> Unread(inbound, u)
  BY <1>2 DEF Added, Unread
<1>7. ASSUME NEW u \in Task, u # t PROVE Held(u)' <=> Held(u)
  BY <1>1, <1>2, <1>3, <1>7 DEF Held, CurrentTask
<1>8. ~Held(t)'
  <2>1. ASSUME NEW d \in Consumer, entry'[d] # 0, inbound'.log[entry'[d]] = t PROVE FALSE
    <3>1. d # c /\ entry[d] # 0 /\ CurrentTask(d) = t
      BY <1>1, <1>2, <2>1 DEF CurrentTask
    <3>2. pc[d] # "idle"
      BY <3>1 DEF ConsumerInv, ConsumerOK
    <3> QED BY <1>1, <1>3, <3>1, <3>2, OneConsumerPerTask
  <2> QED BY <2>1 DEF Held, CurrentTask
<1>9. \A u \in Task : u # t => PhaseOf(u)' = PhaseOf(u)
  BY <1>5, <1>6, <1>7, PhaseKept
<1>10. CASE Ended(t)
  <2>1. PhaseOf(t)' = PhaseOf(t)
    BY <1>5, <1>10 DEF PhaseOf, Ended, Terminal
  <2>2. \A u \in Task : PhaseOf(u)' = PhaseOf(u)
    BY <1>9, <2>1
  <2> QED BY <1>2, <2>2 DEF phases, queue
<1>11. CASE ~Ended(t)
  <2>1. PhaseOf(t) = "running"
    BY <1>4, <1>11 DEF PhaseOf, Ended, Terminal
  <2>2. PhaseOf(t)' = "lost"
    BY <1>4, <1>5, <1>6, <1>8, <1>11 DEF PhaseOf, Ended, Terminal
  <2>3. Lifecycle!Move(t, "running", "lost")
    BY <1>9, <2>1, <2>2, PhaseMoves
  <2>4. Lifecycle!Finish(t)
    BY <1>2, <2>3 DEF Lifecycle!Finish
  <2> QED BY <2>4
<1> QED BY <1>10, <1>11

-----------------------------------------------------------------------------
(* The refinement.                                                         *)

LEMMA InitRefines == Init => Lifecycle!Init
<1> SUFFICES ASSUME Init PROVE Lifecycle!Init
  OBVIOUS
<1>1. inbound = NewStream /\ events = [t \in Task |-> << >>]
  BY DEF Init, SharedInit
<1>2. \A t \in Task : PhaseOf(t) = "new"
  BY <1>1 DEF PhaseOf, Published, Added, NewStream
<1>3. SubSeq(inbound.log, inbound.cursor + 1, Len(inbound.log)) = << >>
  <2>1. inbound.log = << >> /\ inbound.cursor = 0 /\ Len(inbound.log) = 0
    BY <1>1 DEF NewStream
  <2> QED BY <2>1, SubSeqEmpty
<1> QED BY <1>2, <1>3 DEF Lifecycle!Init

LEMMA NextRefines ==
  IInv /\ OutcomeInv /\ [Next]_vars => [Lifecycle!Next]_<< phases, queue >>
<1> SUFFICES ASSUME IInv, OutcomeInv, [Next]_vars
             PROVE  Lifecycle!Next \/ UNCHANGED << phases, queue >>
  OBVIOUS
<1>1. TypeOK /\ ConsumerInv
  BY DEF IInv
<1>2. CASE UNCHANGED outcomeVars
  <2>1. UNCHANGED << entry, inbound, events >>
    BY <1>2 DEF outcomeVars
  <2> QED BY <2>1, StutterStep DEF Published
<1>3. ASSUME NEW t \in Task, Asks(t) PROVE Lifecycle!Next
  BY <1>1, <1>3, AsksIsQueue DEF Lifecycle!Next
<1>4. ASSUME NEW c \in Consumer,
             \/ TakesUp(c) \/ Works(c) \/ FailsToTell(c) \/ LetsGo(c)
             \/ \E type \in EventType : Tells(c, type)
      PROVE  Lifecycle!Next \/ UNCHANGED << phases, queue >>
  <2>1. CASE TakesUp(c)
    BY <1>1, <2>1, TakesUpIsStart DEF Lifecycle!Next
  <2>2. CASE Works(c) \/ FailsToTell(c)
    <3>1. UNCHANGED << entry, inbound, events >>
      BY <2>2 DEF Works, FailsToTell
    <3> QED BY <3>1, StutterStep DEF Published
  <2>3. CASE LetsGo(c)
    BY <1>1, <2>3, LetsGoIsFinish DEF Lifecycle!Next
  <2>4. CASE \E type \in EventType : Tells(c, type)
    BY <1>1, <2>4, TellsIsFinish DEF Lifecycle!Next
  <2> QED BY <1>4, <2>1, <2>2, <2>3, <2>4
<1> QED BY <1>2, <1>3, <1>4, StepKinds

\* Every behaviour of the pipeline is one of the abstract life cycle: each task is started
\* at most once, in the order of publication, by one of as many slots as there are
\* consumers, and ends at most once; a lost one stays lost.
THEOREM PipelineImplementsLifecycle == Spec => ImplementsLifecycle
<1>1. Init => Lifecycle!Init
  BY InitRefines
<1>2. IInv /\ OutcomeInv /\ [Next]_vars
        => [Lifecycle!Next]_<< [t \in Task |-> PhaseOf(t)],
                               SubSeq(inbound.log, inbound.cursor + 1, Len(inbound.log)) >>
  BY NextRefines DEF phases, queue
<1> QED BY <1>1, <1>2, InductiveInvariant, OutcomeInvariant, PTL
        DEF Spec, ImplementsLifecycle, Lifecycle!Spec
=============================================================================
