---------------------------- MODULE TaskPipeline ----------------------------
(***************************************************************************)
(* Clients, inference consumers, resource runners and the platform         *)
(* controller's untrusted runner over the shared streams.                  *)
(***************************************************************************)
EXTENDS Inference, ResourceRunner, UntrustedRunner

\* The replicas of the controller that share its group.
ASSUME ConsumerAssumption == IsFiniteSet(Consumer)

vars == << sharedVars, inferenceVars, runnerVars, untrustedVars >>

Init == SharedInit /\ InferenceInit /\ RunnerInit /\ UntrustedInit

Next ==
  \/ ClientNext /\ UNCHANGED << inferenceVars, runnerVars, untrustedVars >>
  \/ InferenceNext /\ UNCHANGED << runnerVars, untrustedVars >>
  \/ RunnerNext /\ UNCHANGED << inferenceVars, untrustedVars >>
  \/ UntrustedNext /\ UNCHANGED << inferenceVars, runnerVars >>

Spec == Init /\ [][Next]_vars

TypeOK == SharedTypeOK /\ InferenceTypeOK /\ RunnerTypeOK /\ UntrustedTypeOK

-----------------------------------------------------------------------------
(* Safety.                                                                 *)

\* A tool call of a task that came from an app, or was declared UNTRUSTED, never
\* runs on the host: not even when the app writes TRUSTED into the task it
\* publishes.  Calls of the other tasks never run in a container.
HostsRespectTrust ==
  \A c \in Call :
    executions[c][IF c.task \in AppTask \cup DeclaredUntrusted
                  THEN "bridge" ELSE "container"] = 0

\* Whatever crashes, and whichever Redis command raises, no tool call is executed
\* twice: no consumer takes a pending entry again, and none retries a step.
ExecutedAtMostOnce ==
  \A c \in Call : executions[c]["bridge"] + executions[c]["container"] <= 1

\* Listeners on sse:{task} stop at the first DONE or ERROR.  That event is the
\* outcome: after DONE nothing is published, and after ERROR at most another ERROR.
OutcomeIsFinal ==
  \A t \in Task : \A i, j \in 1 .. Len(events[t]) :
    i < j /\ events[t][i] \in Terminal
      => events[t][i] = "ERROR" /\ events[t][j] = "ERROR"

\* An acknowledged task has told its listeners how it ended, unless it was the
\* PUBLISH of that very event that raised.
AckedMeansReported ==
  \A t \in Task : Acked(inbound, t) => Ended(t) \/ t \in unreported

\* What the model is given as the result of a call is a result some runner wrote
\* for the same task, for that call or an earlier one.
AnswersBelongToTheTask ==
  \A a \in answers :
    /\ a.source.task = a.call.task
    /\ a.source.seq <= a.call.seq
    /\ Added(results, a.source)

\* No result is given to the model as the result of two calls.
ResultUsedOnce ==
  \A a, b \in answers : a.source = b.source => a = b

\* Once a task has ended, the controller pushes no tool call for it and feeds no
\* result to its conversation: in particular after "cancelled".
NothingAfterTheEnd ==
  [][ \A t \in Task : Ended(t) =>
        /\ issued'[t] = issued[t]
        /\ \A a \in answers' \ answers : a.call.task # t ]_vars

-----------------------------------------------------------------------------
(* The pipeline implements the life cycle of a task.                       *)

Held(t) == \E c \in Consumer : entry[c] # 0 /\ CurrentTask(c) = t

PhaseOf(t) ==
  IF Published(t, "DONE") THEN "done"
  ELSE IF Published(t, "ERROR") THEN "failed"
  ELSE IF ~Added(inbound, t) THEN "new"
  ELSE IF Unread(inbound, t) THEN "queued"
  ELSE IF Held(t) THEN "running"
  ELSE "lost"

Lifecycle == INSTANCE TaskLifecycle WITH
  Slots <- Cardinality(Consumer),
  phase <- [t \in Task |-> PhaseOf(t)],
  order <- SubSeq(inbound.log, inbound.cursor + 1, Len(inbound.log))

\* Every task is started at most once, in the order of publication, and ends at
\* most once; a task lost by a crash or by a failed PUBLISH stays lost.
ImplementsLifecycle == Lifecycle!Spec

-----------------------------------------------------------------------------
(* Liveness.  Every process keeps taking its steps as long as it is up, a  *)
(* restarted one included, and the provider's stream always goes on or     *)
(* ends.  Nothing is assumed of the clients and of failures, nor that the  *)
(* model ever stops asking for another round.                              *)

Fairness ==
  /\ \A c \in Consumer :
       /\ WF_vars(InferenceStep(c) /\ UNCHANGED << runnerVars, untrustedVars >>)
       /\ WF_vars(ProviderStep(c) /\ UNCHANGED << runnerVars, untrustedVars >>)
  /\ \A w \in Worker :
       WF_vars(RunnerStep(w) /\ UNCHANGED << inferenceVars, untrustedVars >>)
  /\ WF_vars(UntrustedStep /\ UNCHANGED << inferenceVars, runnerVars >>)

FairSpec == Spec /\ Fairness

Lost(t) == PhaseOf(t) = "lost"

\* A cancelled task ends, even if the model would ask for tools forever: the key is
\* looked at in every round, and no wait of a round is unbounded.
CancelledTaskEnds ==
  \A t \in Task : t \in cancelKey ~> Ended(t) \/ Lost(t)

\* The model of every consumer, asked often enough, ends its turn.
ModelEndsItsTurn ==
  \A c \in Consumer : SF_vars(EndTurn(c) /\ UNCHANGED << runnerVars, untrustedVars >>)

\* Whatever the runners do, a published task then ends or is lost by a failure: a
\* tool call that is never answered does not hold it up.
PublishedTaskEnds ==
  ModelEndsItsTurn => \A t \in Task : Added(inbound, t) ~> Ended(t) \/ Lost(t)

-----------------------------------------------------------------------------
(* What the documentation says and the code does not do.                   *)

\* "Wait for the result" of the call just pushed, whose call_id is "unique per
\* invocation": what is fed back for a call is the result of that call.
AnswersAreForTheCall == \A a \in answers : a.source = a.call

\* "not ACKed, will retry on restart": a call that was left pending by an exception
\* is taken up again once the controller has been restarted.
UnackedIsRetriedOnRestart ==
  \A call \in Call :
    [](upc = "idle" /\ Pending(untrusted, call)
         => [](upc = "down" => <>(uentry # 0 /\ UntrustedCall = call)))
=============================================================================
