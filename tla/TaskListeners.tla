---------------------------- MODULE TaskListeners ----------------------------
(***************************************************************************)
(* One task, the controller that publishes its events, and its listeners:  *)
(* an SSE request to the gateway, and the SDK when an app owns the task.   *)
(***************************************************************************)
EXTENDS GatewayStream, SdkStream

listenVars == << eventsVars, gatewayVars, sdkVars >>

ListenInit == EventsInit /\ GatewayInit /\ SdkInit

Listening(l) == IF l = "gateway" THEN rpc \in {"receive", "send"} ELSE spc = "listen"

Network ==
  \/ \E type \in EventType : PublishEvent(type)
  \/ \E l \in Listener : ConnectionBreaks(l) \/ ConnectionIsRestored(l, Listening(l))

ListenNext ==
  \/ (Network /\ UNCHANGED << gatewayVars, sdkVars >>)
  \/ (GatewayNext /\ UNCHANGED sdkVars)
  \/ (SdkNext /\ UNCHANGED gatewayVars)

ListenSpec == ListenInit /\ [][ListenNext]_listenVars

\* The handler, the goroutine and the app keep going; nothing is assumed of the
\* client, of the controller, of failures, nor that a broken connection comes back.
ListenFairSpec ==
  /\ ListenSpec
  /\ WF_listenVars(HandlerStep /\ UNCHANGED sdkVars)
  /\ WF_listenVars(GoroutineStep /\ UNCHANGED sdkVars)
  /\ WF_listenVars(SdkStep /\ UNCHANGED gatewayVars)

ListenTypeOK == EventsTypeOK /\ GatewayTypeOK /\ SdkTypeOK

-----------------------------------------------------------------------------
\* What a listener reads is a run of consecutive events that starts with the first
\* one after its subscription, unless one was lost on the way; and even then the
\* order is kept and nothing is read twice.
ReadsInOrder(events, l) ==
  /\ \A i, j \in 1 .. Len(events) : i < j => events[i] < events[j]
  /\ ~lost[l] => \A i \in 1 .. Len(events) : events[i] = missed[l] + i

EventsInOrder == ReadsInOrder(written, "gateway") /\ ReadsInOrder(read, "sdk")

\* A client of POST /v1/tasks that stays connected, on a connection to Redis that
\* does too, has every event when the stream ends: the first one, which may be
\* published before the handler gets to streamSSE, to the outcome, and no more.
CreatedStreamIsComplete ==
  owner = "gateway" /\ gpc = "returned" /\ rpc # "off" /\ ~gone /\ ~lost["gateway"] /\ failures = 0
    => HasEnded /\ written = [i \in 1 .. Outcome |-> i]

\* No subscription and no goroutine outlives its request: the client may leave at
\* any time, with events in every buffer, and the outcome may never come.
SubscriptionIsReleased ==
  gpc = "returned" ~> (~subscribed["gateway"] /\ rpc \in {"off", "closed"})

\* A stream that nothing was lost of ends when the task has: the outcome is never
\* stuck behind a full channel, and the app is told it unless it has used up its time
\* before (which the code checks first, whatever waits to be read).
OutcomeEndsTheStream ==
  /\ (gpc = "stream" /\ HasEnded /\ missed["gateway"] = 0)
        ~> (gpc = "returned" \/ lost["gateway"])
  /\ (spc = "listen" /\ HasEnded /\ missed["sdk"] = 0)
        ~> (spc \in {"ended", "timeout"} \/ lost["sdk"])

\* "No terminal event for task ... within ...s": when the SDK gives up a task of which
\* it has read all that was published since it subscribed, the task has not ended.
TimeoutMeansNoOutcome ==
  spc = "timeout" /\ Len(read) = Len(log) - missed["sdk"] => ~HasEnded
=============================================================================
