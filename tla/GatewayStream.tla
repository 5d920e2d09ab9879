---------------------------- MODULE GatewayStream ----------------------------
(***************************************************************************)
(* One SSE request to the gateway.  A task the gateway creates (POST       *)
(* /v1/tasks with stream) is subscribed to before it is published; a task  *)
(* an app created (GET /v1/tasks/{id}/stream) is subscribed to some time   *)
(* later.  A goroutine of SubscribeSSE moves the events from the client    *)
(* library into a Go channel, and streamSSE writes them to the client.     *)
(*                                                                         *)
(* gpc is where the handler is: new, subscribe, publish, stream, returned; *)
(* rpc where the goroutine is: off, receive, send, closed.                 *)
(***************************************************************************)
EXTENDS TaskEvents

CONSTANT ChanSize   \* capacity of the Go channel (16 in the code)

ASSUME ChanAssumption == ChanSize \in Nat \ {0}

VARIABLES
  gpc, rpc,
  held,     \* the event the goroutine is about to send on, 0 when none
  ch,       \* the Go channel; it is closed when the goroutine is
  gone,     \* the client has disconnected
  written   \* events written to the client

gatewayVars == << gpc, rpc, held, ch, gone, written >>

GatewayTypeOK ==
  /\ gpc \in {"new", "subscribe", "publish", "stream", "returned"}
  /\ rpc \in {"off", "receive", "send", "closed"}
  /\ held \in 0 .. MaxEvents
  /\ ch \in Seq(1 .. MaxEvents) /\ Len(ch) <= ChanSize
  /\ gone \in BOOLEAN
  /\ written \in Seq(1 .. MaxEvents)
  /\ rpc \in {"off", "closed"} => ~subscribed["gateway"]

GatewayInit ==
  /\ gpc = "new" /\ rpc = "off"
  /\ held = 0 /\ ch = << >>
  /\ gone = FALSE
  /\ written = << >>

GatewayGoto(from, to) == gpc = from /\ gpc' = to

\* net/http cancels the request's context when the handler returns or the client goes.
ContextDone == gone \/ gpc = "returned"

\* A client sends the request; for an app's task it needs the task's id.
OpenStream ==
  /\ GatewayGoto("new", "subscribe")
  /\ owner = "app" => queued
  /\ UNCHANGED << rpc, held, ch, gone, written, eventsVars >>

\* Mutant: the confirmation of the subscription is not waited for; it comes later.
SubscribeWithoutReceive ==
  /\ GatewayGoto("subscribe", IF owner = "gateway" THEN "publish" ELSE "stream")
  /\ rpc' = "receive"
  /\ UNCHANGED << held, ch, gone, written, eventsVars >>

\* SubscribeSSE returns after Redis has confirmed the subscription.
SubscribeSSE ==
  /\ GatewayGoto("subscribe", IF owner = "gateway" THEN "publish" ELSE "stream")
  /\ Subscribe("gateway")
  /\ rpc' = "receive"
  /\ UNCHANGED << held, ch, gone, written, failures >>

SubscribeFails ==
  /\ GatewayGoto("subscribe", "returned")
  /\ CountEventFailure
  /\ UNCHANGED << rpc, held, ch, gone, written, owner, queued, log, subscribed, inbox, missed,
                  lost >>

PublishTask ==
  /\ GatewayGoto("publish", "stream")
  /\ queued' = TRUE
  /\ UNCHANGED << rpc, held, ch, gone, written, owner, log, subscribed, inbox, missed, lost,
                  failures >>

\* XADD fails, or takes effect without a reply.
PublishTaskFails ==
  /\ GatewayGoto("publish", "returned")
  /\ queued' \in BOOLEAN
  /\ CountEventFailure
  /\ UNCHANGED << rpc, held, ch, gone, written, owner, log, subscribed, inbox, missed, lost >>

\* streamSSE writes an event, and returns after the outcome.
WriteEvent ==
  /\ ch # << >>
  /\ GatewayGoto("stream", IF log[Head(ch)] \in Terminal THEN "returned" ELSE "stream")
  /\ written' = Append(written, Head(ch))
  /\ ch' = Tail(ch)
  /\ UNCHANGED << rpc, held, gone, eventsVars >>

\* The channel is closed and drained.
StreamCloses ==
  /\ rpc = "closed"
  /\ ch = << >>
  /\ GatewayGoto("stream", "returned")
  /\ UNCHANGED << rpc, held, ch, gone, written, eventsVars >>

ClientDisconnects ==
  /\ gpc \notin {"new", "returned"}
  /\ ~gone
  /\ gone' = TRUE
  /\ UNCHANGED << gpc, rpc, held, ch, written, eventsVars >>

-----------------------------------------------------------------------------
(* The goroutine.                                                          *)

ReceiveMessage ==
  /\ rpc = "receive"
  /\ ReadInbox("gateway")
  /\ rpc' = "send"
  /\ held' = Head(inbox["gateway"])
  /\ UNCHANGED << gpc, ch, gone, written, owner, queued, log, subscribed, missed, lost,
                  failures >>

\* Mutant: an event is dropped when the channel is full.
SendOrDrop ==
  /\ rpc = "send"
  /\ ch' = IF Len(ch) < ChanSize THEN Append(ch, held) ELSE ch
  /\ rpc' = "receive"
  /\ held' = 0
  /\ UNCHANGED << gpc, gone, written, eventsVars >>

\* The channel is full until streamSSE takes an event.
SendEvent ==
  /\ rpc = "send"
  /\ Len(ch) < ChanSize
  /\ ch' = Append(ch, held)
  /\ rpc' = "receive"
  /\ held' = 0
  /\ UNCHANGED << gpc, gone, written, eventsVars >>

\* Mutant: the client library's subscription is not closed.
ReturnWithoutClose ==
  /\ rpc \in {"receive", "send"}
  /\ ContextDone
  /\ rpc' = "closed"
  /\ held' = 0
  /\ UNCHANGED << gpc, ch, gone, written, eventsVars >>

\* Mutant: the send is no select.
ReturnOnlyFromReceive ==
  /\ rpc = "receive"
  /\ ContextDone
  /\ rpc' = "closed"
  /\ held' = 0
  /\ Unsubscribe("gateway")
  /\ UNCHANGED << gpc, ch, gone, written >>

\* Both selects return on ctx.Done: the deferred calls end the subscription and
\* close the channel.
ReturnOnContextDone ==
  /\ rpc \in {"receive", "send"}
  /\ ContextDone
  /\ rpc' = "closed"
  /\ held' = 0
  /\ Unsubscribe("gateway")
  /\ UNCHANGED << gpc, ch, gone, written >>

HandlerStep == SubscribeSSE \/ PublishTask \/ WriteEvent \/ StreamCloses
GoroutineStep == ReceiveMessage \/ SendEvent \/ ReturnOnContextDone

GatewayNext ==
  \/ HandlerStep \/ GoroutineStep
  \/ OpenStream \/ SubscribeFails \/ PublishTaskFails \/ ClientDisconnects
=============================================================================
