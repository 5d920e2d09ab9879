------------------------ MODULE TaskListenersProofs ------------------------
(***************************************************************************)
(* Proofs about TaskListeners, for any number of events, any size of the   *)
(* client library's buffers and of the Go channel, and any number of       *)
(* failures.                                                               *)
(***************************************************************************)
EXTENDS TaskListeners, SequenceTheorems, TLAPS

-----------------------------------------------------------------------------
(* The invariant.                                                          *)

\* Everything on its way to the client, and to the app, in the order in which it arrives.
Held == IF rpc = "send" THEN << held >> ELSE << >>
GatewayPath == written \o ch \o Held \o inbox["gateway"]
SdkPath == read \o inbox["sdk"]

\* A listener's path is in order and of the past, and as long as it is subscribed and has
\* lost nothing it leads to the last event.
Flows(path, l) ==
  /\ ReadsInOrder(path, l)
  /\ \A i \in 1 .. Len(path) : path[i] <= Len(log)
  /\ subscribed[l] /\ ~lost[l] => missed[l] + Len(path) = Len(log)

\* Where the handler is, where its goroutine is, and its subscription.
GatewayPlace ==
  /\ rpc = "send" => held # 0
  /\ gpc \in {"new", "subscribe"} => rpc = "off"
  /\ gpc \in {"publish", "stream"} => rpc # "off"
  /\ rpc = "off" => /\ written = << >> /\ ch = << >> /\ inbox["gateway"] = << >>
                    /\ ~lost["gateway"]
  /\ rpc \in {"receive", "send"} /\ ~subscribed["gateway"] => lost["gateway"]
  /\ rpc = "closed" => ContextDone

GatewayInv == Flows(GatewayPath, "gateway") /\ GatewayPlace

SdkPlace ==
  /\ spc \in {"idle", "requested"} =>
       /\ read = << >> /\ inbox["sdk"] = << >>
       /\ ~subscribed["sdk"] /\ ~lost["sdk"]
  /\ spc = "listen" /\ ~subscribed["sdk"] => lost["sdk"]

SdkInv == Flows(SdkPath, "sdk") /\ SdkPlace

\* A created task is subscribed to before its first event; the outcome is the last event
\* that is written, and the handler returns on nothing else unless something fails.
CreatedInv ==
  /\ owner = "gateway" /\ gpc \in {"new", "subscribe", "publish"} => ~queued
  /\ gpc = "publish" => owner = "gateway"
  /\ ~queued => log = << >>
  /\ owner = "gateway" => spc = "idle" /\ missed["gateway"] = 0
  /\ \A i \in 1 .. Len(written) :
       i < Len(written) \/ gpc # "returned" => log[written[i]] \notin Terminal
  /\ gpc = "returned" /\ failures = 0 /\ ~gone =>
       written # << >> /\ log[written[Len(written)]] \in Terminal

ListenInv == ListenTypeOK /\ GatewayInv /\ SdkInv /\ CreatedInv

-----------------------------------------------------------------------------
(* Sequences.                                                              *)

\* The first of t moves to the end of s.
LEMMA MoveHead ==
  ASSUME NEW S, NEW s \in Seq(S), NEW t \in Seq(S), t # << >>
  PROVE  /\ Append(s, Head(t)) \o Tail(t) = s \o t
         /\ << Head(t) >> \o Tail(t) = t
         /\ (s \o << Head(t) >>) \o Tail(t) = s \o t
<1>1. Head(t) \in S /\ Tail(t) \in Seq(S) /\ Len(Tail(t)) = Len(t) - 1 /\ Len(t) \in Nat \ {0}
      /\ Head(t) = t[1] /\ \A i \in 1 .. Len(Tail(t)) : Tail(t)[i] = t[i + 1]
  BY HeadTailProperties, EmptySeq
<1>2. << Head(t) >> \o Tail(t) = t
  <2>1. << Head(t) >> \in Seq(S) /\ Len(<< Head(t) >>) = 1
    BY <1>1
  <2>2. /\ << Head(t) >> \o Tail(t) \in Seq(S)
        /\ Len(<< Head(t) >> \o Tail(t)) = Len(t)
        /\ \A i \in 1 .. Len(t) :
             (<< Head(t) >> \o Tail(t))[i] = IF i <= 1 THEN << Head(t) >>[i] ELSE Tail(t)[i - 1]
    BY <1>1, <2>1, ConcatProperties
  <2>3. ASSUME NEW i \in 1 .. Len(t) PROVE (<< Head(t) >> \o Tail(t))[i] = t[i]
    <3>1. CASE i = 1
      BY <3>1, <2>2, <1>1
    <3>2. CASE i # 1
      <4>1. i - 1 \in 1 .. Len(Tail(t)) /\ i - 1 + 1 = i /\ ~(i <= 1)
        BY <3>2, <1>1
      <4> QED BY <4>1, <2>2, <1>1
    <3> QED BY <3>1, <3>2
  <2> QED BY <2>2, <2>3, SeqEqual
<1>3. /\ Append(s, Head(t)) \o Tail(t) = s \o t
      /\ (s \o << Head(t) >>) \o Tail(t) = s \o t
  <2>1. << Head(t) >> \in Seq(S) /\ Append(s, Head(t)) = s \o << Head(t) >>
    BY <1>1, AppendIsConcat
  <2>2. (s \o << Head(t) >>) \o Tail(t) = s \o (<< Head(t) >> \o Tail(t))
    BY <1>1, <2>1, ConcatAssociative
  <2> QED BY <1>2, <2>1, <2>2
<1>4. QED
  BY <1>2, <1>3

\* An element is added at the end.
LEMMA ConcatAppend ==
  ASSUME NEW S, NEW s \in Seq(S), NEW t \in Seq(S), NEW e \in S
  PROVE  /\ s \o Append(t, e) = Append(s \o t, e)
         /\ s \o << e >> = Append(s, e)
<1>1. /\ << e >> \in Seq(S) /\ Append(t, e) = t \o << e >>
      /\ Append(s \o t, e) = (s \o t) \o << e >> /\ Append(s, e) = s \o << e >>
      /\ s \o t \in Seq(S)
  BY AppendIsConcat, ConcatProperties
<1>2. QED
  BY <1>1, ConcatAssociative

\* The start of a path is in order when the path is.
LEMMA StartInOrder ==
  ASSUME NEW S, NEW s \in Seq(S), NEW t \in Seq(S), NEW l, ReadsInOrder(s \o t, l)
  PROVE  ReadsInOrder(s, l)
<1>1. /\ Len(s) \in Nat /\ Len(t) \in Nat /\ Len(s \o t) = Len(s) + Len(t)
      /\ \A i \in 1 .. Len(s) : i \in 1 .. Len(s \o t) /\ (s \o t)[i] = s[i]
  BY ConcatProperties
<1>2. QED
  BY <1>1 DEF ReadsInOrder

-----------------------------------------------------------------------------
(* Type correctness.                                                       *)

\* TypeInv is inductive, ListenTypeOK is not: an event that is sent on has been received.
TypeInv == ListenTypeOK /\ (rpc = "send" => held # 0)

LEMMA ListenTypeInit == ListenInit => TypeInv
<1> SUFFICES ASSUME ListenInit PROVE TypeInv
  OBVIOUS
<1>0. /\ 0 \in 0 .. MaxEvents /\ 0 \in 0 .. MaxFailures
      /\ Len(<< >>) = 0 /\ 0 <= Buffer /\ 0 <= ChanSize /\ 0 <= MaxEvents
      /\ << >> \in Seq(1 .. MaxEvents) /\ << >> \in Seq(EventType)
  BY EventsAssumption, ChanAssumption
<1>1. EventsTypeOK
  <2>1. /\ subscribed \in [Listener -> BOOLEAN] /\ lost \in [Listener -> BOOLEAN]
        /\ missed \in [Listener -> 0 .. MaxEvents]
    BY <1>0 DEF ListenInit, EventsInit
  <2>2. /\ inbox \in [Listener -> Seq(1 .. MaxEvents)]
        /\ \A l \in Listener : inbox[l] = << >>
    BY <1>0 DEF ListenInit, EventsInit
  <2> QED BY <1>0, <2>1, <2>2 DEF ListenInit, EventsInit, EventsTypeOK
<1>2. GatewayTypeOK
  BY <1>0 DEF ListenInit, EventsInit, GatewayInit, GatewayTypeOK, Listener
<1>3. SdkTypeOK
  BY DEF ListenInit, SdkInit, SdkTypeOK
<1>4. QED
  BY <1>1, <1>2, <1>3 DEF TypeInv, ListenTypeOK, ListenInit, GatewayInit

\* The parts of an inbox.
LEMMA InboxParts ==
  ASSUME EventsTypeOK, NEW l \in Listener
  PROVE  /\ inbox[l] \in Seq(1 .. MaxEvents) /\ Len(inbox[l]) \in Nat
         /\ inbox[l] # << >> => /\ Head(inbox[l]) \in 1 .. MaxEvents
                                /\ Tail(inbox[l]) \in Seq(1 .. MaxEvents)
                                /\ Len(Tail(inbox[l])) = Len(inbox[l]) - 1
BY HeadTailProperties, LenProperties DEF EventsTypeOK

LEMMA SubscribeType ==
  ASSUME EventsTypeOK, NEW l \in Listener, Subscribe(l), failures' \in 0 .. MaxFailures
  PROVE  EventsTypeOK'
<1>1. subscribed' \in [Listener -> BOOLEAN]
  BY DEF Subscribe, EventsTypeOK
<1>2. Len(log) \in 0 .. MaxEvents
  BY EventsAssumption DEF EventsTypeOK
<1>3. missed' \in [Listener -> 0 .. MaxEvents]
  BY <1>2 DEF Subscribe, EventsTypeOK
<1>4. QED
  BY <1>1, <1>3 DEF Subscribe, EventsTypeOK

LEMMA UnsubscribeType ==
  ASSUME EventsTypeOK, NEW l \in Listener, Unsubscribe(l)
  PROVE  EventsTypeOK'
<1>1. subscribed' \in [Listener -> BOOLEAN]
  BY DEF Unsubscribe, EventsTypeOK
<1>2. /\ inbox' \in [Listener -> Seq(1 .. MaxEvents)]
      /\ \A k \in Listener : Len(inbox'[k]) <= Buffer
  BY EventsAssumption DEF Unsubscribe, EventsTypeOK
<1>3. QED
  BY <1>1, <1>2 DEF Unsubscribe, EventsTypeOK

LEMMA ReadInboxType ==
  ASSUME EventsTypeOK, NEW l \in Listener, ReadInbox(l),
         UNCHANGED << owner, queued, log, subscribed, missed, lost, failures >>
  PROVE  EventsTypeOK'
<1>1. inbox' \in [Listener -> Seq(1 .. MaxEvents)]
  BY InboxParts DEF ReadInbox, EventsTypeOK
<1>2. \A k \in Listener : Len(inbox'[k]) <= Buffer
  <2> TAKE k \in Listener
  <2>1. CASE k = l
    BY <2>1, InboxParts, EventsAssumption DEF ReadInbox, EventsTypeOK
  <2>2. CASE k # l
    BY <2>2 DEF ReadInbox, EventsTypeOK
  <2> QED BY <2>1, <2>2
<1>3. QED
  BY <1>1, <1>2 DEF EventsTypeOK

\* What a published event does to an inbox.
LEMMA PublishInbox ==
  ASSUME EventsTypeOK, NEW type \in EventType, PublishEvent(type), NEW l \in Listener
  PROVE  /\ Len(log) + 1 \in 1 .. MaxEvents
         /\ inbox'[l] = IF subscribed[l] /\ Len(inbox[l]) < Buffer
                        THEN Append(inbox[l], Len(log) + 1) ELSE inbox[l]
         /\ inbox'[l] \in Seq(1 .. MaxEvents) /\ Len(inbox'[l]) <= Buffer
         /\ lost[l] => lost'[l]
         /\ subscribed[l] /\ ~lost'[l] => Len(inbox[l]) < Buffer
<1>1. Len(log) + 1 \in 1 .. MaxEvents
  BY EventsAssumption, LenProperties DEF PublishEvent, EventsTypeOK
<1>2. inbox'[l] = IF subscribed[l] /\ Len(inbox[l]) < Buffer
                  THEN Append(inbox[l], Len(log) + 1) ELSE inbox[l]
  BY DEF PublishEvent
<1>3. inbox'[l] \in Seq(1 .. MaxEvents) /\ Len(inbox'[l]) <= Buffer
  <2>1. inbox[l] \in Seq(1 .. MaxEvents) /\ Len(inbox[l]) \in Nat /\ Len(inbox[l]) <= Buffer
    BY InboxParts DEF EventsTypeOK
  <2>2. /\ Append(inbox[l], Len(log) + 1) \in Seq(1 .. MaxEvents)
        /\ Len(Append(inbox[l], Len(log) + 1)) = Len(inbox[l]) + 1
    BY <1>1, <2>1, AppendProperties
  <2>3. CASE subscribed[l] /\ Len(inbox[l]) < Buffer
    <3>1. inbox'[l] = Append(inbox[l], Len(log) + 1)
      BY <1>2, <2>3
    <3> QED BY <3>1, <2>1, <2>2, <2>3, EventsAssumption
  <2>4. CASE ~(subscribed[l] /\ Len(inbox[l]) < Buffer)
    BY <1>2, <2>1, <2>4
  <2> QED BY <2>3, <2>4
<1>4. lost'[l] <=> lost[l] \/ (subscribed[l] /\ Len(inbox[l]) = Buffer)
  BY Zenon DEF PublishEvent
<1>5. Len(inbox[l]) = Buffer \/ Len(inbox[l]) < Buffer
  BY InboxParts, EventsAssumption DEF EventsTypeOK
<1>6. QED
  BY <1>1, <1>2, <1>3, <1>4, <1>5

LEMMA PublishType ==
  ASSUME EventsTypeOK, NEW type \in EventType, PublishEvent(type)
  PROVE  EventsTypeOK'
<1>1. log' \in Seq(EventType) /\ Len(log') <= MaxEvents
  <2>1. log' = Append(log, type) /\ log \in Seq(EventType) /\ Len(log) < MaxEvents
    BY DEF PublishEvent, EventsTypeOK
  <2> QED BY <2>1, AppendProperties, EventsAssumption
<1>2. DOMAIN inbox' = Listener /\ inbox' = [l \in Listener |-> inbox'[l]]
  BY DEF PublishEvent
<1>3. inbox' \in [Listener -> Seq(1 .. MaxEvents)] /\ \A l \in Listener : Len(inbox'[l]) <= Buffer
  BY <1>2, PublishInbox
<1>4. \A l \in Listener : (lost[l] \/ (subscribed[l] /\ Len(inbox[l]) = Buffer)) \in BOOLEAN
  BY Zenon
<1>5. lost' \in [Listener -> BOOLEAN]
  BY <1>4, Zenon DEF PublishEvent
<1>6. QED
  BY <1>1, <1>3, <1>5 DEF PublishEvent, EventsTypeOK

LEMMA ListenTypeStep ==
  ASSUME TypeInv, [ListenNext]_listenVars
  PROVE  TypeInv'
<1> USE DEF TypeInv, ListenTypeOK
<1>g. "gateway" \in Listener /\ "sdk" \in Listener
  BY DEF Listener
<1>f. CountEventFailure => failures' \in 0 .. MaxFailures
  BY EventsAssumption DEF CountEventFailure, EventsTypeOK
<1>1. CASE UNCHANGED listenVars
  BY <1>1 DEF listenVars, eventsVars, gatewayVars, sdkVars, EventsTypeOK, GatewayTypeOK, SdkTypeOK
<1>2. ASSUME NEW type \in EventType, PublishEvent(type), UNCHANGED << gatewayVars, sdkVars >>
      PROVE  TypeInv'
  BY <1>2, PublishType DEF PublishEvent, gatewayVars, sdkVars, GatewayTypeOK, SdkTypeOK
<1>3. ASSUME NEW l \in Listener, ConnectionBreaks(l), UNCHANGED << gatewayVars, sdkVars >>
      PROVE  TypeInv'
  <2>1. subscribed' \in [Listener -> BOOLEAN] /\ lost' \in [Listener -> BOOLEAN]
    BY <1>3 DEF ConnectionBreaks, EventsTypeOK
  <2>2. EventsTypeOK'
    BY <1>3, <1>f, <2>1 DEF ConnectionBreaks, EventsTypeOK
  <2>3. GatewayTypeOK'
    BY <1>3, <1>g DEF ConnectionBreaks, gatewayVars, GatewayTypeOK, EventsTypeOK
  <2> QED BY <1>3, <2>2, <2>3 DEF gatewayVars, sdkVars, SdkTypeOK
<1>4. ASSUME NEW l \in Listener, ConnectionIsRestored(l, Listening(l)),
             UNCHANGED << gatewayVars, sdkVars >>
      PROVE  TypeInv'
  <2>1. subscribed' \in [Listener -> BOOLEAN]
    BY <1>4 DEF ConnectionIsRestored, EventsTypeOK
  <2>2. EventsTypeOK'
    BY <1>4, <2>1 DEF ConnectionIsRestored, EventsTypeOK
  <2>3. GatewayTypeOK'
    BY <1>4, <1>g DEF ConnectionIsRestored, Listening, gatewayVars, GatewayTypeOK, EventsTypeOK
  <2> QED BY <1>4, <2>2, <2>3 DEF gatewayVars, sdkVars, SdkTypeOK
<1>5. ASSUME GatewayNext, UNCHANGED sdkVars
      PROVE  TypeInv'
  <2>0. SdkTypeOK'
    BY <1>5 DEF sdkVars, SdkTypeOK
  <2>1. CASE OpenStream
    BY <2>0, <2>1 DEF OpenStream, GatewayGoto, eventsVars, EventsTypeOK, GatewayTypeOK
  <2>2. CASE SubscribeSSE
    <3>1. EventsTypeOK'
      BY <1>g, <2>2, SubscribeType DEF SubscribeSSE, EventsTypeOK
    <3> QED BY <2>0, <2>2, <3>1 DEF SubscribeSSE, GatewayGoto, GatewayTypeOK
  <2>3. CASE SubscribeFails
    BY <1>f, <2>0, <2>3 DEF SubscribeFails, GatewayGoto, EventsTypeOK, GatewayTypeOK
  <2>4. CASE PublishTask
    BY <2>0, <2>4 DEF PublishTask, GatewayGoto, EventsTypeOK, GatewayTypeOK
  <2>5. CASE PublishTaskFails
    BY <1>f, <2>0, <2>5 DEF PublishTaskFails, GatewayGoto, EventsTypeOK, GatewayTypeOK
  <2>6. CASE WriteEvent
    <3>1. /\ Head(ch) \in 1 .. MaxEvents /\ Tail(ch) \in Seq(1 .. MaxEvents)
          /\ Len(Tail(ch)) = Len(ch) - 1 /\ Len(ch) \in Nat
      BY <2>6, HeadTailProperties, LenProperties DEF WriteEvent, GatewayTypeOK
    <3>2. Append(written, Head(ch)) \in Seq(1 .. MaxEvents)
      BY <3>1, AppendProperties DEF GatewayTypeOK
    <3>3. Len(Tail(ch)) <= ChanSize
      BY <3>1, ChanAssumption DEF GatewayTypeOK
    <3> QED BY <2>0, <2>6, <3>1, <3>2, <3>3
            DEF WriteEvent, GatewayGoto, eventsVars, EventsTypeOK, GatewayTypeOK
  <2>7. CASE StreamCloses
    BY <2>0, <2>7 DEF StreamCloses, GatewayGoto, eventsVars, EventsTypeOK, GatewayTypeOK
  <2>8. CASE ClientDisconnects
    BY <2>0, <2>8 DEF ClientDisconnects, eventsVars, EventsTypeOK, GatewayTypeOK
  <2>9. CASE ReceiveMessage
    <3>1. EventsTypeOK'
      BY <1>g, <2>9, ReadInboxType DEF ReceiveMessage
    <3>2. held' \in 1 .. MaxEvents
      BY <1>g, <2>9, InboxParts DEF ReceiveMessage, ReadInbox
    <3>3. held' \in 0 .. MaxEvents /\ held' # 0
      BY <3>2, EventsAssumption
    <3> QED BY <2>0, <2>9, <3>1, <3>3 DEF ReceiveMessage, GatewayTypeOK
  <2>10. CASE SendEvent
    <3>1. held \in 1 .. MaxEvents
      BY <2>10, EventsAssumption DEF SendEvent, GatewayTypeOK
    <3>2. Append(ch, held) \in Seq(1 .. MaxEvents) /\ Len(Append(ch, held)) = Len(ch) + 1
      BY <3>1, AppendProperties DEF GatewayTypeOK
    <3>3. Len(Append(ch, held)) <= ChanSize /\ 0 \in 0 .. MaxEvents
      BY <2>10, <3>2, ChanAssumption, EventsAssumption, LenProperties DEF SendEvent, GatewayTypeOK
    <3> QED BY <2>0, <2>10, <3>2, <3>3 DEF SendEvent, eventsVars, EventsTypeOK, GatewayTypeOK
  <2>11. CASE ReturnOnContextDone
    <3>1. EventsTypeOK'
      BY <1>g, <2>11, UnsubscribeType DEF ReturnOnContextDone
    <3>2. ~subscribed'["gateway"] /\ 0 \in 0 .. MaxEvents
      BY <1>g, <2>11, EventsAssumption DEF ReturnOnContextDone, Unsubscribe, EventsTypeOK
    <3> QED BY <2>0, <2>11, <3>1, <3>2 DEF ReturnOnContextDone, GatewayTypeOK
  <2> QED
    BY <1>5, <2>1, <2>2, <2>3, <2>4, <2>5, <2>6, <2>7, <2>8, <2>9, <2>10, <2>11
    DEF GatewayNext, HandlerStep, GoroutineStep
<1>6. ASSUME SdkNext, UNCHANGED gatewayVars
      PROVE  TypeInv'
  <2>0. subscribed'["gateway"] = subscribed["gateway"] => GatewayTypeOK' /\ (rpc' = "send" => held' # 0)
    BY <1>6 DEF gatewayVars, GatewayTypeOK
  <2>r. inbox["sdk"] # << >> => Append(read, Head(inbox["sdk"])) \in Seq(1 .. MaxEvents)
    BY <1>g, InboxParts, AppendProperties DEF SdkTypeOK
  <2>1. CASE Request
    BY <2>0, <2>1 DEF Request, SdkGoto, EventsTypeOK, SdkTypeOK
  <2>2. CASE StartStream
    <3>1. EventsTypeOK'
      BY <1>g, <2>2, SubscribeType DEF StartStream, EventsTypeOK
    <3>2. subscribed'["gateway"] = subscribed["gateway"]
      BY <1>g, <2>2 DEF StartStream, Subscribe, EventsTypeOK
    <3> QED BY <2>0, <2>2, <3>1, <3>2 DEF StartStream, SdkGoto, SdkTypeOK
  <2>3. CASE YieldEvent
    <3>1. EventsTypeOK'
      BY <1>g, <2>3, ReadInboxType DEF YieldEvent
    <3> QED BY <2>0, <2>r, <2>3, <3>1 DEF YieldEvent, ReadInbox, SdkTypeOK
  <2>4. CASE YieldOutcome \/ StreamTimesOut
    <3>1. EventsTypeOK'
      BY <1>g, <2>4, UnsubscribeType DEF YieldOutcome, StreamTimesOut
    <3>2. subscribed'["gateway"] = subscribed["gateway"]
      BY <1>g, <2>4 DEF YieldOutcome, StreamTimesOut, Unsubscribe, EventsTypeOK
    <3> QED BY <2>0, <2>r, <2>4, <3>1, <3>2 DEF YieldOutcome, StreamTimesOut, SdkGoto, SdkTypeOK
  <2> QED BY <1>6, <2>1, <2>2, <2>3, <2>4 DEF SdkNext, SdkStep
<1>7. QED
  BY <1>1, <1>2, <1>3, <1>4, <1>5, <1>6 DEF ListenNext, Network

\* The types of the events, the listeners' buffers, and of both listeners.
THEOREM ListenTypeCorrect == ListenSpec => []ListenTypeOK
<1>1. TypeInv /\ [ListenNext]_listenVars => TypeInv'
  BY ListenTypeStep
<1>2. TypeInv => ListenTypeOK
  BY DEF TypeInv
<1>3. QED
  BY <1>1, <1>2, ListenTypeInit, PTL DEF ListenSpec

-----------------------------------------------------------------------------
(* The order of the events.                                                *)

\* The paths are sequences of events.
LEMMA PathType ==
  ASSUME TypeInv
  PROVE  /\ written \in Seq(1 .. MaxEvents) /\ ch \in Seq(1 .. MaxEvents)
         /\ Held \in Seq(1 .. MaxEvents)
         /\ inbox["gateway"] \in Seq(1 .. MaxEvents) /\ inbox["sdk"] \in Seq(1 .. MaxEvents)
         /\ read \in Seq(1 .. MaxEvents)
         /\ GatewayPath \in Seq(1 .. MaxEvents) /\ SdkPath \in Seq(1 .. MaxEvents)
<1>1. /\ written \in Seq(1 .. MaxEvents) /\ ch \in Seq(1 .. MaxEvents)
      /\ inbox["gateway"] \in Seq(1 .. MaxEvents) /\ inbox["sdk"] \in Seq(1 .. MaxEvents)
      /\ read \in Seq(1 .. MaxEvents)
  BY DEF TypeInv, ListenTypeOK, EventsTypeOK, GatewayTypeOK, SdkTypeOK, Listener
<1>2. Held \in Seq(1 .. MaxEvents)
  <2>1. CASE rpc = "send"
    <3>1. held \in 1 .. MaxEvents
      BY <2>1, EventsAssumption DEF TypeInv, ListenTypeOK, GatewayTypeOK
    <3> QED BY <2>1, <3>1 DEF Held
  <2>2. CASE rpc # "send"
    BY <2>2 DEF Held
  <2> QED BY <2>1, <2>2
<1>3. written \o ch \in Seq(1 .. MaxEvents)
  BY <1>1, ConcatProperties
<1>4. written \o ch \o Held \in Seq(1 .. MaxEvents)
  BY <1>2, <1>3, ConcatProperties
<1>5. QED
  BY <1>1, <1>2, <1>4, ConcatProperties DEF GatewayPath, SdkPath

\* An event is published that reaches the listener, ...
LEMMA FlowsReached ==
  ASSUME NEW l, NEW p \in Seq(1 .. MaxEvents), Flows(p, l), NEW type \in EventType,
         log \in Seq(EventType), log' = Append(log, type), NEW n \in 1 .. MaxEvents, n = Len(log) + 1,
         missed' = missed, lost'[l] \in BOOLEAN, lost[l] => lost'[l], subscribed[l],
         missed[l] \in Nat
  PROVE  Flows(Append(p, n), l)'
<1>1. PICK q \in Seq(1 .. MaxEvents) :
        /\ q = Append(p, n) /\ Len(q) = Len(p) + 1 /\ q[Len(p) + 1] = n
        /\ \A i \in 1 .. Len(p) : q[i] = p[i]
  <2>1. /\ Append(p, n) \in Seq(1 .. MaxEvents) /\ Len(Append(p, n)) = Len(p) + 1
        /\ Append(p, n)[Len(p) + 1] = n
        /\ \A i \in 1 .. Len(p) : Append(p, n)[i] = p[i]
    BY AppendProperties
  <2> QED BY <2>1
<1>2. Len(log) \in Nat /\ Len(log') = Len(log) + 1 /\ Len(p) \in Nat
  BY AppendProperties, LenProperties
<1>3. \A i \in 1 .. Len(q) : i \in 1 .. Len(p) \/ i = Len(p) + 1
  BY <1>1, <1>2
<1>4. \A i \in 1 .. Len(p) : p[i] \in 1 .. MaxEvents /\ p[i] <= Len(log)
  BY ElementOfSeq DEF Flows
<1>5. ASSUME NEW i \in 1 .. Len(q), NEW j \in 1 .. Len(q), i < j
      PROVE  q[i] < q[j]
  <2>1. i \in 1 .. Len(p)
    BY <1>1, <1>2, <1>5
  <2>2. CASE j \in 1 .. Len(p)
    BY <1>1, <1>5, <2>1, <2>2 DEF Flows, ReadsInOrder
  <2>3. CASE j = Len(p) + 1
    BY <1>1, <1>2, <1>4, <2>1, <2>3
  <2> QED BY <1>3, <2>2, <2>3
<1>6. ASSUME ~lost'[l]
      PROVE  missed[l] + Len(q) = n /\ \A i \in 1 .. Len(q) : q[i] = missed[l] + i
  <2>1. /\ missed[l] + Len(p) = Len(log)
        /\ \A i \in 1 .. Len(p) : p[i] = missed[l] + i
    BY <1>6 DEF Flows, ReadsInOrder
  <2>2. n = missed[l] + (Len(p) + 1)
    BY <1>2, <2>1
  <2> QED BY <1>1, <1>2, <1>3, <2>1, <2>2
<1>7. \A i \in 1 .. Len(q) : q[i] <= n
  BY <1>1, <1>2, <1>3, <1>4
<1>8. Flows(q, l)'
  BY <1>2, <1>5, <1>6, <1>7 DEF Flows, ReadsInOrder
<1>9. QED
  BY <1>1, <1>8

\* ... or does not, because it is not subscribed or its buffer is full.
LEMMA FlowsPast ==
  ASSUME NEW l, NEW p \in Seq(1 .. MaxEvents), Flows(p, l), NEW type \in EventType,
         log \in Seq(EventType), log' = Append(log, type),
         missed' = missed, lost[l] => lost'[l],
         subscribed'[l] => lost'[l]
  PROVE  Flows(p, l)'
<1>1. Len(log) \in Nat /\ Len(log') = Len(log) + 1
  BY AppendProperties, LenProperties
<1>2. \A i \in 1 .. Len(p) : p[i] <= Len(log')
  <2>1. \A i \in 1 .. Len(p) : p[i] \in 1 .. MaxEvents
    BY ElementOfSeq
  <2>2. \A i \in 1 .. Len(p) : p[i] <= Len(log)
    BY DEF Flows
  <2> QED BY <1>1, <2>1, <2>2
<1>3. QED
  BY <1>2 DEF Flows, ReadsInOrder

\* Nothing happens to the path; or the listener stops listening.
LEMMA FlowsStays ==
  ASSUME NEW l, NEW p, Flows(p, l), log' = log, missed'[l] = missed[l],
         lost[l] => lost'[l], subscribed'[l] /\ ~lost'[l] => subscribed[l]
  PROVE  Flows(p, l)'
BY DEF Flows, ReadsInOrder

LEMMA FlowsEnds ==
  ASSUME NEW l, NEW p \in Seq(1 .. MaxEvents), NEW q \in Seq(1 .. MaxEvents), Flows(p \o q, l),
         log' = log, missed' = missed, lost' = lost, ~subscribed'[l]
  PROVE  Flows(p, l)'
<1>1. ReadsInOrder(p, l)
  BY StartInOrder DEF Flows
<1>2. \A i \in 1 .. Len(p) : i \in 1 .. Len(p \o q) /\ (p \o q)[i] = p[i]
  BY ConcatProperties, LenProperties
<1>3. QED
  BY <1>1, <1>2 DEF Flows, ReadsInOrder

\* The path of a listener that has just subscribed.
LEMMA FlowsFromHere ==
  ASSUME NEW l, log \in Seq(EventType), log' = log, missed'[l] = Len(log)
  PROVE  Flows(<< >>, l)'
<1>1. Len(log) \in Nat /\ Len(<< >>) = 0
  BY LenProperties
<1>2. QED
  BY <1>1 DEF Flows, ReadsInOrder

LEMMA PathFlows ==
  ASSUME NEW p
  PROVE  /\ p = GatewayPath' /\ Flows(p, "gateway")' => Flows(GatewayPath, "gateway")'
         /\ p = SdkPath' /\ Flows(p, "sdk")' => Flows(SdkPath, "sdk")'
BY DEF Flows, ReadsInOrder

\* The network does to both paths alike.
LEMMA NetworkFlows ==
  ASSUME TypeInv, NEW l \in Listener, NEW p \in Seq(1 .. MaxEvents), Flows(p, l), Network,
         ~subscribed[l] /\ Listening(l) => lost[l]
  PROVE  \/ inbox'[l] = inbox[l] /\ Flows(p, l)'
         \/ \E n \in 1 .. MaxEvents : inbox'[l] = Append(inbox[l], n) /\ Flows(Append(p, n), l)'
<1>1. EventsTypeOK /\ log \in Seq(EventType) /\ missed[l] \in Nat
  BY DEF TypeInv, ListenTypeOK, EventsTypeOK
<1>2. ASSUME NEW type \in EventType, PublishEvent(type)
      PROVE  \/ inbox'[l] = inbox[l] /\ Flows(p, l)'
             \/ \E n \in 1 .. MaxEvents : inbox'[l] = Append(inbox[l], n) /\ Flows(Append(p, n), l)'
  <2>1. /\ log' = Append(log, type) /\ UNCHANGED << missed, subscribed >>
        /\ Len(log) + 1 \in 1 .. MaxEvents
        /\ lost[l] => lost'[l]
        /\ inbox'[l] = IF subscribed[l] /\ Len(inbox[l]) < Buffer
                       THEN Append(inbox[l], Len(log) + 1) ELSE inbox[l]
        /\ subscribed[l] /\ ~lost'[l] => Len(inbox[l]) < Buffer
    BY <1>1, <1>2, PublishInbox DEF PublishEvent
  <2>2. lost'[l] \in BOOLEAN
    BY <1>1, <1>2, PublishType DEF EventsTypeOK
  <2>3. CASE subscribed[l] /\ Len(inbox[l]) < Buffer
    <3>0. Len(log) + 1 \in 1 .. MaxEvents
      BY <2>1
    <3>1. PICK n \in 1 .. MaxEvents : n = Len(log) + 1
      BY <3>0
    <3>2. Flows(Append(p, n), l)'
      BY <1>1, <2>1, <2>2, <2>3, <3>1, FlowsReached
    <3>3. inbox'[l] = Append(inbox[l], n)
      BY <2>1, <2>3, <3>1
    <3> QED BY <3>2, <3>3
  <2>4. CASE ~(subscribed[l] /\ Len(inbox[l]) < Buffer)
    <3>1. inbox'[l] = inbox[l] /\ (subscribed'[l] => lost'[l])
      BY <2>1, <2>4
    <3>a. log' = Append(log, type) /\ missed' = missed
      BY <2>1
    <3>b. lost[l] => lost'[l]
      BY <2>1
    <3>2. Flows(p, l)'
      BY <1>1, <3>1, <3>a, <3>b, FlowsPast
    <3> QED BY <3>1, <3>2
  <2> QED BY <2>3, <2>4
<1>3. ASSUME NEW k \in Listener, ConnectionBreaks(k)
      PROVE  inbox'[l] = inbox[l] /\ Flows(p, l)'
  <2>1. /\ UNCHANGED << log, missed, inbox >>
        /\ lost[l] => lost'[l]
        /\ subscribed'[l] => subscribed[l]
    BY <1>1, <1>3 DEF ConnectionBreaks, EventsTypeOK
  <2>a. log' = log /\ missed'[l] = missed[l]
    BY <2>1
  <2>2. Flows(p, l)'
    BY <2>1, <2>a, FlowsStays
  <2> QED BY <2>1, <2>2
<1>4. ASSUME NEW k \in Listener, ConnectionIsRestored(k, Listening(k))
      PROVE  inbox'[l] = inbox[l] /\ Flows(p, l)'
  <2>1. /\ UNCHANGED << log, missed, inbox, lost >>
        /\ subscribed'[l] /\ ~lost[l] => subscribed[l]
    BY <1>1, <1>4 DEF ConnectionIsRestored, EventsTypeOK
  <2>a. log' = log /\ missed'[l] = missed[l] /\ (lost[l] => lost'[l])
    BY <2>1
  <2>b. subscribed'[l] /\ ~lost'[l] => subscribed[l]
    BY <2>1
  <2>2. Flows(p, l)'
    BY <2>a, <2>b, FlowsStays
  <2> QED BY <2>1, <2>2
<1>5. QED
  BY <1>2, <1>3, <1>4 DEF Network

\* The gateway's path: from Redis into the buffer, through the goroutine and the Go channel
\* to the client, an event keeps its place.
LEMMA GatewayFlows ==
  ASSUME TypeInv, GatewayInv, ListenNext
  PROVE  Flows(GatewayPath, "gateway")'
<1>g. "gateway" \in Listener /\ "sdk" \in Listener
  BY DEF Listener
<1>t. /\ EventsTypeOK /\ log \in Seq(EventType)
      /\ subscribed \in [Listener -> BOOLEAN] /\ missed \in [Listener -> 0 .. MaxEvents]
  BY DEF TypeInv, ListenTypeOK, EventsTypeOK
<1>0. PICK S, p, w, c, h, b :
        /\ S = 1 .. MaxEvents /\ p \in Seq(S)
        /\ w \in Seq(S) /\ c \in Seq(S) /\ h \in Seq(S) /\ b \in Seq(S)
        /\ p = GatewayPath /\ w = written /\ c = ch /\ h = Held /\ b = inbox["gateway"]
        /\ p = w \o c \o h \o b /\ Flows(p, "gateway")
  BY PathType DEF GatewayPath, GatewayInv
<1>w. w \in Seq(S) /\ c \in Seq(S) /\ h \in Seq(S) /\ b \in Seq(S) /\ p \in Seq(S)
  BY <1>0
<1>n. PICK v, u : v = w \o c /\ u = v \o h /\ v \in Seq(S) /\ u \in Seq(S)
  BY <1>w, ConcatProperties
<1>s. ASSUME p = GatewayPath', log' = log, missed'["gateway"] = missed["gateway"],
             lost'["gateway"] = lost["gateway"], subscribed'["gateway"] = subscribed["gateway"]
      PROVE  Flows(GatewayPath, "gateway")'
  <2>1. Flows(p, "gateway")'
    BY <1>0, <1>s, FlowsStays
  <2> QED BY <1>s, <2>1, PathFlows
<1>u. ASSUME UNCHANGED << written, ch, held, rpc, log >>, inbox'["gateway"] = inbox["gateway"],
             missed'["gateway"] = missed["gateway"], lost'["gateway"] = lost["gateway"],
             subscribed'["gateway"] = subscribed["gateway"]
      PROVE  Flows(GatewayPath, "gateway")'
  <2>1. p = GatewayPath'
    BY <1>0, <1>u DEF GatewayPath, Held
  <2> QED BY <1>s, <1>u, <2>1
<1>1. CASE Network /\ UNCHANGED << gatewayVars, sdkVars >>
  <2>1. ~subscribed["gateway"] /\ Listening("gateway") => lost["gateway"]
    BY DEF GatewayInv, GatewayPlace, Listening
  <2>2. w \o c \o h = (written \o ch \o Held)'
    BY <1>0, <1>1 DEF gatewayVars, Held
  <2>3. CASE inbox'["gateway"] = b /\ Flows(p, "gateway")'
    <3>1. p = GatewayPath'
      BY <1>0, <2>2, <2>3 DEF GatewayPath
    <3> QED BY <2>3, <3>1, PathFlows
  <2>4. ASSUME NEW n \in 1 .. MaxEvents, inbox'["gateway"] = Append(b, n),
               Flows(Append(p, n), "gateway")'
        PROVE  Flows(GatewayPath, "gateway")'
    <3>0. PICK e : e = n /\ u \in Seq(S) /\ b \in Seq(S) /\ e \in S
      BY <1>0, <1>n
    <3>x. u \in Seq(S) /\ b \in Seq(S) /\ e \in S
      BY <3>0
    <3>1. u \o Append(b, e) = Append(u \o b, e)
      BY <3>x, ConcatAppend
    <3>2. Append(p, n) = GatewayPath'
      BY <1>0, <1>n, <2>2, <2>4, <3>0, <3>1 DEF GatewayPath
    <3>3. PICK q : q = Append(p, n)
      OBVIOUS
    <3> QED BY <2>4, <3>2, <3>3, PathFlows
  <2> QED BY <1>0, <1>1, <1>g, <2>1, <2>3, <2>4, NetworkFlows
<1>2. CASE SdkNext /\ UNCHANGED gatewayVars
  <2>1. /\ log' = log /\ inbox'["gateway"] = inbox["gateway"] /\ lost' = lost
        /\ missed'["gateway"] = missed["gateway"] /\ subscribed'["gateway"] = subscribed["gateway"]
    BY <1>2, <1>t, <1>g DEF SdkNext, SdkStep, Request, StartStream, YieldEvent, YieldOutcome,
       StreamTimesOut, Subscribe, Unsubscribe, ReadInbox, EventsTypeOK
  <2> QED BY <1>2, <1>u, <2>1 DEF gatewayVars
<1>3. CASE OpenStream \/ SubscribeFails \/ PublishTask \/ PublishTaskFails \/ StreamCloses
           \/ ClientDisconnects
  BY <1>3, <1>u DEF OpenStream, SubscribeFails, PublishTask, PublishTaskFails, StreamCloses,
     ClientDisconnects, eventsVars
<1>4. CASE SubscribeSSE
  <2>1. written = << >> /\ ch = << >> /\ inbox["gateway"] = << >>
    BY <1>4 DEF SubscribeSSE, GatewayGoto, GatewayInv, GatewayPlace
  <2>2. << >> = << >> \o << >> \o << >> \o << >>
    BY ConcatEmptySeq, EmptySeq
  <2>3. << >> = GatewayPath'
    BY <1>4, <2>1, <2>2 DEF SubscribeSSE, Subscribe, GatewayPath, Held
  <2>4. log' = log /\ missed'["gateway"] = Len(log)
    BY <1>4, <1>t, <1>g DEF SubscribeSSE, Subscribe
  <2>5. Flows(<< >>, "gateway")'
    BY <1>t, <2>4, FlowsFromHere
  <2>6. PICK q : q = << >>
    OBVIOUS
  <2> QED BY <2>3, <2>5, <2>6, PathFlows
<1>5. CASE WriteEvent
  <2>0. c # << >> /\ w \in Seq(S) /\ c \in Seq(S)
    BY <1>0, <1>5 DEF WriteEvent
  <2>1. Append(w, Head(c)) \o Tail(c) = w \o c
    BY <2>0, MoveHead
  <2>2. p = GatewayPath'
    BY <1>0, <1>5, <2>1 DEF WriteEvent, eventsVars, GatewayPath, Held
  <2> QED BY <1>s, <1>5, <2>2 DEF WriteEvent, eventsVars
<1>6. CASE ReceiveMessage
  <2>1. b # << >> /\ inbox'["gateway"] = Tail(b)
    BY <1>0, <1>6, <1>t, <1>g DEF ReceiveMessage, ReadInbox, EventsTypeOK
  <2>4. h = << >> /\ Held' = << Head(b) >>
    BY <1>0, <1>6 DEF ReceiveMessage, Held
  <2>5. (w \o c \o << Head(b) >>) \o Tail(b) = (w \o c) \o b
    <3>1. v \in Seq(S) /\ b \in Seq(S) /\ b # << >>
      BY <1>0, <1>n, <2>1
    <3>2. (v \o << Head(b) >>) \o Tail(b) = v \o b
      BY <3>1, MoveHead
    <3> QED BY <1>n, <3>2
  <2>6. p = (w \o c) \o b
    BY <1>0, <1>n, <2>4, ConcatEmptySeq
  <2>7. GatewayPath' = w \o c \o << Head(b) >> \o Tail(b)
    BY <1>0, <1>6, <2>1, <2>4 DEF ReceiveMessage, GatewayPath
  <2> QED BY <1>s, <1>6, <2>5, <2>6, <2>7 DEF ReceiveMessage
<1>7. CASE SendEvent
  <2>1. h = << held >> /\ held \in 1 .. MaxEvents /\ Held' = << >>
    BY <1>0, <1>7, EventsAssumption
    DEF SendEvent, Held, GatewayInv, GatewayPlace, TypeInv, ListenTypeOK, GatewayTypeOK
  <2>2. PICK e : e = held /\ e \in S
    BY <1>0, <2>1
  <2>v. v \in Seq(S) /\ v = w \o c /\ u = v \o << e >> /\ u \in Seq(S)
    BY <1>0, <1>n, <2>1, <2>2
  <2>3. w \o Append(c, e) = u
    <3>1. w \o Append(c, e) = Append(w \o c, e) /\ v \o << e >> = Append(v, e)
      BY <1>w, <2>2, <2>v, ConcatAppend
    <3> QED BY <2>v, <3>1
  <2>5. u \o << >> = u
    BY <2>v, ConcatEmptySeq
  <2>6. GatewayPath' = w \o Append(c, e) \o << >> \o b
    BY <1>0, <1>7, <2>1, <2>2 DEF SendEvent, eventsVars, GatewayPath
  <2>7. p = GatewayPath'
    BY <1>0, <1>n, <2>3, <2>5, <2>6
  <2> QED BY <1>s, <1>7, <2>7 DEF SendEvent, eventsVars
<1>8. CASE ReturnOnContextDone
  <2>1. /\ Held' = << >> /\ inbox'["gateway"] = << >> /\ ~subscribed'["gateway"]
        /\ log' = log /\ missed' = missed /\ lost' = lost
        /\ written' = w /\ ch' = c
    BY <1>0, <1>8, <1>t, <1>g DEF ReturnOnContextDone, Unsubscribe, Held, EventsTypeOK
  <2>2. w \o c \o << >> \o << >> = w \o c
    BY <1>n, ConcatEmptySeq
  <2>3. w \o c = GatewayPath'
    BY <2>1, <2>2 DEF GatewayPath
  <2>4. PICK r : r = h \o b /\ r \in Seq(S) /\ p = v \o r
    <3>1. h \o b \in Seq(S)
      BY <1>w, ConcatProperties
    <3>x. v \in Seq(S) /\ h \in Seq(S) /\ b \in Seq(S)
      BY <1>w, <1>n
    <3>2. (v \o h) \o b = v \o (h \o b)
      BY <3>x, ConcatAssociative
    <3> QED BY <1>0, <1>n, <3>1, <3>2
  <2>5. Flows(v, "gateway")'
    BY <1>0, <1>n, <2>1, <2>4, FlowsEnds
  <2> QED BY <1>n, <2>3, <2>5, PathFlows
<1>9. QED
  BY <1>1, <1>2, <1>3, <1>4, <1>5, <1>6, <1>7, <1>8
  DEF ListenNext, GatewayNext, HandlerStep, GoroutineStep

\* Where the handler, its goroutine and its subscription are.
LEMMA GatewayPlaceStep ==
  ASSUME TypeInv, TypeInv', GatewayPlace, ListenNext
  PROVE  GatewayPlace'
<1>g. "gateway" \in Listener /\ "sdk" \in Listener
  BY DEF Listener
<1>t. /\ EventsTypeOK /\ inbox \in [Listener -> Seq(1 .. MaxEvents)]
      /\ subscribed \in [Listener -> BOOLEAN] /\ lost \in [Listener -> BOOLEAN]
      /\ (rpc \in {"off", "closed"} => ~subscribed["gateway"]) /\ (rpc' = "send" => held' # 0)
  BY DEF TypeInv, ListenTypeOK, EventsTypeOK, GatewayTypeOK
<1>u. ASSUME UNCHANGED << gpc, rpc, ch, gone, written >>,
             rpc = "off" => inbox'["gateway"] = inbox["gateway"],
             rpc = "off" => lost'["gateway"] = lost["gateway"],
             lost["gateway"] => lost'["gateway"],
             rpc # "closed" /\ ~subscribed'["gateway"] => ~subscribed["gateway"] \/ lost'["gateway"]
      PROVE  GatewayPlace'
  BY <1>u, <1>t DEF GatewayPlace, ContextDone
<1>1. ASSUME NEW type \in EventType, PublishEvent(type), UNCHANGED << gatewayVars, sdkVars >>
      PROVE  GatewayPlace'
  <2>1. /\ subscribed' = subscribed
        /\ lost["gateway"] => lost'["gateway"]
        /\ inbox'["gateway"] = IF subscribed["gateway"] /\ Len(inbox["gateway"]) < Buffer
                               THEN Append(inbox["gateway"], Len(log) + 1) ELSE inbox["gateway"]
    BY <1>1, <1>t, <1>g, PublishInbox DEF PublishEvent
  <2>2. lost'["gateway"] <=> lost["gateway"] \/ (subscribed["gateway"] /\ Len(inbox["gateway"]) = Buffer)
    BY <1>1, <1>g, Zenon DEF PublishEvent
  <2>3. lost'["gateway"] \in BOOLEAN /\ lost["gateway"] \in BOOLEAN
    BY <1>1, <1>t, <1>g, PublishType DEF EventsTypeOK
  <2> QED BY <1>1, <1>t, <1>u, <2>1, <2>2, <2>3 DEF gatewayVars
<1>2. ASSUME NEW l \in Listener, ConnectionBreaks(l) \/ ConnectionIsRestored(l, Listening(l)),
             UNCHANGED << gatewayVars, sdkVars >>
      PROVE  GatewayPlace'
  <2>1. CASE l = "gateway"
    BY <1>2, <1>t, <1>g, <1>u, <2>1 DEF ConnectionBreaks, ConnectionIsRestored, Listening, gatewayVars
  <2>2. CASE l # "gateway"
    BY <1>2, <1>t, <1>g, <1>u, <2>2 DEF ConnectionBreaks, ConnectionIsRestored, gatewayVars
  <2> QED BY <2>1, <2>2
<1>3. CASE SdkNext /\ UNCHANGED gatewayVars
  <2>1. /\ lost' = lost
        /\ inbox'["gateway"] = inbox["gateway"] /\ subscribed'["gateway"] = subscribed["gateway"]
    BY <1>3, <1>t, <1>g DEF SdkNext, SdkStep, Request, StartStream, YieldEvent, YieldOutcome,
       StreamTimesOut, Subscribe, Unsubscribe, ReadInbox, EventsTypeOK
  <2> QED BY <1>3, <1>u, <2>1 DEF gatewayVars
<1>4. CASE OpenStream \/ SubscribeFails \/ PublishTask \/ PublishTaskFails \/ StreamCloses
           \/ ClientDisconnects
  BY <1>4, <1>t DEF OpenStream, SubscribeFails, PublishTask, PublishTaskFails, StreamCloses,
     ClientDisconnects, GatewayGoto, eventsVars, GatewayPlace, ContextDone
<1>5. CASE SubscribeSSE
  BY <1>5, <1>t, <1>g DEF SubscribeSSE, Subscribe, GatewayGoto, GatewayPlace
<1>6. CASE WriteEvent
  BY <1>6, <1>t DEF WriteEvent, GatewayGoto, eventsVars, GatewayPlace, ContextDone
<1>7. CASE ReceiveMessage \/ SendEvent
  BY <1>7, <1>t DEF ReceiveMessage, SendEvent, eventsVars, GatewayPlace, ContextDone
<1>8. CASE ReturnOnContextDone
  BY <1>8, <1>t DEF ReturnOnContextDone, Unsubscribe, GatewayPlace, ContextDone
<1>9. QED
  BY <1>1, <1>2, <1>3, <1>4, <1>5, <1>6, <1>7, <1>8
  DEF ListenNext, Network, GatewayNext, HandlerStep, GoroutineStep

\* The SDK's path.
LEMMA SdkFlows ==
  ASSUME TypeInv, SdkInv, ListenNext
  PROVE  Flows(SdkPath, "sdk")'
<1>g. "gateway" \in Listener /\ "sdk" \in Listener
  BY DEF Listener
<1>t. /\ EventsTypeOK /\ log \in Seq(EventType)
      /\ subscribed \in [Listener -> BOOLEAN] /\ missed \in [Listener -> 0 .. MaxEvents]
      /\ inbox \in [Listener -> Seq(1 .. MaxEvents)]
  BY DEF TypeInv, ListenTypeOK, EventsTypeOK
<1>0. PICK S, p, r, b :
        /\ S = 1 .. MaxEvents /\ p \in Seq(S) /\ r \in Seq(S) /\ b \in Seq(S)
        /\ p = SdkPath /\ r = read /\ b = inbox["sdk"] /\ p = r \o b /\ Flows(p, "sdk")
  BY PathType DEF SdkPath, SdkInv
<1>w. r \in Seq(S) /\ b \in Seq(S)
  BY <1>0
<1>s. ASSUME p = SdkPath', log' = log, missed'["sdk"] = missed["sdk"],
             lost'["sdk"] = lost["sdk"], subscribed'["sdk"] = subscribed["sdk"]
      PROVE  Flows(SdkPath, "sdk")'
  <2>1. Flows(p, "sdk")'
    BY <1>0, <1>s, FlowsStays
  <2> QED BY <1>s, <2>1, PathFlows
<1>1. CASE Network /\ UNCHANGED << gatewayVars, sdkVars >>
  <2>1. ~subscribed["sdk"] /\ Listening("sdk") => lost["sdk"]
    BY DEF SdkInv, SdkPlace, Listening
  <2>2. read' = r
    BY <1>0, <1>1 DEF sdkVars
  <2>3. CASE inbox'["sdk"] = b /\ Flows(p, "sdk")'
    <3>1. p = SdkPath'
      BY <1>0, <2>2, <2>3 DEF SdkPath
    <3> QED BY <2>3, <3>1, PathFlows
  <2>4. ASSUME NEW n \in 1 .. MaxEvents, inbox'["sdk"] = Append(b, n), Flows(Append(p, n), "sdk")'
        PROVE  Flows(SdkPath, "sdk")'
    <3>1. PICK e : e = n /\ e \in S
      BY <1>0
    <3>2. e \in S
      BY <3>1
    <3>3. r \o Append(b, e) = Append(r \o b, e)
      BY <1>w, <3>2, ConcatAppend
    <3>4. Append(p, n) = SdkPath'
      BY <1>0, <2>2, <2>4, <3>1, <3>3 DEF SdkPath
    <3>5. PICK q : q = Append(p, n)
      OBVIOUS
    <3> QED BY <2>4, <3>4, <3>5, PathFlows
  <2> QED BY <1>0, <1>1, <1>g, <2>1, <2>3, <2>4, NetworkFlows
<1>2. CASE GatewayNext /\ UNCHANGED sdkVars
  <2>1. /\ log' = log /\ inbox'["sdk"] = inbox["sdk"] /\ lost' = lost
        /\ missed'["sdk"] = missed["sdk"] /\ subscribed'["sdk"] = subscribed["sdk"]
    <3>1. CASE HandlerStep \/ OpenStream \/ SubscribeFails \/ PublishTaskFails \/ ClientDisconnects
      BY <3>1, <1>t, <1>g DEF HandlerStep, SubscribeSSE, PublishTask, WriteEvent, StreamCloses,
         OpenStream, SubscribeFails, PublishTaskFails, ClientDisconnects, Subscribe, eventsVars
    <3>2. CASE GoroutineStep
      BY <3>2, <1>t, <1>g DEF GoroutineStep, ReceiveMessage, SendEvent, ReturnOnContextDone,
         ReadInbox, Unsubscribe, eventsVars
    <3> QED BY <1>2, <3>1, <3>2 DEF GatewayNext
  <2>2. p = SdkPath'
    BY <1>0, <1>2, <2>1 DEF SdkPath, sdkVars
  <2> QED BY <1>s, <2>1, <2>2
<1>3. CASE Request
  BY <1>0, <1>s, <1>3 DEF Request, SdkPath
<1>4. CASE StartStream
  <2>1. read = << >> /\ inbox["sdk"] = << >>
    BY <1>4 DEF StartStream, SdkGoto, SdkInv, SdkPlace
  <2>2. << >> = << >> \o << >>
    BY ConcatEmptySeq, EmptySeq
  <2>3. << >> = SdkPath'
    BY <1>4, <2>1, <2>2 DEF StartStream, Subscribe, SdkPath
  <2>4. log' = log /\ missed'["sdk"] = Len(log)
    BY <1>4, <1>t, <1>g DEF StartStream, Subscribe
  <2>5. Flows(<< >>, "sdk")'
    BY <1>t, <2>4, FlowsFromHere
  <2>6. PICK q : q = << >>
    OBVIOUS
  <2> QED BY <2>3, <2>5, <2>6, PathFlows
<1>a. ASSUME b # << >>
      PROVE  /\ Append(r, Head(b)) \in Seq(S) /\ Tail(b) \in Seq(S)
             /\ p = Append(r, Head(b)) \o Tail(b)
  <2>1. b \in Seq(S) /\ b # << >>
    BY <1>w, <1>a
  <2>2. Head(b) \in S /\ Tail(b) \in Seq(S)
    BY <2>1, HeadTailProperties
  <2>3. Append(r, Head(b)) \in Seq(S)
    BY <1>w, <2>2, AppendProperties
  <2>4. Append(r, Head(b)) \o Tail(b) = r \o b
    BY <1>w, <2>1, MoveHead
  <2> QED BY <1>0, <2>2, <2>3, <2>4
<1>5. CASE YieldEvent
  <2>1. inbox'["sdk"] = Tail(b) /\ b # << >> /\ read' = Append(r, Head(b))
    BY <1>0, <1>5, <1>t, <1>g DEF YieldEvent, ReadInbox
  <2>2. p = SdkPath'
    BY <1>a, <2>1 DEF SdkPath
  <2> QED BY <1>s, <1>5, <2>2 DEF YieldEvent
<1>6. CASE YieldOutcome
  <2>1. /\ inbox'["sdk"] = << >> /\ b # << >> /\ read' = Append(r, Head(b))
        /\ log' = log /\ missed' = missed /\ lost' = lost /\ ~subscribed'["sdk"]
    BY <1>0, <1>6, <1>t, <1>g DEF YieldOutcome, Unsubscribe
  <2>2. PICK a, t : a = Append(r, Head(b)) /\ t = Tail(b) /\ a \in Seq(S) /\ t \in Seq(S)
                    /\ p = a \o t
    BY <1>a, <2>1
  <2>3. a \o << >> = a
    BY <2>2, ConcatEmptySeq
  <2>4. a = SdkPath'
    BY <2>1, <2>2, <2>3 DEF SdkPath
  <2>5. Flows(a, "sdk")'
    BY <1>0, <2>1, <2>2, FlowsEnds
  <2> QED BY <2>4, <2>5, PathFlows
<1>7. CASE StreamTimesOut
  <2>1. /\ inbox'["sdk"] = << >> /\ read' = r
        /\ log' = log /\ missed' = missed /\ lost' = lost /\ ~subscribed'["sdk"]
    BY <1>0, <1>7, <1>t, <1>g DEF StreamTimesOut, Unsubscribe
  <2>2. r \o << >> = r
    BY <1>w, ConcatEmptySeq
  <2>3. r = SdkPath'
    BY <2>1, <2>2 DEF SdkPath
  <2>4. Flows(r, "sdk")'
    BY <1>0, <1>w, <2>1, FlowsEnds
  <2> QED BY <2>3, <2>4, PathFlows
<1>8. QED
  BY <1>1, <1>2, <1>3, <1>4, <1>5, <1>6, <1>7 DEF ListenNext, SdkNext, SdkStep

\* Where the app and its subscription are.
LEMMA SdkPlaceStep ==
  ASSUME TypeInv, SdkPlace, ListenNext
  PROVE  SdkPlace'
<1>g. "gateway" \in Listener /\ "sdk" \in Listener
  BY DEF Listener
<1>t. /\ EventsTypeOK /\ inbox \in [Listener -> Seq(1 .. MaxEvents)]
      /\ subscribed \in [Listener -> BOOLEAN] /\ lost \in [Listener -> BOOLEAN]
  BY DEF TypeInv, ListenTypeOK, EventsTypeOK
<1>1. ASSUME NEW type \in EventType, PublishEvent(type), UNCHANGED << gatewayVars, sdkVars >>
      PROVE  SdkPlace'
  <2>1. /\ subscribed' = subscribed
        /\ lost["sdk"] => lost'["sdk"]
        /\ ~subscribed["sdk"] => inbox'["sdk"] = inbox["sdk"]
    BY <1>1, <1>t, <1>g, PublishInbox DEF PublishEvent
  <2>2. lost'["sdk"] <=> lost["sdk"] \/ (subscribed["sdk"] /\ Len(inbox["sdk"]) = Buffer)
    BY <1>1, <1>g, Zenon DEF PublishEvent
  <2> QED BY <1>1, <2>1, <2>2 DEF sdkVars, SdkPlace
<1>2. ASSUME NEW l \in Listener, ConnectionBreaks(l) \/ ConnectionIsRestored(l, Listening(l)),
             UNCHANGED << gatewayVars, sdkVars >>
      PROVE  SdkPlace'
  <2>1. CASE l = "sdk"
    BY <1>2, <1>t, <1>g, <2>1 DEF ConnectionBreaks, ConnectionIsRestored, Listening, sdkVars, SdkPlace
  <2>2. CASE l # "sdk"
    BY <1>2, <1>t, <1>g, <2>2 DEF ConnectionBreaks, ConnectionIsRestored, sdkVars, SdkPlace
  <2> QED BY <2>1, <2>2
<1>3. CASE GatewayNext /\ UNCHANGED sdkVars
  <2>1. /\ inbox'["sdk"] = inbox["sdk"] /\ lost' = lost /\ subscribed'["sdk"] = subscribed["sdk"]
    <3>1. CASE HandlerStep \/ OpenStream \/ SubscribeFails \/ PublishTaskFails \/ ClientDisconnects
      BY <3>1, <1>t, <1>g DEF HandlerStep, SubscribeSSE, PublishTask, WriteEvent, StreamCloses,
         OpenStream, SubscribeFails, PublishTaskFails, ClientDisconnects, Subscribe, eventsVars
    <3>2. CASE GoroutineStep
      BY <3>2, <1>t, <1>g DEF GoroutineStep, ReceiveMessage, SendEvent, ReturnOnContextDone,
         ReadInbox, Unsubscribe, eventsVars
    <3> QED BY <1>3, <3>1, <3>2 DEF GatewayNext
  <2> QED BY <1>3, <2>1 DEF sdkVars, SdkPlace
<1>4. CASE Request
  BY <1>4 DEF Request, SdkGoto, SdkPlace
<1>5. CASE StartStream
  BY <1>5, <1>t, <1>g DEF StartStream, Subscribe, SdkGoto, SdkPlace
<1>6. CASE YieldEvent \/ YieldOutcome \/ StreamTimesOut
  BY <1>6 DEF YieldEvent, YieldOutcome, StreamTimesOut, SdkGoto, SdkPlace
<1>7. QED
  BY <1>1, <1>2, <1>3, <1>4, <1>5, <1>6 DEF ListenNext, Network, SdkNext, SdkStep

-----------------------------------------------------------------------------
(* The stream of a created task.                                           *)

\* What has been written is of the past.
LEMMA WrittenIsPast ==
  ASSUME TypeInv, GatewayInv, NEW i \in 1 .. Len(written)
  PROVE  written[i] \in 1 .. MaxEvents /\ written[i] <= Len(log)
<1>1. PICK S, w, c, h, b :
        /\ S = 1 .. MaxEvents
        /\ w \in Seq(S) /\ c \in Seq(S) /\ h \in Seq(S) /\ b \in Seq(S)
        /\ w = written /\ GatewayPath = w \o c \o h \o b
  BY PathType DEF GatewayPath
<1>w. w \in Seq(S) /\ c \in Seq(S) /\ h \in Seq(S) /\ b \in Seq(S)
  BY <1>1
<1>2. PICK v : v = (c \o h) \o b /\ v \in Seq(S) /\ GatewayPath = w \o v
  <2>1. PICK d : d = c \o h /\ d \in Seq(S) /\ d \o b \in Seq(S)
    BY <1>w, ConcatProperties
  <2>2. (w \o c) \o h = w \o (c \o h)
    BY <1>w, ConcatAssociative, SMTT(30)
  <2>x. w \in Seq(S) /\ d \in Seq(S) /\ b \in Seq(S)
    BY <1>w, <2>1
  <2>3. (w \o d) \o b = w \o (d \o b)
    BY <2>x, ConcatAssociative, SMTT(30)
  <2> QED BY <1>1, <2>1, <2>2, <2>3
<1>3. i \in 1 .. Len(w \o v) /\ (w \o v)[i] = w[i]
  BY <1>1, <1>2, ConcatProperties, LenProperties
<1>4. w[i] \in S
  BY <1>1, ElementOfSeq
<1>5. QED
  BY <1>1, <1>2, <1>3, <1>4 DEF GatewayInv, Flows

\* What has been written is in order.
LEMMA WrittenInOrder ==
  ASSUME TypeInv, GatewayInv
  PROVE  ReadsInOrder(written, "gateway")
<1>1. PICK S, w, c, h, b :
        /\ w \in Seq(S) /\ c \in Seq(S) /\ h \in Seq(S) /\ b \in Seq(S)
        /\ w = written /\ ReadsInOrder(w \o c \o h \o b, "gateway")
  BY PathType DEF GatewayPath, GatewayInv, Flows
<1>2. w \o c \in Seq(S) /\ w \o c \o h \in Seq(S)
  BY <1>1, ConcatProperties
<1>3. ReadsInOrder(w \o c \o h, "gateway")
  BY <1>1, <1>2, StartInOrder
<1>4. ReadsInOrder(w \o c, "gateway")
  BY <1>1, <1>2, <1>3, StartInOrder
<1>5. ReadsInOrder(w, "gateway")
  BY <1>1, <1>4, StartInOrder
<1>6. QED
  BY <1>1, <1>5 DEF ReadsInOrder

LEMMA CreatedStep ==
  ASSUME TypeInv, TypeInv', GatewayInv, CreatedInv, ListenNext
  PROVE  CreatedInv'
<1>g. "gateway" \in Listener /\ "sdk" \in Listener /\ "gateway" # "sdk"
  BY DEF Listener
<1>t. /\ log \in Seq(EventType) /\ Len(log) \in Nat /\ failures \in Nat
      /\ missed \in [Listener -> 0 .. MaxEvents]
      /\ written \in Seq(1 .. MaxEvents) /\ Len(written) \in Nat
      /\ ch \in Seq(1 .. MaxEvents)
  BY EventsAssumption, LenProperties DEF TypeInv, ListenTypeOK, EventsTypeOK, GatewayTypeOK
<1>p. \A i \in 1 .. Len(written) : written[i] \in 1 .. MaxEvents /\ written[i] <= Len(log)
  BY WrittenIsPast
\* A step that neither writes nor publishes, nor returns.
<1>u. ASSUME UNCHANGED << owner, log, written >>, missed'["gateway"] = missed["gateway"],
             owner = "gateway" => spc' = spc,
             owner = "gateway" /\ gpc' \in {"new", "subscribe", "publish"} =>
               queued' = queued /\ gpc \in {"new", "subscribe", "publish"},
             gpc' = "publish" => gpc = "publish",
             ~queued' => ~queued,
             gpc' = "returned" /\ failures' = 0 /\ ~gone' =>
               gpc = "returned" /\ failures = 0 /\ ~gone,
             gpc = "returned" => gpc' = "returned"
      PROVE  CreatedInv'
  BY <1>u DEF CreatedInv
<1>1. ASSUME NEW type \in EventType, PublishEvent(type), UNCHANGED << gatewayVars, sdkVars >>
      PROVE  CreatedInv'
  <2>1. /\ log' = Append(log, type) /\ queued /\ UNCHANGED << owner, queued, missed, failures >>
        /\ UNCHANGED << gpc, gone, written, spc >>
    BY <1>1 DEF PublishEvent, gatewayVars, sdkVars
  <2>2. \A i \in 1 .. Len(log) : log'[i] = log[i]
    BY <1>t, <2>1, AppendProperties
  <2>3. \A i \in 1 .. Len(written) : log'[written[i]] = log[written[i]]
    BY <1>p, <1>t, <2>2
  <2>4. ASSUME NEW i \in 1 .. Len(written), i < Len(written) \/ gpc # "returned"
        PROVE  log'[written[i]] \notin Terminal
    BY <2>3, <2>4 DEF CreatedInv
  <2>5. ASSUME gpc = "returned", failures = 0, ~gone
        PROVE  written # << >> /\ log'[written[Len(written)]] \in Terminal
    <3>1. written # << >> /\ log[written[Len(written)]] \in Terminal
      BY <2>5 DEF CreatedInv
    <3>2. Len(written) \in 1 .. Len(written)
      BY <1>t, <3>1, EmptySeq
    <3> QED BY <2>3, <3>1, <3>2
  <2> QED BY <2>1, <2>4, <2>5 DEF CreatedInv
<1>2. ASSUME NEW l \in Listener, ConnectionBreaks(l) \/ ConnectionIsRestored(l, Listening(l)),
             UNCHANGED << gatewayVars, sdkVars >>
      PROVE  CreatedInv'
  <2>1. /\ UNCHANGED << owner, queued, log, missed, gpc, gone, written, spc >>
        /\ failures' = failures \/ failures' = failures + 1
    BY <1>2 DEF ConnectionBreaks, ConnectionIsRestored, CountEventFailure, gatewayVars, sdkVars
  <2>2. failures' = 0 => failures = 0
    BY <1>t, <2>1
  <2> QED BY <1>u, <2>1, <2>2
<1>3. CASE SdkNext /\ UNCHANGED gatewayVars
  <2>1. /\ UNCHANGED << gpc, gone, written, log, owner, failures >>
        /\ missed'["gateway"] = missed["gateway"]
        /\ UNCHANGED << queued, spc >> \/ (owner # "gateway" /\ (queued' \/ queued' = queued))
    <3>1. CASE Request
      BY <1>3, <3>1 DEF Request, SdkGoto, gatewayVars
    <3>2. CASE StartStream \/ YieldEvent \/ YieldOutcome \/ StreamTimesOut
      <4>1. spc # "idle"
        BY <3>2 DEF StartStream, YieldEvent, YieldOutcome, StreamTimesOut, SdkGoto
      <4>2. owner # "gateway"
        BY <4>1 DEF CreatedInv
      <4> QED BY <1>3, <1>t, <1>g, <3>2, <4>2 DEF StartStream, YieldEvent, YieldOutcome,
                 StreamTimesOut, Subscribe, Unsubscribe, gatewayVars
    <3> QED BY <1>3, <3>1, <3>2 DEF SdkNext, SdkStep
  <2> QED BY <1>u, <2>1
<1>4. ASSUME GatewayNext, UNCHANGED sdkVars
      PROVE  CreatedInv'
  <2>s. spc' = spc
    BY <1>4 DEF sdkVars
  <2>1. CASE OpenStream \/ ClientDisconnects \/ PublishTask
    BY <1>u, <2>s, <2>1 DEF OpenStream, ClientDisconnects, PublishTask, GatewayGoto, eventsVars
  <2>2. CASE SubscribeSSE
    <3>1. /\ UNCHANGED << owner, queued, log, gone, written, failures >>
          /\ gpc = "subscribe" /\ missed'["gateway"] = Len(log)
          /\ gpc' = IF owner = "gateway" THEN "publish" ELSE "stream"
      BY <1>t, <1>g, <2>2 DEF SubscribeSSE, Subscribe, GatewayGoto
    <3>2. owner = "gateway" => log = << >> /\ Len(log) = 0
      BY <3>1, EmptySeq DEF CreatedInv
    <3> QED BY <2>s, <3>1, <3>2 DEF CreatedInv
  <2>3. CASE SubscribeFails \/ PublishTaskFails
    <3>1. /\ UNCHANGED << owner, log, gone, written, missed >> /\ failures' = failures + 1
          /\ gpc' = "returned"
          /\ queued' = queued \/ gpc = "publish"
      BY <2>3 DEF SubscribeFails, PublishTaskFails, CountEventFailure, GatewayGoto
    <3>2. failures' # 0
      BY <1>t, <3>1
    <3>3. ~queued' => log' = << >>
      BY <3>1 DEF CreatedInv
    <3>4. \A i \in 1 .. Len(written) : i < Len(written) => log[written[i]] \notin Terminal
      BY DEF CreatedInv
    <3> QED BY <2>s, <3>1, <3>2, <3>3, <3>4 DEF CreatedInv
  <2>4. CASE WriteEvent
    <3>1. /\ UNCHANGED << owner, queued, log, missed, failures, gone >>
          /\ gpc = "stream" /\ ch # << >> /\ written' = Append(written, Head(ch))
          /\ gpc' = IF log[Head(ch)] \in Terminal THEN "returned" ELSE "stream"
      BY <2>4 DEF WriteEvent, GatewayGoto, eventsVars
    <3>2. Head(ch) \in 1 .. MaxEvents
      BY <1>t, <3>1, HeadTailProperties
    <3>3. /\ Len(written') = Len(written) + 1 /\ written'[Len(written) + 1] = Head(ch)
          /\ \A i \in 1 .. Len(written) : written'[i] = written[i]
      BY <1>t, <3>1, <3>2, AppendProperties
    <3>4. \A i \in 1 .. Len(written) : log'[written'[i]] \notin Terminal
      BY <3>1, <3>3 DEF CreatedInv
    <3>5. ASSUME NEW i \in 1 .. Len(written'), i < Len(written') \/ gpc' # "returned"
          PROVE  log'[written'[i]] \notin Terminal
      <4>1. CASE i \in 1 .. Len(written)
        BY <3>4, <4>1
      <4>2. CASE i = Len(written) + 1
        <5>1. gpc' # "returned"
          BY <1>t, <3>3, <3>5, <4>2
        <5> QED BY <3>1, <3>3, <4>2, <5>1
      <4> QED BY <1>t, <3>3, <4>1, <4>2
    <3>6. gpc' = "returned" => written' # << >> /\ log'[written'[Len(written')]] \in Terminal
      BY <1>t, <3>1, <3>3
    <3>7. /\ ~queued' => log' = << >>
          /\ owner' = "gateway" => spc' = "idle" /\ missed'["gateway"] = 0
          /\ gpc' \notin {"new", "subscribe", "publish"}
      BY <2>s, <3>1 DEF CreatedInv
    <3> QED BY <3>5, <3>6, <3>7 DEF CreatedInv
  <2>5. CASE StreamCloses
    <3>1. gone
      BY <2>5 DEF StreamCloses, GatewayGoto, GatewayInv, GatewayPlace, ContextDone
    <3> QED BY <1>u, <2>s, <2>5, <3>1 DEF StreamCloses, GatewayGoto, eventsVars
  <2>6. CASE GoroutineStep
    BY <1>u, <2>s, <2>6 DEF GoroutineStep, ReceiveMessage, SendEvent, ReturnOnContextDone, Unsubscribe,
       eventsVars
  <2> QED BY <1>4, <2>1, <2>2, <2>3, <2>4, <2>5, <2>6 DEF GatewayNext, HandlerStep
<1>5. QED
  BY <1>1, <1>2, <1>3, <1>4 DEF ListenNext, Network

-----------------------------------------------------------------------------
LEMMA ListenInvInit == ListenInit => TypeInv /\ ListenInv
<1> SUFFICES ASSUME ListenInit PROVE TypeInv /\ ListenInv
  OBVIOUS
<1>1. TypeInv
  BY ListenTypeInit
<1>2. /\ log = << >> /\ written = << >> /\ ch = << >> /\ Held = << >> /\ read = << >>
      /\ inbox["gateway"] = << >> /\ inbox["sdk"] = << >> /\ Len(<< >>) = 0
      /\ gpc = "new" /\ rpc = "off" /\ spc = "idle" /\ queued = FALSE
      /\ ~lost["gateway"] /\ ~lost["sdk"] /\ ~subscribed["gateway"] /\ ~subscribed["sdk"]
      /\ missed["gateway"] = 0
  BY DEF ListenInit, EventsInit, GatewayInit, SdkInit, Listener, Held
<1>3. GatewayPath = << >> /\ SdkPath = << >>
  <2>1. << >> \o << >> = << >>
    BY ConcatEmptySeq, EmptySeq
  <2> QED BY <1>2, <2>1 DEF GatewayPath, SdkPath
<1>4. Flows(GatewayPath, "gateway") /\ Flows(SdkPath, "sdk")
  BY <1>2, <1>3 DEF Flows, ReadsInOrder
<1>5. GatewayPlace /\ SdkPlace /\ CreatedInv
  BY <1>2 DEF GatewayPlace, SdkPlace, CreatedInv
<1>6. QED
  BY <1>1, <1>4, <1>5 DEF TypeInv, ListenInv, GatewayInv, SdkInv

LEMMA ListenInvStep ==
  ASSUME TypeInv, ListenInv, [ListenNext]_listenVars
  PROVE  TypeInv' /\ ListenInv'
<1>1. TypeInv' /\ ListenTypeOK'
  BY ListenTypeStep DEF TypeInv
<1>2. CASE ListenNext
  <2>1. Flows(GatewayPath, "gateway")' /\ GatewayPlace'
    BY <1>1, <1>2, GatewayFlows, GatewayPlaceStep DEF ListenInv, GatewayInv
  <2>2. Flows(SdkPath, "sdk")' /\ SdkPlace'
    BY <1>2, SdkFlows, SdkPlaceStep DEF ListenInv, SdkInv
  <2>3. CreatedInv'
    BY <1>1, <1>2, CreatedStep DEF ListenInv
  <2> QED BY <1>1, <2>1, <2>2, <2>3 DEF ListenInv, GatewayInv, SdkInv
<1>3. CASE UNCHANGED listenVars
  <2>1. UNCHANGED << owner, queued, log, subscribed, inbox, missed, lost, failures >>
    BY <1>3 DEF listenVars, eventsVars
  <2>2. UNCHANGED << gpc, rpc, held, ch, gone, written, spc, read >>
    BY <1>3 DEF listenVars, gatewayVars, sdkVars
  <2>3. GatewayInv'
    BY <2>1, <2>2, ZenonT(60)
    DEF ListenInv, GatewayInv, Flows, ReadsInOrder, GatewayPath, Held, GatewayPlace,
       ContextDone
  <2>4. SdkInv'
    BY <2>1, <2>2 DEF ListenInv, SdkInv, Flows, ReadsInOrder, SdkPath, SdkPlace
  <2>5. CreatedInv'
    BY <2>1, <2>2 DEF ListenInv, CreatedInv
  <2> QED BY <1>1, <2>3, <2>4, <2>5 DEF ListenInv
<1>4. QED
  BY <1>2, <1>3

\* The events that the gateway writes to a client, and those that the SDK yields to an app,
\* are in the order of publication and none comes twice; none is left out between the first
\* and the last unless the connection or a full buffer has lost one (streamSSE, SubscribeSSE;
\* InferenceAdapter.stream).
THEOREM EventsAreInOrder == ListenSpec => []EventsInOrder
<1>1. TypeInv /\ ListenInv => EventsInOrder
  <2> SUFFICES ASSUME TypeInv, ListenInv PROVE EventsInOrder
    OBVIOUS
  <2>1. ReadsInOrder(written, "gateway")
    BY WrittenInOrder DEF ListenInv
  <2>2. PICK S, r, b : r \in Seq(S) /\ b \in Seq(S) /\ r = read /\ ReadsInOrder(r \o b, "sdk")
    BY PathType DEF SdkPath, ListenInv, SdkInv, Flows
  <2>3. ReadsInOrder(r, "sdk")
    BY <2>2, StartInOrder
  <2>4. ReadsInOrder(read, "sdk")
    BY <2>2, <2>3 DEF ReadsInOrder
  <2> QED BY <2>1, <2>4 DEF EventsInOrder
<1>2. TypeInv /\ ListenInv /\ [ListenNext]_listenVars => (TypeInv /\ ListenInv)'
  BY ListenInvStep
<1>3. QED
  BY <1>1, <1>2, ListenInvInit, PTL DEF ListenSpec

\* A client that creates a task and stays connected has every event of it, from the first to
\* the outcome, when its stream ends and nothing has failed: the handler subscribes before it
\* publishes the task, and returns on the outcome only (CreateTask, streamSSE).
THEOREM CreatedStreamComplete == ListenSpec => []CreatedStreamIsComplete
<1>1. TypeInv /\ ListenInv => CreatedStreamIsComplete
  <2> SUFFICES ASSUME TypeInv, ListenInv, owner = "gateway", gpc = "returned", ~gone,
                      ~lost["gateway"], failures = 0
               PROVE  HasEnded /\ written = [i \in 1 .. Outcome |-> i]
    BY DEF CreatedStreamIsComplete
  <2>t. GatewayInv /\ written \in Seq(1 .. MaxEvents) /\ Len(log) \in Nat
    BY LenProperties DEF ListenInv, TypeInv, ListenTypeOK, EventsTypeOK, GatewayTypeOK
  <2>1. PICK n : n = Len(written) /\ n \in Nat \ {0}
    BY <2>t, EmptySeq DEF ListenInv, CreatedInv
  <2>2. \A i \in 1 .. n : written[i] = i
    <3>1. ReadsInOrder(written, "gateway")
      BY <2>t, WrittenInOrder
    <3>2. missed["gateway"] = 0
      BY DEF ListenInv, CreatedInv
    <3> QED BY <2>1, <3>1, <3>2 DEF ReadsInOrder
  <2>3. n \in 1 .. n /\ n \in 1 .. Len(log)
    <3>1. n \in 1 .. n
      BY <2>1
    <3>2. written[n] <= Len(log)
      BY <2>t, <2>1, <3>1, WrittenIsPast
    <3> QED BY <2>t, <2>1, <2>2, <3>1, <3>2
  <2>4. log[n] \in Terminal /\ \A j \in 1 .. n - 1 : log[j] \notin Terminal
    BY <2>1, <2>2, <2>3 DEF ListenInv, CreatedInv
  <2>5. Outcome = n
    <3>1. ASSUME NEW k \in 1 .. Len(log), log[k] \in Terminal, \A j \in 1 .. k - 1 : log[j] \notin Terminal
          PROVE  k = n
      BY <2>t, <2>3, <2>4, <3>1
    <3> QED BY <2>3, <2>4, <3>1 DEF Outcome
  <2>6. written = [i \in 1 .. n |-> i]
    <3>1. written \in [1 .. n -> 1 .. MaxEvents]
      BY <2>t, <2>1, LenProperties
    <3> QED BY <2>2, <3>1
  <2> QED BY <2>3, <2>4, <2>5, <2>6 DEF HasEnded
<1>2. TypeInv /\ ListenInv /\ [ListenNext]_listenVars => (TypeInv /\ ListenInv)'
  BY ListenInvStep
<1>3. QED
  BY <1>1, <1>2, ListenInvInit, PTL DEF ListenSpec
=============================================================================
