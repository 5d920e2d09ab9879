----------------------------- MODULE TaskEvents -----------------------------
(***************************************************************************)
(* The events of one task on its pub/sub channel sse:{task_id}, and the    *)
(* two kinds of subscribers to it: the gateway's and the SDK's.            *)
(*                                                                         *)
(* Redis and its client libraries are external.  Pub/sub reaches who is    *)
(* subscribed at that moment.  What it delivers waits in a buffer of the   *)
(* client library until the program reads it, and is lost when the buffer  *)
(* is full or the connection breaks, which the library restores by itself. *)
(***************************************************************************)
EXTENDS Naturals, Sequences, SequencesExt

CONSTANTS
  MaxEvents,   \* bound: events published for the task
  Buffer,      \* messages the client library keeps (100 in go-redis)
  MaxFailures  \* bound: broken connections and failing Redis operations

ASSUME EventsAssumption ==
  MaxEvents \in Nat /\ Buffer \in Nat \ {0} /\ MaxFailures \in Nat

VARIABLES
  owner,       \* who creates the task
  queued,      \* it is in tasks:inbound
  log,         \* the events published so far
  subscribed,  \* subscribed[l]: Redis sends listener l what is published
  inbox,       \* inbox[l]: events waiting for the program, by position in log
  missed,      \* missed[l]: events published before l subscribed
  lost,        \* lost[l]: an event published afterwards has not reached l
  failures

eventsVars == << owner, queued, log, subscribed, inbox, missed, lost, failures >>

Listener == {"gateway", "sdk"}
EventType == {"RESPONSE_CHUNK", "DONE", "ERROR"}
Terminal == {"DONE", "ERROR"}

EventsTypeOK ==
  /\ owner \in {"gateway", "app"}
  /\ queued \in BOOLEAN
  /\ log \in Seq(EventType) /\ Len(log) <= MaxEvents
  /\ subscribed \in [Listener -> BOOLEAN]
  /\ inbox \in [Listener -> Seq(1 .. MaxEvents)]
  /\ \A l \in Listener : Len(inbox[l]) <= Buffer
  /\ missed \in [Listener -> 0 .. MaxEvents]
  /\ lost \in [Listener -> BOOLEAN]
  /\ failures \in 0 .. MaxFailures

EventsInit ==
  /\ owner \in {"gateway", "app"}
  /\ queued = FALSE
  /\ log = << >>
  /\ subscribed = [l \in Listener |-> FALSE]
  /\ inbox = [l \in Listener |-> << >>]
  /\ missed = [l \in Listener |-> 0]
  /\ lost = [l \in Listener |-> FALSE]
  /\ failures = 0

HasEnded == \E i \in 1 .. Len(log) : log[i] \in Terminal

\* The positions up to the first terminal event.
Outcome == CHOOSE i \in 1 .. Len(log) :
             log[i] \in Terminal /\ \A j \in 1 .. i - 1 : log[j] \notin Terminal

CountEventFailure == failures < MaxFailures /\ failures' = failures + 1

\* Listener l gets a subscription, respectively gives it up.
Subscribe(l) ==
  /\ subscribed' = [subscribed EXCEPT ![l] = TRUE]
  /\ missed' = [missed EXCEPT ![l] = Len(log)]
  /\ UNCHANGED << owner, queued, log, inbox, lost >>

Unsubscribe(l) ==
  /\ subscribed' = [subscribed EXCEPT ![l] = FALSE]
  /\ inbox' = [inbox EXCEPT ![l] = << >>]
  /\ UNCHANGED << owner, queued, log, missed, lost, failures >>

ReadInbox(l) ==
  /\ inbox[l] # << >>
  /\ inbox' = [inbox EXCEPT ![l] = Tail(@)]

\* publish_thought of the inference controller: chunks, then one outcome, after
\* which at most a second ERROR follows the first.
PublishEvent(type) ==
  /\ queued
  /\ Len(log) < MaxEvents
  /\ HasEnded => Last(log) = "ERROR" /\ type = "ERROR"
  /\ log' = Append(log, type)
  /\ inbox' = [l \in Listener |-> IF subscribed[l] /\ Len(inbox[l]) < Buffer
                                  THEN Append(inbox[l], Len(log) + 1) ELSE inbox[l]]
  /\ lost' = [l \in Listener |->
                lost[l] \/ (subscribed[l] /\ Len(inbox[l]) = Buffer)]
  /\ UNCHANGED << owner, queued, subscribed, missed, failures >>

\* The library's connection breaks and is restored with its subscription: what
\* was published meanwhile never arrives.
ConnectionBreaks(l) ==
  /\ subscribed[l]
  /\ subscribed' = [subscribed EXCEPT ![l] = FALSE]
  /\ lost' = [lost EXCEPT ![l] = TRUE]
  /\ CountEventFailure
  /\ UNCHANGED << owner, queued, log, inbox, missed >>

ConnectionIsRestored(l, listening) ==
  /\ listening
  /\ ~subscribed[l]
  /\ subscribed' = [subscribed EXCEPT ![l] = TRUE]
  /\ UNCHANGED << owner, queued, log, inbox, missed, lost, failures >>
=============================================================================
