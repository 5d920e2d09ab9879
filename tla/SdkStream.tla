------------------------------ MODULE SdkStream ------------------------------
(***************************************************************************)
(* The SDK's inference adapter: request publishes a task, and stream or    *)
(* await_result, called with the id it returned, subscribes to the task's  *)
(* events, polls for them, and gives up after its timeout.                 *)
(*                                                                         *)
(* spc is where the app is: idle, requested, listen, ended, timeout.       *)
(***************************************************************************)
EXTENDS TaskEvents

VARIABLES
  spc,
  read    \* events yielded so far

sdkVars == << spc, read >>

SdkTypeOK ==
  /\ spc \in {"idle", "requested", "listen", "ended", "timeout"}
  /\ read \in Seq(1 .. MaxEvents)

SdkInit == spc = "idle" /\ read = << >>

SdkGoto(from, to) == spc = from /\ spc' = to

Request ==
  /\ owner = "app"
  /\ SdkGoto("idle", "requested")
  /\ queued' = TRUE
  /\ UNCHANGED << read, owner, log, subscribed, inbox, missed, lost, failures >>

StartStream ==
  /\ SdkGoto("requested", "listen")
  /\ Subscribe("sdk")
  /\ UNCHANGED << read, failures >>

YieldEvent ==
  /\ spc = "listen"
  /\ ReadInbox("sdk")
  /\ log[Head(inbox["sdk"])] \notin Terminal
  /\ read' = Append(read, Head(inbox["sdk"]))
  /\ UNCHANGED << spc, owner, queued, log, subscribed, missed, lost, failures >>

\* Mutant: the loop looks for DONE only.
YieldDone ==
  /\ inbox["sdk"] # << >>
  /\ log[Head(inbox["sdk"])] \in Terminal
  /\ IF log[Head(inbox["sdk"])] = "DONE"
     THEN SdkGoto("listen", "ended") /\ Unsubscribe("sdk")
     ELSE /\ spc = "listen" /\ ReadInbox("sdk")
          /\ UNCHANGED << spc, owner, queued, log, subscribed, missed, lost, failures >>
  /\ read' = Append(read, Head(inbox["sdk"]))

\* The outcome: the generator returns and its finally clause unsubscribes.
YieldOutcome ==
  /\ inbox["sdk"] # << >>
  /\ log[Head(inbox["sdk"])] \in Terminal
  /\ SdkGoto("listen", "ended")
  /\ read' = Append(read, Head(inbox["sdk"]))
  /\ Unsubscribe("sdk")

\* InferenceTimeoutError: 300 s have passed.  The deadline is looked at before the next
\* event is, so what still waits in the buffer, an outcome included, is given up with
\* the subscription; the body of the caller's loop may have taken the time.
StreamTimesOut ==
  /\ SdkGoto("listen", "timeout")
  /\ Unsubscribe("sdk")
  /\ UNCHANGED read

SdkStep == Request \/ StartStream \/ YieldEvent \/ YieldOutcome
SdkNext == SdkStep \/ StreamTimesOut
=============================================================================
